---------------------------- MODULE MCModelRouter ----------------------------
(* Two callers racing for two providers, of which the first choice comes and  *)
(* goes.                                                                      *)
EXTENDS ModelRouter, TLC
CONSTANTS p1, p2
MCPriority == p1 :> 1 @@ p2 :> 2
=============================================================================
