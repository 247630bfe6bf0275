------------------------------ MODULE MCMission ------------------------------
(* One mission under every sequence of operations, write errors, crashes and  *)
(* boots.  Missions share nothing but the boot; Mission_proofs has any number *)
(* of them.                                                                   *)
EXTENDS Mission, TLC
=============================================================================
