--------------------------- MODULE MCAgentRegistry ---------------------------
(* Three agents, so that a circle can close over an agent that left and came  *)
(* back; one of them is also initialized, reloaded and switched on and off.   *)
EXTENDS AgentRegistry, TLC
=============================================================================
