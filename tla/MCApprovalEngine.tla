--------------------------- MODULE MCApprovalEngine ---------------------------
(* Three approvals, one of critical risk, and two executions that may await *)
(* the same approval.                                                       *)
EXTENDS ApprovalEngine, TLC

CONSTANTS normal, critical, other

MCOrder == <<normal, critical, other>>
MCRequired == normal :> 1 @@ critical :> 2 @@ other :> 1
=============================================================================
