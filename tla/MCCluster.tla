------------------------------ MODULE MCCluster ------------------------------
(* Two nodes, one of them the manager's own, and one dispatch under every     *)
(* order of heartbeats, checks, deregistrations, cancellations and results.   *)
EXTENDS Cluster, TLC
=============================================================================
