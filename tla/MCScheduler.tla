----------------------------- MODULE MCScheduler -----------------------------
(* Instances of Scheduler for TLC: a one-time task, a task that repeats     *)
(* without end, and one that repeats at once (interval 0), twice and until  *)
(* a time: its limit and its time may each stop it first.                   *)
EXTENDS Scheduler, TLC

CONSTANTS once, always, twice

MCDelay == once :> 1 @@ always :> 1 @@ twice :> 0
MCUntil == once :> NoTime @@ always :> NoTime @@ twice :> 2
MCLimit == once :> NoLimit @@ always :> NoLimit @@ twice :> 2
=============================================================================
