----------------------------- MODULE MCScheduler -----------------------------
(* Two schedules of different cadence and two scheduler processes. *)
EXTENDS Scheduler, TLC

CONSTANTS s1, s2, p1, p2

TwoCadences == (s1 :> 2) @@ (s2 :> 3)
TwoStarts == (s1 :> 0) @@ (s2 :> 1)

=============================================================================
