---------------------------- MODULE JobLifecycle ----------------------------
(***************************************************************************)
(* What the queue promises about a job, without workers, leases or clocks: *)
(* it runs at least once and at most MaxAttempts times per quota, any run  *)
(* of it (even one already given up on) may still leave its effects        *)
(* behind, and it is finished only by its latest run.                      *)
(***************************************************************************)
EXTENDS Integers

CONSTANTS Jobs, MaxAttempts

VARIABLES phase,     \* "absent", "queued", "running", "done" or "dead"
          left,      \* runs left in the quota
          runs,      \* runs started
          effects    \* the runs whose effects are visible

vars == <<phase, left, runs, effects>>

Init ==
  /\ phase = [j \in Jobs |-> "absent"]
  /\ left = [j \in Jobs |-> MaxAttempts]
  /\ runs = [j \in Jobs |-> 0]
  /\ effects = [j \in Jobs |-> {}]

Becomes(j, p) == phase'[j] = p
Keeps(j) == left'[j] = left[j] /\ runs'[j] = runs[j]

Submit(j) == /\ phase[j] = "absent" /\ Becomes(j, "queued") /\ Keeps(j)
             /\ effects'[j] = effects[j]

Start(j) == /\ phase[j] = "queued" /\ Becomes(j, "running")
            /\ left[j] > 0
            /\ left'[j] = left[j] - 1
            /\ runs'[j] = runs[j] + 1
            /\ effects'[j] = effects[j]

TakeEffect(j) == /\ Becomes(j, phase[j]) /\ Keeps(j)
                 /\ \E n \in 1..runs[j] : effects'[j] = effects[j] \union {n}

Finish(j) == /\ phase[j] = "running" /\ Becomes(j, "done") /\ Keeps(j)
             /\ runs[j] \in effects[j]
             /\ effects'[j] = effects[j]

GiveUp(j) == /\ phase[j] = "running" /\ Keeps(j)
             /\ Becomes(j, IF left[j] > 0 THEN "queued" ELSE "dead")
             /\ effects'[j] = effects[j]

Revive(j) == /\ phase[j] = "dead" /\ Becomes(j, "queued")
             /\ left'[j] = MaxAttempts
             /\ runs'[j] = runs[j]
             /\ effects'[j] = effects[j]

Rest(j) == Becomes(j, phase[j]) /\ Keeps(j) /\ effects'[j] = effects[j]

\* Jobs live independently: one step may move several of them (a reaper
\* gives up on all expired leases at once).
Next == \A j \in Jobs : \/ Submit(j) \/ Start(j) \/ TakeEffect(j)
                        \/ Finish(j) \/ GiveUp(j) \/ Revive(j) \/ Rest(j)

Spec == Init /\ [][Next]_vars

=============================================================================
