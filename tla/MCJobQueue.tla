----------------------------- MODULE MCJobQueue -----------------------------
(* Small instances of the job queue. *)
EXTENDS JobQueue, TLC

CONSTANTS j1, j2, w1, w2, k1

Symmetric == Permutations(Jobs) \union Permutations(Workers)

\* Bound: a job that an operator revives is the only one from then on.
RevivedAlone ==
  \A j \in Jobs : retried[j] > 0 => \A i \in Jobs \ {j} : status[i] = "absent"

=============================================================================
