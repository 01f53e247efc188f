------------------------------ MODULE JobQueue ------------------------------
(***************************************************************************)
(* The durable job queue (gm/infra/jobs.py) and the operator's retry       *)
(* button (gm/api.py).                                                     *)
(*                                                                         *)
(* The jobs table is one function per column.  Every SQL statement on it   *)
(* runs in autocommit, so it is one atomic step; a handler's own work runs *)
(* in ANOTHER transaction, whose commit is a separate step of the worker.  *)
(* The two clock columns are kept relative to now(): lockedFor is          *)
(* locked_until - now() and dueIn is run_after - now(); Tick moves both.   *)
(* Every call site enqueues with the default priority and max_attempts, so *)
(* `order by priority, run_after' is the order of run_after.               *)
(***************************************************************************)
EXTENDS Integers, FiniteSets

CONSTANTS
  Jobs,          \* row identities
  Workers,       \* worker processes
  Keys, NoKey,   \* idempotency keys, and the null key
  None,          \* null
  MaxAttempts,   \* jobs.max_attempts
  LeaseSeconds,  \* Worker.lease_seconds
  BackoffBase,   \* the 10.0 of the retry backoff
  BackoffCap,    \* the 300.0 of the retry backoff
  ReapEvery,     \* the 10 of `polls % 10'
  Delays,        \* run_after offsets callers pass
  \* Bounds of the model:
  MaxOverdue,    \* how far back the order of overdue jobs is remembered
  MaxRetries,    \* operator retries of one job
  MaxCrashes     \* process exits

ASSUME QueueAssumption ==
  /\ MaxAttempts \in Nat \ {0}
  /\ LeaseSeconds \in Nat
  /\ BackoffBase \in Nat
  /\ BackoffCap \in Nat
  /\ ReapEvery \in Nat \ {0}
  /\ Delays \subseteq Nat
  /\ MaxOverdue \in Nat
  /\ MaxRetries \in Nat
  /\ MaxCrashes \in Nat
  /\ None \notin Workers
  /\ None \notin Jobs
  /\ NoKey \notin Keys

VARIABLES
  status, attempts, lockedBy, lockedFor, dueIn, key,   \* the jobs table
  pc, polls, job, claimNo,                             \* worker processes
  crashes,                                             \* bounded by MaxCrashes
  \* history: how often a job was claimed, which of those claims committed
  \* their work, how often an operator revived it, and whether a lease of it
  \* was reaped or the answer to a COMMIT was lost
  claims, landed, retried, suspect

table   == <<status, attempts, lockedBy, lockedFor, dueIn, key>>
process == <<pc, polls, job, claimNo>>
history == <<claims, landed, retried, suspect>>
vars    == <<table, process, crashes, history>>

Statuses == {"absent", "queued", "running", "done", "dead"}
PCs      == {"top", "poll", "working", "committed", "failed", "down"}

-----------------------------------------------------------------------------
(* The jobs table *)

Backoff(a) == LET b == BackoffBase * 2^a
              IN  IF b \in 0..BackoffCap THEN b ELSE BackoffCap

Due == {j \in Jobs : status[j] = "queued" /\ dueIn[j] <= 0}

\* Mutants: the lease compared with <=; the last attempt left to its owner.
ExpiredEarly == {j \in Jobs : status[j] = "running" /\ lockedFor[j] <= 0}
ExpiredWithQuota == {j \in Jobs : /\ status[j] = "running" /\ lockedFor[j] < 0
                                  /\ attempts[j] < MaxAttempts}

Expired == {j \in Jobs : status[j] = "running" /\ lockedFor[j] < 0}

\* Mutants: the fence checks no owner; the fence checks nothing.
OwnedByAny(w) == {j \in Jobs : j = job[w] /\ status[j] = "running"}
OwnedForEver(w) == {j \in Jobs : j = job[w]}

Owned(w) == {j \in Jobs : j = job[w] /\ lockedBy[j] = w /\ status[j] = "running"}

\* Mutant: max_attempts is never consulted.
FailSetNeverDead(S) ==
  /\ status' = [j \in Jobs |-> IF j \in S THEN "queued" ELSE status[j]]
  /\ dueIn' = [j \in Jobs |-> IF j \in S THEN Backoff(attempts[j]) ELSE dueIn[j]]
  /\ lockedBy' = [j \in Jobs |-> IF j \in S THEN None ELSE lockedBy[j]]
  /\ lockedFor' = [j \in Jobs |-> IF j \in S THEN 0 ELSE lockedFor[j]]
  /\ UNCHANGED <<attempts, key>>

\* `update jobs set _FAIL_SET' over the rows S its WHERE clause selects.
FailSet(S) ==
  /\ status' = [j \in Jobs |-> IF j \notin S THEN status[j]
                               ELSE IF attempts[j] >= MaxAttempts THEN "dead"
                               ELSE "queued"]
  /\ dueIn' = [j \in Jobs |-> IF j \in S /\ attempts[j] < MaxAttempts
                              THEN Backoff(attempts[j]) ELSE dueIn[j]]
  /\ lockedBy' = [j \in Jobs |-> IF j \in S THEN None ELSE lockedBy[j]]
  /\ lockedFor' = [j \in Jobs |-> IF j \in S THEN 0 ELSE lockedFor[j]]
  /\ UNCHANGED <<attempts, key>>

-----------------------------------------------------------------------------
Init ==
  /\ status = [j \in Jobs |-> "absent"]
  /\ attempts = [j \in Jobs |-> 0]
  /\ lockedBy = [j \in Jobs |-> None]
  /\ lockedFor = [j \in Jobs |-> 0]
  /\ dueIn = [j \in Jobs |-> 0]
  /\ key = [j \in Jobs |-> NoKey]
  /\ pc = [w \in Workers |-> "top"]
  /\ polls = [w \in Workers |-> 0]
  /\ job = [w \in Workers |-> None]
  /\ claimNo = [w \in Workers |-> 0]
  /\ crashes = 0
  /\ claims = [j \in Jobs |-> 0]
  /\ landed = [j \in Jobs |-> {}]
  /\ retried = [j \in Jobs |-> 0]
  /\ suspect = [j \in Jobs |-> FALSE]

\* A conflict on the key inserts nothing, whatever became of the older row.
Enqueue(j, k, d) ==
  /\ status[j] = "absent"
  /\ k = NoKey \/ \A i \in Jobs : key[i] # k
  /\ status' = [status EXCEPT ![j] = "queued"]
  /\ key' = [key EXCEPT ![j] = k]
  /\ dueIn' = [dueIn EXCEPT ![j] = d]
  /\ UNCHANGED <<attempts, lockedBy, lockedFor, process, crashes, history>>

\* One turn of `while not stop.is_set()' up to run_once.
LoopTop(w) ==
  LET stale == IF polls[w] = 0 THEN Expired ELSE {} IN
  /\ pc[w] = "top"
  /\ FailSet(stale)
  /\ suspect' = [j \in Jobs |-> suspect[j] \/ j \in stale]
  /\ polls' = [polls EXCEPT ![w] = (@ + 1) % ReapEvery]
  /\ pc' = [pc EXCEPT ![w] = "poll"]
  /\ UNCHANGED <<job, claimNo, crashes, claims, landed, retried>>

Claim(w, j) ==
  /\ pc[w] = "poll"
  /\ j \in Due
  /\ \A i \in Due : dueIn[j] <= dueIn[i]
  /\ status' = [status EXCEPT ![j] = "running"]
  /\ attempts' = [attempts EXCEPT ![j] = @ + 1]
  /\ lockedBy' = [lockedBy EXCEPT ![j] = w]
  /\ lockedFor' = [lockedFor EXCEPT ![j] = LeaseSeconds]
  /\ claims' = [claims EXCEPT ![j] = @ + 1]
  /\ pc' = [pc EXCEPT ![w] = "working"]
  /\ job' = [job EXCEPT ![w] = j]
  /\ claimNo' = [claimNo EXCEPT ![w] = claims[j] + 1]
  /\ UNCHANGED <<dueIn, key, polls, crashes, landed, retried, suspect>>

\* claim_one found nothing: stop.wait(poll_seconds).
Idle(w) ==
  /\ pc[w] = "poll"
  /\ Due = {}
  /\ pc' = [pc EXCEPT ![w] = "top"]
  /\ UNCHANGED <<table, polls, job, claimNo, crashes, history>>

\* Mutant: a heartbeat takes the row over instead of checking its owner.
HeartbeatTakesOver(w) ==
  /\ pc[w] = "working"
  /\ status[job[w]] = "running"
  /\ lockedBy' = [lockedBy EXCEPT ![job[w]] = w]
  /\ lockedFor' = [lockedFor EXCEPT ![job[w]] = LeaseSeconds]
  /\ UNCHANGED <<status, attempts, dueIn, key, process, crashes, history>>

\* JobContext.heartbeat, called by the handler; it checks the owner, not the
\* clock, so it revives an expired lease nobody has reaped yet.
Heartbeat(w) ==
  /\ pc[w] = "working"
  /\ lockedFor' = [j \in Jobs |-> IF j \in Owned(w) THEN LeaseSeconds
                                  ELSE lockedFor[j]]
  /\ pc' = IF Owned(w) = {} THEN [pc EXCEPT ![w] = "failed"] ELSE pc   \* LostLease
  /\ UNCHANGED <<status, attempts, lockedBy, dueIn, key, polls, job, claimNo,
                 crashes, history>>

\* The handler raised: its transaction is rolled back.
HandlerRaises(w) ==
  /\ pc[w] = "working"
  /\ pc' = [pc EXCEPT ![w] = "failed"]
  /\ UNCHANGED <<table, polls, job, claimNo, crashes, history>>

\* work_conn.commit(): nothing fences it with the lease.  When the answer is
\* lost the client sees an error for work that did commit.
Commit(w) ==
  /\ pc[w] = "working"
  /\ landed' = [landed EXCEPT ![job[w]] = @ \union {claimNo[w]}]
  /\ \/ /\ pc' = [pc EXCEPT ![w] = "committed"]
        /\ UNCHANGED suspect
     \/ /\ pc' = [pc EXCEPT ![w] = "failed"]
        /\ suspect' = [suspect EXCEPT ![job[w]] = TRUE]
  /\ UNCHANGED <<table, polls, job, claimNo, crashes, claims, retried>>

Release(w) ==
  /\ pc' = [pc EXCEPT ![w] = "top"]
  /\ job' = [job EXCEPT ![w] = None]
  /\ claimNo' = [claimNo EXCEPT ![w] = 0]
  /\ UNCHANGED polls

\* Mutant: complete() inside the try block, so that its error fails the job.
CompleteMayFail(w) ==
  /\ pc[w] = "committed"
  /\ \/ /\ status' = [j \in Jobs |-> IF j \in Owned(w) THEN "done" ELSE status[j]]
        /\ Release(w)
     \/ /\ pc' = [pc EXCEPT ![w] = "failed"]
        /\ UNCHANGED <<status, polls, job, claimNo>>
  /\ UNCHANGED <<attempts, lockedBy, lockedFor, dueIn, key, crashes, history>>

Complete(w) ==
  /\ pc[w] = "committed"
  /\ status' = [j \in Jobs |-> IF j \in Owned(w) THEN "done" ELSE status[j]]
  /\ lockedBy' = [j \in Jobs |-> IF j \in Owned(w) THEN None ELSE lockedBy[j]]
  /\ lockedFor' = [j \in Jobs |-> IF j \in Owned(w) THEN 0 ELSE lockedFor[j]]
  /\ Release(w)
  /\ UNCHANGED <<attempts, dueIn, key, crashes, history>>

Fail(w) ==
  /\ pc[w] = "failed"
  /\ FailSet(Owned(w))
  /\ Release(w)
  /\ UNCHANGED <<crashes, history>>

\* The process ends: killed anywhere, a database error outside the handler
\* (nothing catches it), or SIGTERM, which is honoured at the loop top.  The
\* server rolls the open transaction back; the row keeps its lease.
Crash(w) ==
  /\ pc[w] # "down"
  /\ crashes < MaxCrashes
  /\ crashes' = crashes + 1
  /\ pc' = [pc EXCEPT ![w] = "down"]
  /\ job' = [job EXCEPT ![w] = None]
  /\ claimNo' = [claimNo EXCEPT ![w] = 0]
  /\ UNCHANGED <<table, polls, history>>

\* A new process: its worker_id is new, and no step of it depends on rows
\* locked by its predecessor, so it may reuse the name w.
Restart(w) ==
  /\ pc[w] = "down"
  /\ pc' = [pc EXCEPT ![w] = "top"]
  /\ polls' = [polls EXCEPT ![w] = 0]
  /\ UNCHANGED <<table, job, claimNo, crashes, history>>

\* Mutant: the retry button also takes finished jobs.
RetryAny(j) ==
  /\ status[j] \in {"done", "dead"}
  /\ retried[j] < MaxRetries
  /\ retried' = [retried EXCEPT ![j] = @ + 1]
  /\ status' = [status EXCEPT ![j] = "queued"]
  /\ attempts' = [attempts EXCEPT ![j] = 0]
  /\ UNCHANGED <<lockedBy, lockedFor, dueIn, key, process, crashes, claims,
                 landed, suspect>>

\* POST /admin/jobs/{id}/retry
Retry(j) ==
  /\ status[j] = "dead"
  /\ retried[j] < MaxRetries
  /\ retried' = [retried EXCEPT ![j] = @ + 1]
  /\ status' = [status EXCEPT ![j] = "queued"]
  /\ attempts' = [attempts EXCEPT ![j] = 0]
  /\ dueIn' = [dueIn EXCEPT ![j] = 0]
  /\ lockedBy' = [lockedBy EXCEPT ![j] = None]
  /\ lockedFor' = [lockedFor EXCEPT ![j] = 0]
  /\ UNCHANGED <<key, process, crashes, claims, landed, suspect>>

\* run_after matters only while a row is queued, locked_until while it runs.
Tick ==
  /\ dueIn' = [j \in Jobs |-> IF status[j] = "queued" /\ dueIn[j] > -MaxOverdue
                              THEN dueIn[j] - 1 ELSE dueIn[j]]
  /\ lockedFor' = [j \in Jobs |-> IF status[j] = "running" /\ lockedFor[j] >= 0
                                  THEN lockedFor[j] - 1 ELSE lockedFor[j]]
  /\ UNCHANGED <<status, attempts, lockedBy, key, process, crashes, history>>

\* What a live worker does by itself, its supervisor's restart included.
WorkerStep(w) ==
  \/ LoopTop(w)
  \/ \E j \in Jobs : Claim(w, j)
  \/ Idle(w)
  \/ HandlerRaises(w)
  \/ Commit(w)
  \/ Complete(w)
  \/ Fail(w)
  \/ Restart(w)

Next ==
  \/ \E j \in Jobs, k \in Keys \union {NoKey}, d \in Delays : Enqueue(j, k, d)
  \/ \E w \in Workers : WorkerStep(w)
  \/ \E w \in Workers : Heartbeat(w)
  \/ \E w \in Workers : Crash(w)
  \/ \E j \in Jobs : Retry(j)
  \/ Tick

Spec == Init /\ [][Next]_vars

\* Handlers bound every network call by a timeout, so a handler returns or
\* raises; the platform restarts a worker that exits; time passes.
Fairness == /\ \A w \in Workers : WF_vars(WorkerStep(w))
            /\ WF_vars(Tick)

FairSpec == Spec /\ Fairness

-----------------------------------------------------------------------------
(* Properties *)

Holding(w) == pc[w] \in {"working", "committed", "failed"}

TypeOK ==
  /\ status \in [Jobs -> Statuses]
  /\ attempts \in [Jobs -> 0..MaxAttempts]
  /\ lockedBy \in [Jobs -> Workers \union {None}]
  /\ lockedFor \in [Jobs -> -1..LeaseSeconds]
  /\ dueIn \in [Jobs -> Int]
  /\ key \in [Jobs -> Keys \union {NoKey}]
  /\ pc \in [Workers -> PCs]
  /\ polls \in [Workers -> 0..(ReapEvery - 1)]
  /\ job \in [Workers -> Jobs \union {None}]
  /\ claimNo \in [Workers -> Nat]
  /\ crashes \in 0..MaxCrashes
  /\ claims \in [Jobs -> Nat]
  /\ landed \in [Jobs -> SUBSET Nat]
  /\ retried \in [Jobs -> 0..MaxRetries]
  /\ suspect \in [Jobs -> BOOLEAN]

\* A job is reported done only when the work of its LATEST claim is committed:
\* a worker whose lease was reaped can neither finish the job for its
\* successor nor pass off its own late commit as the successor's.
DoneByLatestClaim ==
  \A j \in Jobs : status[j] = "done" => claims[j] \in landed[j]

\* The fence names the worker, not the claim.  That suffices: whoever passes
\* it is acting for the latest claim of the job, because a worker holds one
\* job at a time and cannot claim again what it still believes it holds.
FenceIsLatestClaim ==
  \A w \in Workers : \A j \in Owned(w) : Holding(w) => claimNo[w] = claims[j]

\* max_attempts is honoured however claims end (failure, lost lease, crash):
\* every claim ever made is one of the current attempts or was part of a full
\* quota that an operator renewed, and a job is dead only with its quota used.
AttemptsHonoured ==
  \A j \in Jobs : /\ claims[j] = MaxAttempts * retried[j] + attempts[j]
                  /\ status[j] = "queued" => attempts[j] < MaxAttempts
                  /\ status[j] = "dead" => attempts[j] = MaxAttempts

\* Work commits at most once per job unless a lease of it was reaped or the
\* answer to a COMMIT was lost: failures, retries, late heartbeats and
\* crashes alone never repeat a committed handler.
OnceUnlessSuspect ==
  \A j \in Jobs : ~suspect[j] => \A m, n \in landed[j] : m = n

\* While a lease has not run out, only the worker holding it moves the row.
LeaseRespected ==
  [][\A j \in Jobs, w \in Workers :
       /\ status[j] = "running" /\ lockedBy[j] = w /\ lockedFor[j] >= 0
       /\ lockedBy'[j] # w
       => pc[w] \in {"committed", "failed"} /\ pc'[w] = "top"]_vars

\* A finished job stays finished, and a dead one is only ever revived by the
\* operator, with a fresh quota, due at once and held by nobody: the worker that
\* held it may still run, but it can no longer finish, fail or extend the row.
FinishedStaysFinished ==
  [][\A j \in Jobs :
       /\ status[j] = "done" => status'[j] = "done" /\ claims'[j] = claims[j]
       /\ status[j] = "dead" /\ status'[j] # "dead" =>
            /\ retried'[j] = retried[j] + 1
            /\ status'[j] = "queued" /\ attempts'[j] = 0
            /\ dueIn'[j] = 0 /\ lockedBy'[j] = None]_vars

\* Every queued job is eventually done or dead: nothing is stranded by a
\* crash at any point, whatever it had committed, even with a lone worker.
JobTerminates ==
  \A j \in Jobs : status[j] = "queued" ~> status[j] \in {"done", "dead"}

Lifecycle == INSTANCE JobLifecycle WITH
  phase <- status,
  left <- [j \in Jobs |-> MaxAttempts - attempts[j]],
  runs <- claims,
  effects <- landed

\* The queue implements the abstract life of a job: at least one run, at most
\* a quota of them, finished only by its latest run.
ImplementsLifecycle == Lifecycle!Spec

\* What the claim, commit and fence rules maintain together; DoneByLatestClaim,
\* FenceIsLatestClaim, AttemptsHonoured and OnceUnlessSuspect follow from it.
HolderInv ==
  \A w \in Workers :
    /\ Holding(w) => /\ job[w] \in Jobs
                     /\ claimNo[w] \in 1..claims[job[w]]
                     /\ pc[w] = "committed" => claimNo[w] \in landed[job[w]]
    /\ ~Holding(w) => job[w] = None

RowInv ==
  \A j \in Jobs :
    /\ status[j] = "running" <=> lockedBy[j] # None
    /\ status[j] = "running" => attempts[j] >= 1
    /\ status[j] = "absent" => claims[j] = 0 /\ attempts[j] = 0
    /\ landed[j] \subseteq 1..claims[j]

TrustedInv ==
  \A j \in Jobs : ~suspect[j] =>
    /\ landed[j] \subseteq {claims[j]}
    /\ landed[j] # {} => status[j] \in {"running", "done"}
    /\ \A w \in Workers : Holding(w) /\ job[w] = j =>
         /\ lockedBy[j] = w
         /\ pc[w] # "committed" => landed[j] = {}

IInv ==
  /\ TypeOK
  /\ HolderInv
  /\ RowInv
  /\ FenceIsLatestClaim
  /\ DoneByLatestClaim
  /\ AttemptsHonoured
  /\ TrustedInv

=============================================================================
