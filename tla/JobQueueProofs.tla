--------------------------- MODULE JobQueueProofs ---------------------------
(* Proofs about the job queue, for any jobs, workers, bounds and timings, and *)
(* about citation sampling on it, for any number of runs, workers and cells:  *)
(* what holds of the queue is carried over by refinement.                     *)
EXTENDS Sampler, FiniteSetTheorems, TLAPS

-----------------------------------------------------------------------------
(* Typing *)

\* The backoff of a failed claim stays within its cap, whatever the attempt.
LEMMA BackoffType ==
  ASSUME NEW a
  PROVE  Backoff(a) \in 0..BackoffCap
BY QueueAssumption DEF Backoff

\* The shared SET clause of fail() and reap_stale() keeps the columns' types.
LEMMA FailSetType ==
  ASSUME TypeOK, NEW S, FailSet(S)
  PROVE  /\ status' \in [Jobs -> Statuses]
         /\ attempts' \in [Jobs -> 0..MaxAttempts]
         /\ lockedBy' \in [Jobs -> Workers \union {None}]
         /\ lockedFor' \in [Jobs -> -1..LeaseSeconds]
         /\ dueIn' \in [Jobs -> Int]
         /\ key' \in [Jobs -> Keys \union {NoKey}]
BY QueueAssumption, BackoffType DEF TypeOK, FailSet, Statuses

\* The queue starts with an empty table and idle workers.
LEMMA InitInv == Init => IInv
<1>. SUFFICES ASSUME Init PROVE IInv
  OBVIOUS
<1>. USE QueueAssumption DEF Init
<1>1. TypeOK
  BY DEF TypeOK, Statuses, PCs
<1>2. HolderInv
  BY DEF HolderInv, Holding
<1>3. RowInv /\ DoneByLatestClaim /\ TrustedInv
  BY DEF RowInv, DoneByLatestClaim, TrustedInv, Holding
<1>4. FenceIsLatestClaim
  BY DEF FenceIsLatestClaim, Holding
<1>5. AttemptsHonoured
  BY DEF AttemptsHonoured
<1>. QED
  BY <1>1, <1>2, <1>3, <1>4, <1>5 DEF IInv

\* Every step keeps the types; a claim stays within the quota because only a
\* queued row, which has quota left, can be claimed.
LEMMA TypeStep == IInv /\ [Next]_vars => TypeOK'
<1>. SUFFICES ASSUME IInv, [Next]_vars PROVE TypeOK'
  OBVIOUS
<1>. USE QueueAssumption DEF IInv
<1>1. ASSUME NEW j \in Jobs, NEW k \in Keys \union {NoKey}, NEW d \in Delays,
             Enqueue(j, k, d)
      PROVE  TypeOK'
  BY <1>1 DEF TypeOK, Enqueue, process, history, Statuses
<1>2. ASSUME NEW w \in Workers, LoopTop(w) PROVE TypeOK'
  <2>1. PICK S : FailSet(S)
    BY <1>2 DEF LoopTop
  <2>2. polls' \in [Workers -> 0..(ReapEvery - 1)]
    BY <1>2 DEF TypeOK, LoopTop
  <2>. QED
    BY <1>2, <2>1, <2>2, FailSetType DEF TypeOK, LoopTop, PCs
<1>3. ASSUME NEW w \in Workers, NEW j \in Jobs, Claim(w, j) PROVE TypeOK'
  <2>1. attempts[j] < MaxAttempts
    BY <1>3 DEF Claim, Due, AttemptsHonoured
  <2>. QED
    BY <1>3, <2>1 DEF TypeOK, Claim, Statuses, PCs
<1>4. ASSUME NEW w \in Workers, Idle(w) PROVE TypeOK'
  BY <1>4 DEF TypeOK, Idle, table, history, PCs
<1>5. ASSUME NEW w \in Workers, Heartbeat(w) PROVE TypeOK'
  BY <1>5 DEF TypeOK, Heartbeat, history, PCs
<1>6. ASSUME NEW w \in Workers, HandlerRaises(w) PROVE TypeOK'
  BY <1>6 DEF TypeOK, HandlerRaises, table, history, PCs
<1>7. ASSUME NEW w \in Workers, Commit(w) PROVE TypeOK'
  <2>1. job[w] \in Jobs /\ claimNo[w] \in Nat
    BY <1>7 DEF Commit, HolderInv, Holding, TypeOK
  <2>2. landed' \in [Jobs -> SUBSET Nat]
    BY <1>7, <2>1 DEF Commit, TypeOK
  <2>3. pc' \in [Workers -> PCs] /\ suspect' \in [Jobs -> BOOLEAN]
    BY <1>7, <2>1 DEF Commit, TypeOK, PCs
  <2>. QED
    BY <1>7, <2>2, <2>3 DEF TypeOK, Commit, table
<1>8. ASSUME NEW w \in Workers, Complete(w) PROVE TypeOK'
  BY <1>8 DEF TypeOK, Complete, Release, history, PCs, Statuses
<1>9. ASSUME NEW w \in Workers, Fail(w) PROVE TypeOK'
  <2>1. PICK S : FailSet(S)
    BY <1>9 DEF Fail
  <2>. QED
    BY <1>9, <2>1, FailSetType DEF TypeOK, Fail, Release, history, PCs
<1>10. ASSUME NEW w \in Workers, Crash(w) PROVE TypeOK'
  BY <1>10 DEF TypeOK, Crash, table, history, PCs
<1>11. ASSUME NEW w \in Workers, Restart(w) PROVE TypeOK'
  BY <1>11 DEF TypeOK, Restart, table, history, PCs
<1>12. ASSUME NEW j \in Jobs, Retry(j) PROVE TypeOK'
  BY <1>12 DEF TypeOK, Retry, process, Statuses
<1>13. CASE Tick
  BY <1>13 DEF TypeOK, Tick, process, history
<1>14. CASE UNCHANGED vars
  BY <1>14 DEF TypeOK, vars, table, process, history
<1>. QED
  BY <1>1, <1>2, <1>3, <1>4, <1>5, <1>6, <1>7, <1>8, <1>9, <1>10, <1>11,
     <1>12, <1>13, <1>14 DEF Next, WorkerStep

-----------------------------------------------------------------------------
(* The inductive invariant.  Each of its parts is preserved by every step;  *)
(* the reaping half of a step (FailSet) is common to LoopTop and Fail.      *)

\* A worker that holds a job made one of its claims; one that holds none, none.
LEMMA HolderStep == IInv /\ [Next]_vars => HolderInv'
<1>. SUFFICES ASSUME IInv, [Next]_vars, NEW v \in Workers
              PROVE  /\ Holding(v)' => /\ job'[v] \in Jobs
                                       /\ claimNo'[v] \in 1..claims'[job'[v]]
                                       /\ pc'[v] = "committed" =>
                                            claimNo'[v] \in landed'[job'[v]]
                     /\ ~Holding(v)' => job'[v] = None
  BY DEF HolderInv
<1>. USE QueueAssumption DEF IInv, TypeOK, HolderInv, Holding
<1>1. ASSUME NEW j \in Jobs, NEW k \in Keys \union {NoKey}, NEW d \in Delays,
             Enqueue(j, k, d)
      PROVE  UNCHANGED <<job, claimNo, pc, claims, landed>>
  BY <1>1 DEF Enqueue, process, history
<1>2. CASE UNCHANGED <<job, claimNo, pc, claims, landed>>
  BY <1>2
<1>3. CASE \E w \in Workers : LoopTop(w)
  BY <1>3 DEF LoopTop, PCs
<1>4. ASSUME NEW w \in Workers, NEW j \in Jobs, Claim(w, j)
      PROVE  HolderInv'
  BY <1>4 DEF Claim
<1>5. CASE \E w \in Workers : Idle(w)
  BY <1>5 DEF Idle, table, history
<1>6. CASE \E w \in Workers : Heartbeat(w)
  BY <1>6 DEF Heartbeat, history
<1>7. CASE \E w \in Workers : HandlerRaises(w)
  BY <1>7 DEF HandlerRaises, table, history
<1>8. ASSUME NEW w \in Workers, Commit(w)
      PROVE  HolderInv'
  BY <1>8 DEF Commit, table
<1>9. CASE \E w \in Workers : Complete(w)
  BY <1>9 DEF Complete, Release, history
<1>10. CASE \E w \in Workers : Fail(w)
  BY <1>10 DEF Fail, Release, history
<1>11. CASE \E w \in Workers : Crash(w)
  BY <1>11 DEF Crash, table, history
<1>12. CASE \E w \in Workers : Restart(w)
  BY <1>12 DEF Restart, table, history
<1>13. CASE \E j \in Jobs : Retry(j)
  BY <1>2, <1>13 DEF Retry, process
<1>14. CASE Tick
  BY <1>2, <1>14 DEF Tick, process, history
<1>15. CASE UNCHANGED vars
  BY <1>2, <1>15 DEF vars, process, history
<1>. QED
  BY <1>1, <1>2, <1>3, <1>4, <1>5, <1>6, <1>7, <1>8, <1>9, <1>10, <1>11,
     <1>12, <1>13, <1>14, <1>15 DEF Next, WorkerStep

\* A row has an owner exactly while it runs.
LEMMA RowStep == IInv /\ [Next]_vars => RowInv'
<1>. SUFFICES ASSUME IInv, [Next]_vars PROVE RowInv'
  OBVIOUS
<1>. USE QueueAssumption DEF IInv, TypeOK, RowInv, HolderInv, Holding
<1>1. CASE \E j \in Jobs, k \in Keys \union {NoKey}, d \in Delays :
              Enqueue(j, k, d)
  BY <1>1 DEF Enqueue, process, history
<1>2. CASE \E w \in Workers : LoopTop(w)
  BY <1>2 DEF LoopTop, FailSet, Expired
<1>3. CASE \E w \in Workers, j \in Jobs : Claim(w, j)
  BY <1>3 DEF Claim, Due
<1>4. CASE \E w \in Workers : Idle(w)
  BY <1>4 DEF Idle, table, history
<1>5. CASE \E w \in Workers : Heartbeat(w)
  BY <1>5 DEF Heartbeat, history
<1>6. CASE \E w \in Workers : HandlerRaises(w)
  BY <1>6 DEF HandlerRaises, table, history
<1>7. CASE \E w \in Workers : Commit(w)
  BY <1>7 DEF Commit, table
<1>8. CASE \E w \in Workers : Complete(w)
  BY <1>8 DEF Complete, Release, Owned, history
<1>9. CASE \E w \in Workers : Fail(w)
  BY <1>9 DEF Fail, FailSet, Release, Owned, history
<1>10. CASE \E w \in Workers : Crash(w)
  BY <1>10 DEF Crash, table, history
<1>11. CASE \E w \in Workers : Restart(w)
  BY <1>11 DEF Restart, table, history
<1>12. CASE \E j \in Jobs : Retry(j)
  BY <1>12 DEF Retry, process
<1>13. CASE Tick
  BY <1>13 DEF Tick, process, history
<1>14. CASE UNCHANGED vars
  BY <1>14 DEF vars, table, process, history
<1>. QED
  BY <1>1, <1>2, <1>3, <1>4, <1>5, <1>6, <1>7, <1>8, <1>9, <1>10, <1>11,
     <1>12, <1>13, <1>14 DEF Next, WorkerStep

\* Only a claim gives a row to a worker, and it is then the latest one.
LEMMA FenceStep == IInv /\ [Next]_vars => FenceIsLatestClaim'
<1>. SUFFICES ASSUME IInv, [Next]_vars PROVE FenceIsLatestClaim'
  OBVIOUS
<1>. USE QueueAssumption DEF IInv, TypeOK, RowInv, HolderInv, Holding, FenceIsLatestClaim, Owned
<1>1. CASE \E j \in Jobs, k \in Keys \union {NoKey}, d \in Delays :
              Enqueue(j, k, d)
  BY <1>1 DEF Enqueue, process, history
<1>2. CASE \E w \in Workers : LoopTop(w)
  BY <1>2 DEF LoopTop, FailSet, Expired
<1>3. CASE \E w \in Workers, j \in Jobs : Claim(w, j)
  BY <1>3 DEF Claim, Due
<1>4. CASE \E w \in Workers : Idle(w)
  BY <1>4 DEF Idle, table, history
<1>5. CASE \E w \in Workers : Heartbeat(w)
  BY <1>5 DEF Heartbeat, history
<1>6. CASE \E w \in Workers : HandlerRaises(w)
  BY <1>6 DEF HandlerRaises, table, history
<1>7. CASE \E w \in Workers : Commit(w)
  BY <1>7 DEF Commit, table
<1>8. CASE \E w \in Workers : Complete(w)
  BY <1>8 DEF Complete, Release, Owned, history
<1>9. CASE \E w \in Workers : Fail(w)
  BY <1>9 DEF Fail, FailSet, Release, Owned, history
<1>10. CASE \E w \in Workers : Crash(w)
  BY <1>10 DEF Crash, table, history
<1>11. CASE \E w \in Workers : Restart(w)
  BY <1>11 DEF Restart, table, history
<1>12. CASE \E j \in Jobs : Retry(j)
  BY <1>12 DEF Retry, process
<1>13. CASE Tick
  BY <1>13 DEF Tick, process, history
<1>14. CASE UNCHANGED vars
  BY <1>14 DEF vars, table, process, history
<1>. QED
  BY <1>1, <1>2, <1>3, <1>4, <1>5, <1>6, <1>7, <1>8, <1>9, <1>10, <1>11,
     <1>12, <1>13, <1>14 DEF Next, WorkerStep

\* complete() succeeds only for the latest claim, after its commit.
LEMMA DoneStep == IInv /\ [Next]_vars => DoneByLatestClaim'
<1>. SUFFICES ASSUME IInv, [Next]_vars PROVE DoneByLatestClaim'
  OBVIOUS
<1>. USE QueueAssumption DEF IInv, TypeOK, RowInv, HolderInv, Holding, FenceIsLatestClaim, DoneByLatestClaim, Owned
<1>1. CASE \E j \in Jobs, k \in Keys \union {NoKey}, d \in Delays :
              Enqueue(j, k, d)
  BY <1>1 DEF Enqueue, process, history
<1>2. CASE \E w \in Workers : LoopTop(w)
  BY <1>2 DEF LoopTop, FailSet, Expired
<1>3. CASE \E w \in Workers, j \in Jobs : Claim(w, j)
  BY <1>3 DEF Claim, Due
<1>4. CASE \E w \in Workers : Idle(w)
  BY <1>4 DEF Idle, table, history
<1>5. CASE \E w \in Workers : Heartbeat(w)
  BY <1>5 DEF Heartbeat, history
<1>6. CASE \E w \in Workers : HandlerRaises(w)
  BY <1>6 DEF HandlerRaises, table, history
<1>7. CASE \E w \in Workers : Commit(w)
  BY <1>7 DEF Commit, table
<1>8. CASE \E w \in Workers : Complete(w)
  BY <1>8 DEF Complete, Release, Owned, history
<1>9. CASE \E w \in Workers : Fail(w)
  BY <1>9 DEF Fail, FailSet, Release, Owned, history
<1>10. CASE \E w \in Workers : Crash(w)
  BY <1>10 DEF Crash, table, history
<1>11. CASE \E w \in Workers : Restart(w)
  BY <1>11 DEF Restart, table, history
<1>12. CASE \E j \in Jobs : Retry(j)
  BY <1>12 DEF Retry, process
<1>13. CASE Tick
  BY <1>13 DEF Tick, process, history
<1>14. CASE UNCHANGED vars
  BY <1>14 DEF vars, table, process, history
<1>. QED
  BY <1>1, <1>2, <1>3, <1>4, <1>5, <1>6, <1>7, <1>8, <1>9, <1>10, <1>11,
     <1>12, <1>13, <1>14 DEF Next, WorkerStep

\* Giving claims up moves a row with quota left to queued, one without to dead.
LEMMA FailSetAttempts ==
  ASSUME IInv, NEW S \in SUBSET Jobs, FailSet(S),
         \A j \in S : status[j] = "running",
         claims' = claims, retried' = retried
  PROVE  AttemptsHonoured'
<1>. SUFFICES ASSUME NEW j \in Jobs
              PROVE  /\ claims'[j] = MaxAttempts * retried'[j] + attempts'[j]
                     /\ status'[j] = "queued" => attempts'[j] < MaxAttempts
                     /\ status'[j] = "dead" => attempts'[j] = MaxAttempts
  BY DEF AttemptsHonoured
<1>1. claims'[j] = MaxAttempts * retried'[j] + attempts'[j]
  BY DEF FailSet, IInv, AttemptsHonoured
<1>2. attempts[j] \in 0..MaxAttempts /\ attempts'[j] = attempts[j]
  BY DEF FailSet, IInv, TypeOK
<1>3. /\ status[j] = "queued" => attempts[j] < MaxAttempts
      /\ status[j] = "dead" => attempts[j] = MaxAttempts
  BY DEF IInv, AttemptsHonoured
<1>4. status'[j] = IF j \notin S THEN status[j]
                   ELSE IF attempts[j] >= MaxAttempts THEN "dead" ELSE "queued"
  BY DEF FailSet
<1>. QED
  BY <1>1, <1>2, <1>3, <1>4, QueueAssumption

\* attempts counts the claims of the current quota.
LEMMA AttemptsStep == IInv /\ [Next]_vars => AttemptsHonoured'
<1>. SUFFICES ASSUME IInv, [Next]_vars PROVE AttemptsHonoured'
  OBVIOUS
<1>. USE QueueAssumption DEF IInv, TypeOK, RowInv, AttemptsHonoured
<1>1. CASE \E j \in Jobs, k \in Keys \union {NoKey}, d \in Delays :
              Enqueue(j, k, d)
  BY <1>1 DEF Enqueue, process, history
<1>2. CASE \E w \in Workers : LoopTop(w)
  BY <1>2, FailSetAttempts DEF LoopTop, Expired
<1>3. CASE \E w \in Workers, j \in Jobs : Claim(w, j)
  BY <1>3 DEF Claim, Due
<1>4. CASE \E w \in Workers : Idle(w)
  BY <1>4 DEF Idle, table, history
<1>5. CASE \E w \in Workers : Heartbeat(w)
  BY <1>5 DEF Heartbeat, history
<1>6. CASE \E w \in Workers : HandlerRaises(w)
  BY <1>6 DEF HandlerRaises, table, history
<1>7. CASE \E w \in Workers : Commit(w)
  BY <1>7 DEF Commit, table
<1>8. CASE \E w \in Workers : Complete(w)
  BY <1>8 DEF Complete, Release, Owned, history
<1>9. CASE \E w \in Workers : Fail(w)
  BY <1>9, FailSetAttempts DEF Fail, Owned, history
<1>10. CASE \E w \in Workers : Crash(w)
  BY <1>10 DEF Crash, table, history
<1>11. CASE \E w \in Workers : Restart(w)
  BY <1>11 DEF Restart, table, history
<1>12. CASE \E j \in Jobs : Retry(j)
  BY <1>12 DEF Retry, process
<1>13. CASE Tick
  BY <1>13 DEF Tick, process, history
<1>14. CASE UNCHANGED vars
  BY <1>14 DEF vars, table, process, history
<1>. QED
  BY <1>1, <1>2, <1>3, <1>4, <1>5, <1>6, <1>7, <1>8, <1>9, <1>10, <1>11,
     <1>12, <1>13, <1>14 DEF Next, WorkerStep

\* Until a lease of it is reaped, a job has no other holder than its owner.
LEMMA TrustedStep == IInv /\ [Next]_vars => TrustedInv'
<1>. SUFFICES ASSUME IInv, [Next]_vars PROVE TrustedInv'
  OBVIOUS
<1>. USE QueueAssumption DEF IInv, TypeOK, RowInv, HolderInv, Holding, FenceIsLatestClaim, TrustedInv, Owned
<1>1. CASE \E j \in Jobs, k \in Keys \union {NoKey}, d \in Delays :
              Enqueue(j, k, d)
  BY <1>1 DEF Enqueue, process, history
<1>2. ASSUME NEW w \in Workers, LoopTop(w) PROVE TrustedInv'
  <2>. SUFFICES ASSUME NEW j \in Jobs, ~suspect'[j]
                PROVE  /\ landed'[j] \subseteq {claims'[j]}
                       /\ landed'[j] # {} => status'[j] \in {"running", "done"}
                       /\ \A v \in Workers : Holding(v)' /\ job'[v] = j =>
                            /\ lockedBy'[j] = v
                            /\ pc'[v] # "committed" => landed'[j] = {}
    BY DEF TrustedInv
  <2>1. ~suspect[j] /\ status'[j] = status[j] /\ lockedBy'[j] = lockedBy[j]
    BY <1>2 DEF LoopTop, FailSet
  <2>2. UNCHANGED <<claims, landed, job>>
    BY <1>2 DEF LoopTop
  <2>3. \A v \in Workers : Holding(v)' => Holding(v) /\ pc'[v] = pc[v]
    BY <1>2 DEF LoopTop
  <2>. QED
    BY <2>1, <2>2, <2>3
<1>3. CASE \E w \in Workers, j \in Jobs : Claim(w, j)
  BY <1>3 DEF Claim, Due
<1>4. CASE \E w \in Workers : Idle(w)
  BY <1>4 DEF Idle, table, history
<1>5. CASE \E w \in Workers : Heartbeat(w)
  BY <1>5 DEF Heartbeat, history
<1>6. CASE \E w \in Workers : HandlerRaises(w)
  BY <1>6 DEF HandlerRaises, table, history
<1>7. CASE \E w \in Workers : Commit(w)
  BY <1>7 DEF Commit, table
<1>8. CASE \E w \in Workers : Complete(w)
  BY <1>8 DEF Complete, Release, Owned, history
<1>9. CASE \E w \in Workers : Fail(w)
  BY <1>9 DEF Fail, FailSet, Release, Owned, history
<1>10. CASE \E w \in Workers : Crash(w)
  BY <1>10 DEF Crash, table, history
<1>11. CASE \E w \in Workers : Restart(w)
  BY <1>11 DEF Restart, table, history
<1>12. CASE \E j \in Jobs : Retry(j)
  BY <1>12 DEF Retry, process
<1>13. CASE Tick
  BY <1>13 DEF Tick, process, history
<1>14. CASE UNCHANGED vars
  BY <1>14 DEF vars, table, process, history
<1>. QED
  BY <1>1, <1>2, <1>3, <1>4, <1>5, <1>6, <1>7, <1>8, <1>9, <1>10, <1>11,
     <1>12, <1>13, <1>14 DEF Next, WorkerStep

-----------------------------------------------------------------------------
(* Safety of the specification *)

\* IInv is an invariant of the queue.
THEOREM InductiveInvariant == Spec => []IInv
<1>1. IInv /\ [Next]_vars => IInv'
  BY TypeStep, HolderStep, RowStep, FenceStep, DoneStep, AttemptsStep,
     TrustedStep DEF IInv
<1>. QED
  BY InitInv, <1>1, PTL DEF Spec

\* The columns, the workers' states and the history keep their types.
THEOREM Typing == Spec => []TypeOK
BY InductiveInvariant, PTL DEF IInv

\* A job reported done has the work of its latest claim committed.
THEOREM DoneIsCommitted == Spec => []DoneByLatestClaim
BY InductiveInvariant, PTL DEF IInv

\* Fencing by worker id is as good as fencing by claim number.
THEOREM FenceSuffices == Spec => []FenceIsLatestClaim
BY InductiveInvariant, PTL DEF IInv

\* max_attempts bounds the claims between two operator retries.
THEOREM QuotaHonoured == Spec => []AttemptsHonoured
BY InductiveInvariant, PTL DEF IInv

\* Work commits twice only after a reaped lease or a lost COMMIT answer.
THEOREM AtMostOnceWhenTrusted == Spec => []OnceUnlessSuspect
<1>1. IInv => OnceUnlessSuspect
  BY DEF IInv, TrustedInv, OnceUnlessSuspect
<1>. QED
  BY InductiveInvariant, <1>1, PTL

-----------------------------------------------------------------------------
(* Action properties *)

\* A row leaves its owner before its lease ran out only by the owner's step.
THEOREM LeaseIsRespected == Spec => LeaseRespected
<1>1. ASSUME IInv, [Next]_vars, NEW j \in Jobs, NEW w \in Workers,
             status[j] = "running", lockedBy[j] = w, lockedFor[j] >= 0,
             lockedBy'[j] # w
      PROVE  pc[w] \in {"committed", "failed"} /\ pc'[w] = "top"
  <2>. USE <1>1, QueueAssumption DEF IInv, TypeOK
  <2>1. CASE \E i \in Jobs, k \in Keys \union {NoKey}, d \in Delays :
               Enqueue(i, k, d)
    BY <2>1 DEF Enqueue
  <2>2. CASE \E v \in Workers : LoopTop(v)
    BY <2>2 DEF LoopTop, FailSet, Expired
  <2>3. CASE \E v \in Workers, i \in Jobs : Claim(v, i)
    BY <2>3 DEF Claim, Due
  <2>4. CASE \E v \in Workers : Complete(v)
    BY <2>4 DEF Complete, Owned, Release
  <2>5. CASE \E v \in Workers : Fail(v)
    BY <2>5 DEF Fail, FailSet, Owned, Release
  <2>6. CASE \E i \in Jobs : Retry(i)
    BY <2>6 DEF Retry
  <2>7. CASE lockedBy' = lockedBy
    BY <2>7
  <2>. QED
    BY <2>1, <2>2, <2>3, <2>4, <2>5, <2>6, <2>7
    DEF Next, WorkerStep, Idle, Heartbeat, HandlerRaises, Commit, Crash,
        Restart, Tick, vars, table
<1>2. IInv /\ [Next]_vars =>
        [\A j \in Jobs, w \in Workers :
           /\ status[j] = "running" /\ lockedBy[j] = w /\ lockedFor[j] >= 0
           /\ lockedBy'[j] # w
           => pc[w] \in {"committed", "failed"} /\ pc'[w] = "top"]_vars
  BY <1>1
<1>. QED
  BY InductiveInvariant, <1>2, PTL DEF Spec, LeaseRespected

\* done is final; dead ends only by an operator's retry, which leaves the job
\* with a fresh quota, due at once and held by nobody.
THEOREM FinishedIsFinal == Spec => FinishedStaysFinished
<1>1. ASSUME IInv, [Next]_vars, NEW j \in Jobs
      PROVE  /\ status[j] = "done" => status'[j] = "done" /\ claims'[j] = claims[j]
             /\ status[j] = "dead" /\ status'[j] # "dead" =>
                  /\ retried'[j] = retried[j] + 1
                  /\ status'[j] = "queued" /\ attempts'[j] = 0
                  /\ dueIn'[j] = 0 /\ lockedBy'[j] = None
  <2>. USE <1>1, QueueAssumption DEF IInv, TypeOK
  <2>1. CASE \E i \in Jobs, k \in Keys \union {NoKey}, d \in Delays :
               Enqueue(i, k, d)
    BY <2>1 DEF Enqueue, history
  <2>2. CASE \E w \in Workers : LoopTop(w)
    BY <2>2 DEF LoopTop, FailSet, Expired
  <2>3. CASE \E w \in Workers, i \in Jobs : Claim(w, i)
    BY <2>3 DEF Claim, Due
  <2>4. CASE \E w \in Workers : Complete(w)
    BY <2>4 DEF Complete, Owned, history
  <2>5. CASE \E w \in Workers : Fail(w)
    BY <2>5 DEF Fail, FailSet, Owned, history
  <2>6. CASE \E i \in Jobs : Retry(i)
    BY <2>6 DEF Retry
  <2>7. CASE UNCHANGED <<status, claims>>
    BY <2>7
  <2>. QED
    BY <2>1, <2>2, <2>3, <2>4, <2>5, <2>6, <2>7
    DEF Next, WorkerStep, Idle, Heartbeat, HandlerRaises, Commit, Crash,
        Restart, Tick, vars, table, history
<1>2. IInv /\ [Next]_vars =>
        [\A j \in Jobs :
           /\ status[j] = "done" => status'[j] = "done" /\ claims'[j] = claims[j]
           /\ status[j] = "dead" /\ status'[j] # "dead" =>
                /\ retried'[j] = retried[j] + 1
                /\ status'[j] = "queued" /\ attempts'[j] = 0
                /\ dueIn'[j] = 0 /\ lockedBy'[j] = None]_vars
  BY <1>1
<1>. QED
  BY InductiveInvariant, <1>2, PTL DEF Spec, FinishedStaysFinished

-----------------------------------------------------------------------------
(* Refinement *)

\* Giving up the claims of S is, for each job, giving up its run or nothing.
LEMMA FailSetGivesUp ==
  ASSUME IInv, NEW S \in SUBSET Jobs, FailSet(S),
         \A j \in S : status[j] = "running",
         UNCHANGED <<claims, landed>>
  PROVE  Lifecycle!Next
<1>. SUFFICES ASSUME NEW j \in Jobs
              PROVE  Lifecycle!GiveUp(j) \/ Lifecycle!Rest(j)
  BY DEF Lifecycle!Next
<1>. USE QueueAssumption
  DEF IInv, TypeOK, FailSet, Lifecycle!GiveUp, Lifecycle!Rest,
      Lifecycle!Becomes, Lifecycle!Keeps
<1>1. CASE j \in S
  BY <1>1
<1>2. CASE j \notin S
  BY <1>2
<1>. QED
  BY <1>1, <1>2

\* The queue implements the abstract life of a job.
THEOREM Refinement == Spec => ImplementsLifecycle
<1>1. Init => Lifecycle!Init
  BY QueueAssumption DEF Init, Lifecycle!Init
<1>2. ASSUME IInv, [Next]_vars
      PROVE  [Lifecycle!Next]_Lifecycle!vars
  <2>. USE <1>2, QueueAssumption
  <2>1. ASSUME NEW i \in Jobs, NEW k \in Keys \union {NoKey}, NEW d \in Delays,
               Enqueue(i, k, d)
        PROVE  Lifecycle!Next
    <3>1. Lifecycle!Submit(i)
      BY <2>1 DEF Enqueue, history, Lifecycle!Submit, Lifecycle!Becomes,
                  Lifecycle!Keeps, IInv, TypeOK
    <3>2. \A j \in Jobs \ {i} : Lifecycle!Rest(j)
      BY <2>1 DEF Enqueue, history, Lifecycle!Rest, Lifecycle!Becomes,
                  Lifecycle!Keeps, IInv, TypeOK
    <3>. QED
      BY <3>1, <3>2 DEF Lifecycle!Next
  <2>2. ASSUME NEW w \in Workers, LoopTop(w) PROVE Lifecycle!Next
    BY <2>2, FailSetGivesUp DEF LoopTop, Expired
  <2>3. ASSUME NEW w \in Workers, NEW i \in Jobs, Claim(w, i)
        PROVE  Lifecycle!Next
    <3>0. attempts[i] < MaxAttempts
      BY <2>3 DEF Claim, Due, IInv, AttemptsHonoured
    <3>1. Lifecycle!Start(i)
      BY <2>3, <3>0 DEF Claim, Due, IInv, TypeOK, Lifecycle!Start,
                        Lifecycle!Becomes
    <3>2. \A j \in Jobs \ {i} : Lifecycle!Rest(j)
      BY <2>3 DEF Claim, IInv, TypeOK, Lifecycle!Rest, Lifecycle!Becomes,
                  Lifecycle!Keeps
    <3>. QED
      BY <3>1, <3>2 DEF Lifecycle!Next
  <2>4. ASSUME NEW w \in Workers, Commit(w) PROVE Lifecycle!Next
    <3>0. job[w] \in Jobs /\ claimNo[w] \in 1..claims[job[w]]
      BY <2>4 DEF Commit, IInv, HolderInv, Holding
    <3>1. ASSUME NEW j \in Jobs, j = job[w] PROVE Lifecycle!TakeEffect(j)
      BY <2>4, <3>0, <3>1 DEF Commit, table, IInv, TypeOK, Lifecycle!TakeEffect,
                        Lifecycle!Becomes, Lifecycle!Keeps
    <3>2. \A j \in Jobs \ {job[w]} : Lifecycle!Rest(j)
      BY <2>4, <3>0 DEF Commit, table, IInv, TypeOK, Lifecycle!Rest,
                        Lifecycle!Becomes, Lifecycle!Keeps
    <3>. QED
      BY <3>1, <3>2 DEF Lifecycle!Next
  <2>5. ASSUME NEW w \in Workers, Complete(w) PROVE Lifecycle!Next
    <3>1. ASSUME NEW j \in Owned(w) PROVE Lifecycle!Finish(j)
      BY <2>5, <3>1 DEF Complete, Owned, history, IInv, TypeOK, HolderInv,
                        Holding, FenceIsLatestClaim, Lifecycle!Finish,
                        Lifecycle!Becomes, Lifecycle!Keeps
    <3>2. ASSUME NEW j \in Jobs \ Owned(w) PROVE Lifecycle!Rest(j)
      BY <2>5, <3>2 DEF Complete, history, IInv, TypeOK, Lifecycle!Rest,
                        Lifecycle!Becomes, Lifecycle!Keeps
    <3>. QED
      BY <3>1, <3>2 DEF Lifecycle!Next
  <2>6. ASSUME NEW w \in Workers, Fail(w) PROVE Lifecycle!Next
    BY <2>6, FailSetGivesUp DEF Fail, Owned, history
  <2>7. ASSUME NEW i \in Jobs, Retry(i) PROVE Lifecycle!Next
    <3>1. Lifecycle!Revive(i)
      BY <2>7 DEF Retry, IInv, TypeOK, Lifecycle!Revive, Lifecycle!Becomes
    <3>2. \A j \in Jobs \ {i} : Lifecycle!Rest(j)
      BY <2>7 DEF Retry, IInv, TypeOK, Lifecycle!Rest, Lifecycle!Becomes,
                  Lifecycle!Keeps
    <3>. QED
      BY <3>1, <3>2 DEF Lifecycle!Next
  <2>8. CASE UNCHANGED <<status, attempts, claims, landed>>
    BY <2>8 DEF Lifecycle!vars
  <2>. QED
    BY <2>1, <2>2, <2>3, <2>4, <2>5, <2>6, <2>7, <2>8
    DEF Next, WorkerStep, Idle, Heartbeat, HandlerRaises, Crash, Restart,
        Tick, vars, table, history
<1>. QED
  BY InductiveInvariant, <1>1, <1>2, PTL
  DEF Spec, ImplementsLifecycle, Lifecycle!Spec

-----------------------------------------------------------------------------
(* Citation sampling: the inductive invariant *)

Visiting(w) == pc[w] = "working" /\ step[w] # "begin"

\* The run's row is locked by the one claim that is past its first update.
RunLockInv ==
  /\ \A w \in Workers : Visiting(w) => runLock[job[w]] = w
  /\ \A w \in Workers : step[w] = "begin" => fresh[w] = Nothing

\* What a claim read at its start is still what the table holds: it inserts
\* only for cells that have no row, and all of them before it finishes.
SkipIsCurrent ==
  \A w \in Workers : Visiting(w) =>
    /\ skip[w] = {c \in Cells : result[job[w]][c] # "none"}
    /\ \A c \in skip[w] : fresh[w][c] = "none"
    /\ step[w] = "finish" => ToVisit(w) = {}

\* The work of a run lands as a whole.
LandedIsWhole ==
  \A j \in Jobs : /\ landed[j] # {} => runDone[j]
                  /\ runDone[j] => \A c \in Cells : result[j][c] # "none"

SInv == /\ SamplingTypeOK /\ RunLockInv /\ SkipIsCurrent
        /\ LandedIsWhole /\ BookedOncePerAnswer

-----------------------------------------------------------------------------
(* Sampling as a use of the queue *)

\* Every step of the handler is a step of the worker that runs it, or none.
LEMMA QueueStepOrNone == [SNext]_svars => [Next]_vars
<1>. SUFFICES ASSUME [SNext]_svars PROVE [Next]_vars
  OBVIOUS
<1>1. CASE \E j \in Jobs : EnqueueRun(j)
  BY <1>1, PanelAssumption DEF EnqueueRun, Next
<1>2. CASE \E w \in Workers : Begin(w) \/ Sample(w)
  BY <1>2 DEF Begin, Sample
<1>3. CASE \E w \in Workers : Beat(w) \/ CrashSampling(w)
  BY <1>3 DEF Beat, CrashSampling, Next
<1>4. CASE \E w \in Workers : Raise(w) \/ CommitRun(w)
  BY <1>4 DEF Raise, CommitRun, Next, WorkerStep
<1>5. CASE QueueStep
  BY <1>5 DEF QueueStep, Next, WorkerStep
<1>6. CASE UNCHANGED svars
  BY <1>6 DEF svars
<1>. QED
  BY <1>1, <1>2, <1>3, <1>4, <1>5, <1>6 DEF SNext

\* So sampling is a behaviour of the queue: its handler adds no step to the jobs
\* table, the workers or the claims.
LEMMA SamplerRefinesQueue == SSpec => Spec
<1>1. SInit => Init
  BY DEF SInit
<1>. QED
  BY <1>1, QueueStepOrNone, PTL DEF SSpec, Spec

\* The queue's invariant holds of it.
LEMMA QueueInv == SSpec => []IInv
BY SamplerRefinesQueue, InductiveInvariant, PTL

\* A claim that samples is one the queue handed out.
LEMMA WorkingOnAJob ==
  ASSUME IInv, NEW w \in Workers, pc[w] = "working"
  PROVE  job[w] \in Jobs
BY DEF IInv, HolderInv, Holding

\* The steps of the queue around the handler leave a handler at work alone, and
\* one that starts begins with its first statement.
LEMMA QueueAround ==
  ASSUME IInv, SInv, QueueStep \/ (\E j \in Jobs : EnqueueRun(j)) \/ UNCHANGED svars
  PROVE  /\ UNCHANGED <<result, costs, runDone, runLock, step, skip, fresh, paid, landed>>
         /\ \A w \in Workers : pc[w] = "working" =>
              pc'[w] = "working" /\ job'[w] = job[w]
<1>. USE DEF IInv, TypeOK
<1>1. CASE \E j \in Jobs : EnqueueRun(j)
  BY <1>1 DEF EnqueueRun, Enqueue, process, history, sampling
<1>2. CASE UNCHANGED svars
  BY <1>2 DEF svars, vars, process, history, sampling
<1>3. CASE QueueStep
  <2>1. UNCHANGED sampling /\ landed' = landed
    BY <1>3
      DEF QueueStep, LoopTop, Claim, Idle, Complete, Fail, Restart, Retry,
                Tick, history
  <2>2. \A w \in Workers : pc[w] = "working" =>
          pc'[w] = "working" /\ job'[w] = job[w]
    BY <1>3
      DEF QueueStep, LoopTop, Claim, Idle, Complete, Fail, Restart, Retry,
                Tick, process, Release
  <2>. QED
    BY <2>1, <2>2 DEF sampling
<1>. QED
  BY <1>1, <1>2, <1>3

-----------------------------------------------------------------------------
(* What the handler's steps do, each in terms of the run it works on *)

\* The typing facts that the steps need.
LEMMA WorkTypes ==
  ASSUME IInv, SInv
  PROVE  /\ pc \in [Workers -> PCs] /\ job \in [Workers -> Jobs \union {None}]
         /\ landed \in [Jobs -> SUBSET Nat]
         /\ result \in [Jobs -> [Cells -> {"none", "ok", "error"}]]
         /\ costs \in [Jobs -> [Cells -> Nat]]
         /\ runDone \in [Jobs -> BOOLEAN]
         /\ runLock \in [Jobs -> Workers \union {None}]
         /\ step \in [Workers -> {"begin", "beat", "call", "finish"}]
         /\ skip \in [Workers -> SUBSET Cells]
         /\ fresh \in [Workers -> [Cells -> {"none", "ok", "error"}]]
         /\ paid \in [Jobs -> [Cells -> Nat]]
         /\ None \notin Workers
         /\ \A w \in Workers : pc[w] = "working" => job[w] \in Jobs
BY WorkingOnAJob, QueueAssumption DEF IInv, TypeOK, SInv, SamplingTypeOK

OthersKeep(w) ==
  \A v \in Workers \ {w} : /\ pc'[v] = pc[v] /\ job'[v] = job[v]
                           /\ step'[v] = step[v] /\ skip'[v] = skip[v]
                           /\ fresh'[v] = fresh[v]

TakesTheRun(w) ==
  /\ job[w] \in Jobs /\ pc[w] = "working" /\ step[w] = "begin"
  /\ runLock[job[w]] = None
  /\ runLock' = [runLock EXCEPT ![job[w]] = w]
  /\ skip' = [skip EXCEPT ![w] = {c \in Cells : result[job[w]][c] # "none"}]
  /\ step' \in [Workers -> {"begin", "beat", "call", "finish"}]
  /\ step'[w] \in {"beat", "finish"}
  /\ step'[w] = "finish" => ToVisit(w)' = {}
  /\ OthersKeep(w)
  /\ UNCHANGED <<pc, job, landed, result, costs, runDone, fresh, paid>>

\* The first statement takes the lock of the run, which nobody held.
LEMMA BeginEffect ==
  ASSUME IInv, SInv, NEW w \in Workers, Begin(w)
  PROVE  TakesTheRun(w)
<1>1. job[w] \in Jobs /\ pc[w] = "working" /\ step[w] = "begin"
  BY WorkingOnAJob DEF Begin
<1>2. UNCHANGED <<pc, job, landed, result, costs, runDone, fresh, paid>>
  BY DEF Begin, vars, process, history
<1>3. /\ step' \in [Workers -> {"begin", "beat", "call", "finish"}]
      /\ step'[w] \in {"beat", "finish"}
      /\ step'[w] = "finish" => ToVisit(w)' = {}
      /\ \A v \in Workers \ {w} : step'[v] = step[v]
  BY WorkTypes DEF Begin, LoopOn
<1>4. \A v \in Workers \ {w} : skip'[v] = skip[v]
  BY WorkTypes DEF Begin
<1>. QED
  BY <1>1, <1>2, <1>3, <1>4 DEF Begin, OthersKeep, TakesTheRun

KeepsTheLease(w) ==
  /\ pc[w] = "working" /\ step[w] = "beat"
  /\ step' = [step EXCEPT ![w] = "call"]
  /\ UNCHANGED <<pc, job, landed, result, costs, runDone, runLock, skip,
                 fresh, paid>>

\* A heartbeat that finds the lease still owned.
LEMMA BeatEffect ==
  ASSUME IInv, SInv, NEW w \in Workers, Beat(w), pc'[w] # "failed"
  PROVE  KeepsTheLease(w)
<1>1. pc' = pc
  BY WorkTypes DEF Beat, Heartbeat
<1>. QED
  BY <1>1 DEF Beat, Heartbeat, history, KeepsTheLease

VisitsACell(w) ==
  /\ job[w] \in Jobs /\ pc[w] = "working" /\ step[w] = "call"
  /\ \E c \in ToVisit(w), r \in {"ok", "error"} :
       /\ fresh' = [fresh EXCEPT ![w][c] = r]
       /\ paid' = IF r = "ok" THEN [paid EXCEPT ![job[w]][c] = @ + 1] ELSE paid
  /\ fresh' \in [Workers -> [Cells -> {"none", "ok", "error"}]]
  /\ \A c \in Cells : fresh'[w][c] # fresh[w][c] => c \in ToVisit(w)
  /\ paid' \in [Jobs -> [Cells -> Nat]]
  /\ \A j \in Jobs, c \in Cells :
       paid'[j][c] > paid[j][c] => j = job[w] /\ c \in ToVisit(w)
  /\ step' \in [Workers -> {"begin", "beat", "call", "finish"}]
  /\ step'[w] \in {"beat", "finish"}
  /\ step'[w] = "finish" => ToVisit(w)' = {}
  /\ OthersKeep(w)
  /\ UNCHANGED <<pc, job, landed, result, costs, runDone, runLock, skip>>

\* A cell is visited that has no row and was not visited by this claim.
LEMMA SampleEffect ==
  ASSUME IInv, SInv, NEW w \in Workers, Sample(w)
  PROVE  VisitsACell(w)
<1>1. job[w] \in Jobs /\ pc[w] = "working" /\ step[w] = "call"
  BY WorkingOnAJob DEF Sample
<1>2. UNCHANGED <<pc, job, landed, result, costs, runDone, runLock, skip>>
  BY DEF Sample, vars, process, history
<1>3. /\ step' \in [Workers -> {"begin", "beat", "call", "finish"}]
      /\ step'[w] \in {"beat", "finish"}
      /\ step'[w] = "finish" => ToVisit(w)' = {}
      /\ \A v \in Workers \ {w} : step'[v] = step[v]
  BY WorkTypes DEF Sample, LoopOn
<1>4. PICK c \in ToVisit(w), r \in {"ok", "error"} :
        /\ fresh' = [fresh EXCEPT ![w][c] = r]
        /\ paid' = IF r = "ok" THEN [paid EXCEPT ![job[w]][c] = @ + 1] ELSE paid
  BY DEF Sample
<1>5. c \in Cells
  BY DEF ToVisit
<1>6. /\ fresh' \in [Workers -> [Cells -> {"none", "ok", "error"}]]
      /\ \A v \in Workers \ {w} : fresh'[v] = fresh[v]
      /\ \A d \in Cells : fresh'[w][d] # fresh[w][d] => d = c
  BY <1>4, <1>5, WorkTypes
<1>7. /\ paid' \in [Jobs -> [Cells -> Nat]]
      /\ \A j \in Jobs, d \in Cells :
           paid'[j][d] > paid[j][d] => j = job[w] /\ d = c
  BY <1>1, <1>4, <1>5, WorkTypes
<1>. QED
  BY <1>1, <1>2, <1>3, <1>4, <1>6, <1>7 DEF OthersKeep, VisitsACell

MayLoseAnAnswer(w) ==
  /\ job[w] \in Jobs /\ pc[w] = "working"
  /\ paid' \in [Jobs -> [Cells -> Nat]]
  /\ \A j \in Jobs, c \in Cells :
       paid'[j][c] > paid[j][c] =>
         j = job[w] /\ c \in ToVisit(w) /\ step[w] = "call"

\* An answer that is paid for and lost is one for a cell without a row.
LEMMA RaiseEffect ==
  ASSUME IInv, SInv, NEW w \in Workers, Raise(w)
  PROVE  MayLoseAnAnswer(w)
<1>1. job[w] \in Jobs /\ pc[w] = "working"
  BY WorkingOnAJob DEF Raise, HandlerRaises
<1>2. paid' = paid \/ \E c \in ToVisit(w) :
        step[w] = "call" /\ paid' = [paid EXCEPT ![job[w]][c] = @ + 1]
  BY DEF Raise
<1>3. ToVisit(w) \subseteq Cells
  BY DEF ToVisit
<1>4. CASE paid' = paid
  BY <1>1, <1>4, WorkTypes DEF MayLoseAnAnswer
<1>5. ASSUME NEW c \in ToVisit(w), step[w] = "call",
             paid' = [paid EXCEPT ![job[w]][c] = @ + 1]
      PROVE  MayLoseAnAnswer(w)
  BY <1>1, <1>3, <1>5, WorkTypes DEF MayLoseAnAnswer
<1>. QED
  BY <1>2, <1>4, <1>5

Ends(w) == (Beat(w) /\ pc'[w] = "failed") \/ Raise(w) \/ CommitRun(w) \/ CrashSampling(w)

LetsGo(w) ==
  /\ pc'[w] # "working" /\ step'[w] = "begin" /\ fresh'[w] = Nothing
  /\ step' \in [Workers -> {"begin", "beat", "call", "finish"}]
  /\ skip' \in [Workers -> SUBSET Cells]
  /\ fresh' \in [Workers -> [Cells -> {"none", "ok", "error"}]]
  /\ runLock' \in [Jobs -> Workers \union {None}]
  /\ paid' \in [Jobs -> [Cells -> Nat]]
  /\ \A j \in Jobs : runLock'[j] = IF runLock[j] = w THEN None ELSE runLock[j]
  /\ OthersKeep(w)

\* A transaction ends, with the lock of its run and what it had inserted.
LEMMA EndEffect ==
  ASSUME IInv, SInv, NEW w \in Workers, Ends(w)
  PROVE  LetsGo(w)
<1>1. EndTransaction(w)
  BY DEF Ends, Beat, Raise, CommitRun, CrashSampling
<1>2. pc'[w] # "working" /\ \A v \in Workers \ {w} : pc'[v] = pc[v]
  BY WorkTypes
    DEF Ends, Beat, Heartbeat, Raise, HandlerRaises, CommitRun, Commit,
        CrashSampling, Crash
<1>3. \A v \in Workers \ {w} : job'[v] = job[v]
  BY WorkTypes
    DEF Ends, Beat, Heartbeat, Raise, HandlerRaises, CommitRun, Commit,
        CrashSampling, Crash
<1>4. Nothing \in [Cells -> {"none", "ok", "error"}]
  BY DEF Nothing
<1>5. paid' \in [Jobs -> [Cells -> Nat]]
  BY RaiseEffect, WorkTypes
    DEF Ends, Beat, CommitRun, CrashSampling, MayLoseAnAnswer
<1>. QED
  BY <1>1, <1>2, <1>3, <1>4, <1>5, WorkTypes
    DEF EndTransaction, OthersKeep, LetsGo

AddsNothing(w) ==
  UNCHANGED <<landed, result, costs, runDone>>

\* Without a commit, nothing of the run's tables changes.
LEMMA AbortEffect ==
  ASSUME IInv, SInv, NEW w \in Workers,
         Beat(w) \/ Raise(w) \/ CrashSampling(w)
  PROVE  AddsNothing(w)
BY
  DEF Beat, Heartbeat, Raise, HandlerRaises, CrashSampling, Crash, history,
      AddsNothing

AddsItsRows(w) ==
  /\ job[w] \in Jobs /\ Visiting(w) /\ step[w] = "finish"
  /\ result' \in [Jobs -> [Cells -> {"none", "ok", "error"}]]
  /\ costs' \in [Jobs -> [Cells -> Nat]]
  /\ runDone' = [runDone EXCEPT ![job[w]] = TRUE]
  /\ \A j \in Jobs \ {job[w]} :
       result'[j] = result[j] /\ costs'[j] = costs[j] /\ landed'[j] = landed[j]
  /\ \A c \in Cells :
       /\ result'[job[w]][c] = IF result[job[w]][c] = "none" THEN fresh[w][c]
                               ELSE result[job[w]][c]
       /\ costs'[job[w]][c] = costs[job[w]][c] +
                                (IF fresh[w][c] = "ok" THEN 1 ELSE 0)
  /\ paid' = paid

\* The commit adds what the transaction inserted.
LEMMA CommitEffect ==
  ASSUME IInv, SInv, NEW w \in Workers, CommitRun(w)
  PROVE  AddsItsRows(w)
<1>1. job[w] \in Jobs /\ Visiting(w) /\ step[w] = "finish"
  BY WorkingOnAJob DEF CommitRun, Commit, Visiting
<1>2. /\ result' \in [Jobs -> [Cells -> {"none", "ok", "error"}]]
      /\ \A j \in Jobs \ {job[w]} : result'[j] = result[j]
      /\ \A c \in Cells :
           result'[job[w]][c] = IF result[job[w]][c] = "none" THEN fresh[w][c]
                                ELSE result[job[w]][c]
  BY <1>1, WorkTypes DEF CommitRun
<1>3. /\ costs' \in [Jobs -> [Cells -> Nat]]
      /\ \A j \in Jobs \ {job[w]} : costs'[j] = costs[j]
      /\ \A c \in Cells : costs'[job[w]][c] = costs[job[w]][c] +
                                                (IF fresh[w][c] = "ok" THEN 1 ELSE 0)
  BY <1>1, WorkTypes DEF CommitRun
<1>4. \A j \in Jobs \ {job[w]} : landed'[j] = landed[j]
  BY <1>1, WorkTypes DEF CommitRun, Commit
<1>. QED
  BY <1>1, <1>2, <1>3, <1>4 DEF CommitRun, AddsItsRows

\* Whoever else is past its first statement works on another run, and does not
\* notice.
LEMMA EndedLeavesOthers ==
  ASSUME IInv, SInv, NEW w \in Workers, Ends(w), NEW v \in Workers, Visiting(v)'
  PROVE  /\ v # w /\ Visiting(v) /\ job[v] \in Jobs /\ job'[v] = job[v]
         /\ step'[v] = step[v] /\ skip'[v] = skip[v] /\ fresh'[v] = fresh[v]
         /\ runLock'[job[v]] = v /\ result'[job[v]] = result[job[v]]
<1>1. LetsGo(w)
  BY EndEffect
<1>2. v # w
  BY <1>1 DEF LetsGo, Visiting
<1>3. /\ pc'[v] = pc[v] /\ job'[v] = job[v] /\ step'[v] = step[v]
      /\ skip'[v] = skip[v] /\ fresh'[v] = fresh[v]
  BY <1>1, <1>2 DEF LetsGo, OthersKeep
<1>4. Visiting(v) /\ job[v] \in Jobs
  BY <1>3, WorkTypes DEF Visiting
<1>5. runLock[job[v]] = v
  BY <1>4 DEF SInv, RunLockInv
<1>6. runLock'[job[v]] = v
  BY <1>1, <1>2, <1>4, <1>5 DEF LetsGo
<1>7. result'[job[v]] = result[job[v]]
  <2>1. CASE CommitRun(w)
    <3>1. AddsItsRows(w)
      BY <2>1, CommitEffect
    <3>2. runLock[job[w]] = w
      BY <3>1 DEF AddsItsRows, SInv, RunLockInv
    <3>. QED
      BY <1>2, <1>4, <1>5, <3>1, <3>2 DEF AddsItsRows
  <2>2. CASE Beat(w) \/ Raise(w) \/ CrashSampling(w)
    BY <2>2, AbortEffect DEF AddsNothing
  <2>. QED
    BY <2>1, <2>2 DEF Ends
<1>. QED
  BY <1>2, <1>3, <1>4, <1>6, <1>7

-----------------------------------------------------------------------------
(* The steps, one lemma for each part of the invariant *)

\* No run is begun before the first claim.
LEMMA SInitInv == SInit => SInv
<1>. SUFFICES ASSUME SInit PROVE SInv
  OBVIOUS
<1>. USE QueueAssumption, PanelAssumption DEF SInit, Init
<1>1. SamplingTypeOK
  BY DEF SamplingTypeOK, Nothing
<1>2. RunLockInv /\ SkipIsCurrent
  BY DEF RunLockInv, SkipIsCurrent, Visiting
<1>3. LandedIsWhole /\ BookedOncePerAnswer
  BY DEF LandedIsWhole, BookedOncePerAnswer, Nothing
<1>. QED
  BY <1>1, <1>2, <1>3 DEF SInv

\* Every step keeps the types, and a transaction that ends leaves nothing behind.
LEMMA STypeStep == IInv /\ SInv /\ [SNext]_svars => SamplingTypeOK'
<1>. SUFFICES ASSUME IInv, SInv, [SNext]_svars PROVE SamplingTypeOK'
  OBVIOUS
<1>0. SamplingTypeOK
  BY DEF SInv
<1>. USE <1>0, WorkTypes DEF SamplingTypeOK, OthersKeep
<1>1. CASE QueueStep \/ (\E j \in Jobs : EnqueueRun(j)) \/ UNCHANGED svars
  <2>1. \A w \in Workers : pc'[w] # "working" => pc[w] # "working"
    BY <1>1, QueueAround
  <2>. QED
    BY <1>1, <2>1, QueueAround
<1>2. ASSUME NEW w \in Workers, Begin(w) PROVE SamplingTypeOK'
  <2>1. TakesTheRun(w)
    BY <1>2, BeginEffect
  <2>. QED
    BY <2>1 DEF TakesTheRun
<1>3. ASSUME NEW w \in Workers, Beat(w), pc'[w] # "failed" PROVE SamplingTypeOK'
  <2>1. KeepsTheLease(w)
    BY <1>3, BeatEffect
  <2>. QED
    BY <2>1 DEF KeepsTheLease
<1>4. ASSUME NEW w \in Workers, Sample(w) PROVE SamplingTypeOK'
  <2>1. VisitsACell(w)
    BY <1>4, SampleEffect
  <2>. QED
    BY <2>1 DEF VisitsACell
<1>5. ASSUME NEW w \in Workers, Beat(w), pc'[w] = "failed" PROVE SamplingTypeOK'
  <2>1. LetsGo(w) /\ AddsNothing(w)
    BY <1>5, EndEffect, AbortEffect DEF Ends
  <2>. QED
    BY <2>1 DEF LetsGo, AddsNothing
<1>6. ASSUME NEW w \in Workers, Raise(w) PROVE SamplingTypeOK'
  <2>1. LetsGo(w) /\ AddsNothing(w)
    BY <1>6, EndEffect, AbortEffect DEF Ends
  <2>. QED
    BY <2>1 DEF LetsGo, AddsNothing
<1>7. ASSUME NEW w \in Workers, CommitRun(w) PROVE SamplingTypeOK'
  <2>1. LetsGo(w) /\ AddsItsRows(w)
    BY <1>7, EndEffect, CommitEffect DEF Ends
  <2>2. /\ result' \in [Jobs -> [Cells -> {"none", "ok", "error"}]]
        /\ costs' \in [Jobs -> [Cells -> Nat]]
        /\ runDone' \in [Jobs -> BOOLEAN]
    BY <2>1 DEF AddsItsRows
  <2>3. ASSUME NEW v \in Workers, pc'[v] # "working"
        PROVE  step'[v] = "begin" /\ fresh'[v] = Nothing /\ \A j \in Jobs : runLock'[j] # v
    <3>1. CASE v = w
      BY <2>1, <3>1 DEF LetsGo
    <3>2. CASE v # w
      BY <2>1, <2>3, <3>2 DEF LetsGo
    <3>. QED
      BY <3>1, <3>2
  <2>4. /\ runLock' \in [Jobs -> Workers \union {None}]
        /\ step' \in [Workers -> {"begin", "beat", "call", "finish"}]
        /\ skip' \in [Workers -> SUBSET Cells]
        /\ fresh' \in [Workers -> [Cells -> {"none", "ok", "error"}]]
        /\ paid' \in [Jobs -> [Cells -> Nat]]
    BY <2>1 DEF LetsGo
  <2>. QED
    BY <2>2, <2>3, <2>4
<1>8. ASSUME NEW w \in Workers, CrashSampling(w) PROVE SamplingTypeOK'
  <2>1. LetsGo(w) /\ AddsNothing(w)
    BY <1>8, EndEffect, AbortEffect DEF Ends
  <2>. QED
    BY <2>1 DEF LetsGo, AddsNothing
<1>. QED
  BY <1>1, <1>2, <1>3, <1>4, <1>5, <1>6, <1>7, <1>8 DEF SNext

\* A second claim of a run waits at its first update until the first has ended.
LEMMA RunLockStep == IInv /\ SInv /\ [SNext]_svars => RunLockInv'
<1>. SUFFICES ASSUME IInv, SInv, [SNext]_svars PROVE RunLockInv'
  OBVIOUS
<1>0. SamplingTypeOK /\ RunLockInv
  BY DEF SInv
<1>. USE <1>0, WorkTypes DEF SamplingTypeOK, RunLockInv, Visiting, OthersKeep
<1>1. CASE QueueStep \/ (\E j \in Jobs : EnqueueRun(j)) \/ UNCHANGED svars
  BY <1>1, QueueAround
<1>2. ASSUME NEW w \in Workers, Begin(w) PROVE RunLockInv'
  <2>1. TakesTheRun(w)
    BY <1>2, BeginEffect
  <2>. QED
    BY <2>1 DEF TakesTheRun
<1>3. ASSUME NEW w \in Workers, Beat(w), pc'[w] # "failed" PROVE RunLockInv'
  <2>1. KeepsTheLease(w)
    BY <1>3, BeatEffect
  <2>. QED
    BY <2>1 DEF KeepsTheLease
<1>4. ASSUME NEW w \in Workers, Sample(w) PROVE RunLockInv'
  <2>1. VisitsACell(w)
    BY <1>4, SampleEffect
  <2>. QED
    BY <2>1 DEF VisitsACell
<1>5. ASSUME NEW w \in Workers, Ends(w) PROVE RunLockInv'
  <2>1. \A v \in Workers : Visiting(v)' => runLock'[job'[v]] = v
    BY <1>5, EndedLeavesOthers
  <2>2. LetsGo(w)
    BY <1>5, EndEffect
  <2>3. \A v \in Workers : step'[v] = "begin" => fresh'[v] = Nothing
    BY <2>2 DEF LetsGo
  <2>. QED
    BY <2>1, <2>3
<1>. QED
  BY <1>1, <1>2, <1>3, <1>4, <1>5 DEF SNext, Ends

\* Rows of a run are inserted only by the holder of its lock.
LEMMA SkipStep == IInv /\ SInv /\ [SNext]_svars => SkipIsCurrent'
<1>. SUFFICES ASSUME IInv, SInv, [SNext]_svars PROVE SkipIsCurrent'
  OBVIOUS
<1>0. SamplingTypeOK /\ RunLockInv /\ SkipIsCurrent
  BY DEF SInv
<1>. USE <1>0, WorkTypes
  DEF SamplingTypeOK, Nothing, RunLockInv, SkipIsCurrent, Visiting, ToVisit,
      OthersKeep
<1>1. CASE QueueStep \/ (\E j \in Jobs : EnqueueRun(j)) \/ UNCHANGED svars
  BY <1>1, QueueAround
<1>2. ASSUME NEW w \in Workers, Begin(w) PROVE SkipIsCurrent'
  <2>1. TakesTheRun(w)
    BY <1>2, BeginEffect
  <2>. QED
    BY <2>1 DEF TakesTheRun
<1>3. ASSUME NEW w \in Workers, Beat(w), pc'[w] # "failed" PROVE SkipIsCurrent'
  <2>1. KeepsTheLease(w)
    BY <1>3, BeatEffect
  <2>. QED
    BY <2>1 DEF KeepsTheLease
<1>4. ASSUME NEW w \in Workers, Sample(w) PROVE SkipIsCurrent'
  <2>1. VisitsACell(w)
    BY <1>4, SampleEffect
  <2>. QED
    BY <2>1 DEF VisitsACell
<1>5. ASSUME NEW w \in Workers, Ends(w) PROVE SkipIsCurrent'
  <2>. SUFFICES ASSUME NEW v \in Workers, Visiting(v)'
                PROVE  /\ skip'[v] = {c \in Cells : result'[job'[v]][c] # "none"}
                       /\ \A c \in skip'[v] : fresh'[v][c] = "none"
                       /\ step'[v] = "finish" => ToVisit(v)' = {}
    BY DEF SkipIsCurrent
  <2>1. /\ Visiting(v) /\ job'[v] = job[v] /\ step'[v] = step[v]
        /\ skip'[v] = skip[v] /\ fresh'[v] = fresh[v]
        /\ result'[job[v]] = result[job[v]]
    BY <1>5, EndedLeavesOthers
  <2>. QED
    BY <2>1
<1>. QED
  BY <1>1, <1>2, <1>3, <1>4, <1>5 DEF SNext, Ends

\* A claim commits after it has visited every cell that had no row.
LEMMA LandedStep == IInv /\ SInv /\ [SNext]_svars => LandedIsWhole'
<1>. SUFFICES ASSUME IInv, SInv, [SNext]_svars PROVE LandedIsWhole'
  OBVIOUS
<1>0. SkipIsCurrent /\ LandedIsWhole
  BY DEF SInv
<1>. USE <1>0, WorkTypes DEF SkipIsCurrent, LandedIsWhole, ToVisit
<1>1. CASE QueueStep \/ (\E j \in Jobs : EnqueueRun(j)) \/ UNCHANGED svars
  BY <1>1, QueueAround
<1>2. ASSUME NEW w \in Workers, Begin(w) PROVE LandedIsWhole'
  <2>1. TakesTheRun(w)
    BY <1>2, BeginEffect
  <2>. QED
    BY <2>1 DEF TakesTheRun
<1>3. ASSUME NEW w \in Workers, Beat(w), pc'[w] # "failed" PROVE LandedIsWhole'
  <2>1. KeepsTheLease(w)
    BY <1>3, BeatEffect
  <2>. QED
    BY <2>1 DEF KeepsTheLease
<1>4. ASSUME NEW w \in Workers, Sample(w) PROVE LandedIsWhole'
  <2>1. VisitsACell(w)
    BY <1>4, SampleEffect
  <2>. QED
    BY <2>1 DEF VisitsACell
<1>5. ASSUME NEW w \in Workers, Beat(w), pc'[w] = "failed" PROVE LandedIsWhole'
  <2>1. AddsNothing(w)
    BY <1>5, AbortEffect
  <2>. QED
    BY <2>1 DEF AddsNothing
<1>6. ASSUME NEW w \in Workers, Raise(w) PROVE LandedIsWhole'
  <2>1. AddsNothing(w)
    BY <1>6, AbortEffect
  <2>. QED
    BY <2>1 DEF AddsNothing
<1>7. ASSUME NEW w \in Workers, CommitRun(w) PROVE LandedIsWhole'
  <2>1. AddsItsRows(w)
    BY <1>7, CommitEffect
  <2>. QED
    BY <2>1 DEF AddsItsRows
<1>8. ASSUME NEW w \in Workers, CrashSampling(w) PROVE LandedIsWhole'
  <2>1. AddsNothing(w)
    BY <1>8, AbortEffect
  <2>. QED
    BY <2>1 DEF AddsNothing
<1>. QED
  BY <1>1, <1>2, <1>3, <1>4, <1>5, <1>6, <1>7, <1>8 DEF SNext

\* A cost event is inserted with a row that did not exist.
LEMMA BookedStep == IInv /\ SInv /\ [SNext]_svars => BookedOncePerAnswer'
<1>. SUFFICES ASSUME IInv, SInv, [SNext]_svars PROVE BookedOncePerAnswer'
  OBVIOUS
<1>0. SkipIsCurrent /\ BookedOncePerAnswer
  BY DEF SInv
<1>. USE <1>0, WorkTypes DEF SkipIsCurrent, BookedOncePerAnswer
<1>1. CASE QueueStep \/ (\E j \in Jobs : EnqueueRun(j)) \/ UNCHANGED svars
  BY <1>1, QueueAround
<1>2. ASSUME NEW w \in Workers, Begin(w) PROVE BookedOncePerAnswer'
  <2>1. TakesTheRun(w)
    BY <1>2, BeginEffect
  <2>. QED
    BY <2>1 DEF TakesTheRun
<1>3. ASSUME NEW w \in Workers, Beat(w), pc'[w] # "failed" PROVE BookedOncePerAnswer'
  <2>1. KeepsTheLease(w)
    BY <1>3, BeatEffect
  <2>. QED
    BY <2>1 DEF KeepsTheLease
<1>4. ASSUME NEW w \in Workers, Sample(w) PROVE BookedOncePerAnswer'
  <2>1. VisitsACell(w)
    BY <1>4, SampleEffect
  <2>. QED
    BY <2>1 DEF VisitsACell
<1>5. ASSUME NEW w \in Workers, Beat(w), pc'[w] = "failed" PROVE BookedOncePerAnswer'
  <2>1. AddsNothing(w)
    BY <1>5, AbortEffect
  <2>. QED
    BY <2>1 DEF AddsNothing
<1>6. ASSUME NEW w \in Workers, Raise(w) PROVE BookedOncePerAnswer'
  <2>1. AddsNothing(w)
    BY <1>6, AbortEffect
  <2>. QED
    BY <2>1 DEF AddsNothing
<1>7. ASSUME NEW w \in Workers, CommitRun(w) PROVE BookedOncePerAnswer'
  <2>1. AddsItsRows(w)
    BY <1>7, CommitEffect
  <2>. QED
    BY <2>1, SMTT(30) DEF AddsItsRows
<1>8. ASSUME NEW w \in Workers, CrashSampling(w) PROVE BookedOncePerAnswer'
  <2>1. AddsNothing(w)
    BY <1>8, AbortEffect
  <2>. QED
    BY <2>1 DEF AddsNothing
<1>. QED
  BY <1>1, <1>2, <1>3, <1>4, <1>5, <1>6, <1>7, <1>8 DEF SNext

-----------------------------------------------------------------------------
(* What holds of every run *)

\* SInv is an invariant of sampling, relative to the queue's.
THEOREM SamplingInvariant == SSpec => []SInv
<1>1. IInv /\ SInv /\ [SNext]_svars => SInv'
  BY STypeStep, RunLockStep, SkipStep, LandedStep, BookedStep DEF SInv
<1>. QED
  BY SInitInv, QueueInv, <1>1, PTL DEF SSpec

\* The tables of the run and the handlers keep their types.
THEOREM SamplingTyping == SSpec => []SamplingTypeOK
BY SamplingInvariant, PTL DEF SInv

\* Every stored answer is booked once, whatever claims overlap, crash or retry.
THEOREM AnswersBookedOnce == SSpec => []BookedOncePerAnswer
BY SamplingInvariant, PTL DEF SInv

\* A done job is a whole run: a row for every cell of its panel.
THEOREM DoneRunsAreWhole == SSpec => []DoneRunIsComplete
<1>1. IInv /\ SInv => DoneRunIsComplete
  BY DEF IInv, DoneByLatestClaim, SInv, LandedIsWhole, DoneRunIsComplete
<1>. QED
  BY SamplingInvariant, QueueInv, <1>1, PTL

\* No engine is paid again for a cell whose row is stored.
THEOREM StoredIsNotRebought == SSpec => StoredNeverRebought
<1>1. ASSUME IInv, SInv, [SNext]_svars, NEW j \in Jobs, NEW c \in Cells,
             paid'[j][c] > paid[j][c]
      PROVE  result[j][c] = "none"
  <2>0. SkipIsCurrent
    BY <1>1 DEF SInv
  <2>1. CASE paid' = paid
    <3>1. paid[j][c] \in Nat
      BY <1>1, WorkTypes
    <3>. QED
      BY <1>1, <2>1, <3>1
  <2>2. ASSUME NEW w \in Workers, Sample(w) PROVE result[j][c] = "none"
    <3>1. VisitsACell(w)
      BY <1>1, <2>2, SampleEffect
    <3>2. step[w] = "call" /\ j = job[w] /\ c \in ToVisit(w) /\ pc[w] = "working"
      BY <1>1, <3>1 DEF VisitsACell
    <3>. QED
      BY <3>2, <2>0 DEF SkipIsCurrent, Visiting, ToVisit
  <2>3. ASSUME NEW w \in Workers, Raise(w) PROVE result[j][c] = "none"
    <3>1. MayLoseAnAnswer(w)
      BY <1>1, <2>3, RaiseEffect
    <3>2. step[w] = "call" /\ j = job[w] /\ c \in ToVisit(w) /\ pc[w] = "working"
      BY <1>1, <3>1 DEF MayLoseAnAnswer
    <3>. QED
      BY <3>2, <2>0 DEF SkipIsCurrent, Visiting, ToVisit
  <2>. QED
    BY <1>1, <2>1, <2>2, <2>3 DEF SNext, EnqueueRun, Begin, Beat, CommitRun,
       CrashSampling, QueueStep, sampling, svars
<1>2. IInv /\ SInv /\ [SNext]_svars =>
        [\A j \in Jobs, c \in Cells :
           paid'[j][c] > paid[j][c] => result[j][c] = "none"]_svars
  BY <1>1
<1>. QED
  BY SamplingInvariant, QueueInv, <1>2, PTL DEF SSpec, StoredNeverRebought

-----------------------------------------------------------------------------
(* What the engines are paid beyond the books *)

AtWork(w, j, n) == pc[w] = "working" /\ job[w] = j /\ claimNo[w] = n

\* Two handlers at work never act for the same claim, nor for one that has
\* committed.
ClaimsApart ==
  /\ \A w \in Workers : pc[w] = "working" => /\ claimNo[w] \in 1..claims[job[w]]
                                             /\ claimNo[w] \notin landed[job[w]]
  /\ \A v, w \in Workers :
       /\ pc[v] = "working" /\ pc[w] = "working"
       /\ job[v] = job[w] /\ claimNo[v] = claimNo[w]
       => v = w

\* The claims that may have cost an answer of c without a cost event: they did
\* not commit, and if they are still at work they have visited c.
Spent(j, c) ==
  {n \in 1..claims[j] : /\ n \notin landed[j]
                        /\ \A w \in Workers : AtWork(w, j, n) => fresh[w][c] = "ok"}

WithinLosses(j, c) == paid[j][c] <= costs[j][c] + Cardinality(Spent(j, c))

LossInv == \A j \in Jobs, c \in Cells : WithinLosses(j, c)

\* A claim gets a number that no claim of the job had.
LEMMA ClaimsApartStep == IInv /\ ClaimsApart /\ [Next]_vars => ClaimsApart'
<1>. SUFFICES ASSUME IInv, ClaimsApart, [Next]_vars PROVE ClaimsApart'
  OBVIOUS
<1>0. /\ pc \in [Workers -> PCs] /\ job \in [Workers -> Jobs \union {None}]
      /\ claimNo \in [Workers -> Nat] /\ claims \in [Jobs -> Nat]
      /\ landed \in [Jobs -> SUBSET Nat]
      /\ \A w \in Workers : pc[w] = "working" => job[w] \in Jobs
      /\ \A j \in Jobs : landed[j] \subseteq 1..claims[j]
  BY DEF IInv, TypeOK, HolderInv, Holding, RowInv
<1>. USE <1>0 DEF ClaimsApart
<1>1. ASSUME NEW w \in Workers, NEW j \in Jobs, Claim(w, j) PROVE ClaimsApart'
  <2>1. /\ claims' = [claims EXCEPT ![j] = @ + 1] /\ landed' = landed
        /\ pc' = [pc EXCEPT ![w] = "working"] /\ job' = [job EXCEPT ![w] = j]
        /\ claimNo' = [claimNo EXCEPT ![w] = claims[j] + 1]
    BY <1>1 DEF Claim
  <2>2. \A v \in Workers : pc[v] = "working" => claimNo[v] <= claims[job[v]]
    OBVIOUS
  <2>3. claims[j] + 1 \notin landed[j]
    OBVIOUS
  <2>. QED
    BY <2>1, <2>2, <2>3
<1>2. ASSUME NEW w \in Workers, Commit(w) PROVE ClaimsApart'
  <2>1. /\ landed' = [landed EXCEPT ![job[w]] = @ \union {claimNo[w]}]
        /\ pc'[w] # "working" /\ \A v \in Workers \ {w} : pc'[v] = pc[v]
        /\ pc[w] = "working" /\ UNCHANGED <<job, claimNo, claims>>
    BY <1>2 DEF Commit
  <2>. QED
    BY <2>1
<1>3. CASE /\ UNCHANGED <<claims, landed>>
           /\ \A w \in Workers : pc'[w] = "working" =>
                pc[w] = "working" /\ job'[w] = job[w] /\ claimNo'[w] = claimNo[w]
  BY <1>3
<1>4. ASSUME NEW w \in Workers,
             Complete(w) \/ Fail(w) \/ LoopTop(w) \/ Idle(w) \/ HandlerRaises(w)
               \/ Restart(w) \/ Heartbeat(w) \/ Crash(w)
      PROVE  ClaimsApart'
  <2>1. UNCHANGED <<claims, landed>>
    BY <1>4 DEF Complete, Fail, LoopTop, Idle, HandlerRaises, Restart, Heartbeat,
                Crash, history
  <2>2. \A v \in Workers : pc'[v] = "working" =>
          pc[v] = "working" /\ job'[v] = job[v] /\ claimNo'[v] = claimNo[v]
    BY <1>4 DEF Complete, Fail, LoopTop, Idle, HandlerRaises, Restart, Heartbeat,
                Crash, Release
  <2>. QED
    BY <2>1, <2>2, <1>3
<1>. QED
  BY <1>1, <1>2, <1>3, <1>4
  DEF Next, WorkerStep, Enqueue, Retry, Tick, process, history, vars

\* No two handlers act for the same claim of a run.
LEMMA ClaimsStayApart == SSpec => []ClaimsApart
<1>1. Init => ClaimsApart
  BY DEF Init, ClaimsApart
<1>. QED
  BY <1>1, ClaimsApartStep, SamplerRefinesQueue, InductiveInvariant, PTL DEF Spec

\* The claims of a run that may have cost something are finitely many.
LEMMA SpentFinite ==
  ASSUME IInv, NEW j \in Jobs, NEW c \in Cells
  PROVE  IsFiniteSet(Spent(j, c)) /\ Cardinality(Spent(j, c)) \in Nat
<1>1. claims[j] \in Nat
  BY DEF IInv, TypeOK
<1>2. IsFiniteSet(1..claims[j])
  BY <1>1, FS_Interval
<1>3. IsFiniteSet(Spent(j, c))
  BY <1>2, FS_Subset DEF Spent
<1>. QED
  BY <1>3, FS_CardinalityType

\* So they are after a step.
LEMMA SpentFiniteNext ==
  ASSUME IInv', NEW j \in Jobs, NEW c \in Cells
  PROVE  IsFiniteSet(Spent(j, c)') /\ Cardinality(Spent(j, c)') \in Nat
<1>1. claims'[j] \in Nat
  BY DEF IInv, TypeOK
<1>2. IsFiniteSet(1..claims'[j])
  BY <1>1, FS_Interval
<1>3. IsFiniteSet(Spent(j, c)')
  BY <1>2, FS_Subset DEF Spent
<1>. QED
  BY <1>3, FS_CardinalityType

\* A step that pays for nothing and books nothing, and leaves every such claim
\* one, stays within the losses.
LEMMA NothingPaid ==
  ASSUME IInv, IInv', SInv, NEW j \in Jobs, NEW c \in Cells, WithinLosses(j, c),
         Spent(j, c) \subseteq Spent(j, c)',
         paid'[j][c] = paid[j][c], costs'[j][c] = costs[j][c]
  PROVE  WithinLosses(j, c)'
<1>1. IsFiniteSet(Spent(j, c)') /\ Cardinality(Spent(j, c)') \in Nat
  BY SpentFiniteNext
<1>2. Cardinality(Spent(j, c)) <= Cardinality(Spent(j, c)')
  BY <1>1, FS_Subset
<1>3. Cardinality(Spent(j, c)) \in Nat
  BY SpentFinite
<1>4. paid[j][c] \in Nat /\ costs[j][c] \in Nat
  BY WorkTypes
<1>. QED
  BY <1>1, <1>2, <1>3, <1>4 DEF WithinLosses

\* A step that books an answer of the claim n, which was one of them, stays
\* within the losses.
LEMMA AnswerBooked ==
  ASSUME IInv, IInv', SInv, NEW j \in Jobs, NEW c \in Cells, WithinLosses(j, c),
         NEW n \in Spent(j, c), Spent(j, c) \ {n} \subseteq Spent(j, c)',
         paid'[j][c] = paid[j][c], costs'[j][c] = costs[j][c] + 1
  PROVE  WithinLosses(j, c)'
<1>1. IsFiniteSet(Spent(j, c)') /\ Cardinality(Spent(j, c)') \in Nat
  BY SpentFiniteNext
<1>2. IsFiniteSet(Spent(j, c)) /\ Cardinality(Spent(j, c)) \in Nat
  BY SpentFinite
<1>3. Cardinality(Spent(j, c) \ {n}) = Cardinality(Spent(j, c)) - 1
  BY <1>2, FS_RemoveElement
<1>4. Cardinality(Spent(j, c) \ {n}) <= Cardinality(Spent(j, c)')
  BY <1>1, FS_Subset
<1>5. paid[j][c] \in Nat /\ costs[j][c] \in Nat
  BY WorkTypes
<1>. QED
  BY <1>1, <1>2, <1>3, <1>4, <1>5 DEF WithinLosses

\* The same, of a step that pays for an answer of the claim n, which becomes one.
LEMMA AnswerPaid ==
  ASSUME IInv, IInv', SInv, NEW j \in Jobs, NEW c \in Cells, WithinLosses(j, c),
         NEW n \in Spent(j, c)', n \notin Spent(j, c),
         Spent(j, c) \subseteq Spent(j, c)',
         paid'[j][c] = paid[j][c] + 1, costs'[j][c] = costs[j][c]
  PROVE  WithinLosses(j, c)'
<1>1. IsFiniteSet(Spent(j, c)') /\ Cardinality(Spent(j, c)') \in Nat
  BY SpentFiniteNext
<1>2. IsFiniteSet(Spent(j, c)) /\ Cardinality(Spent(j, c)) \in Nat
  BY SpentFinite
<1>3. Cardinality(Spent(j, c) \union {n}) = Cardinality(Spent(j, c)) + 1
  BY <1>2, FS_AddElement
<1>4. Spent(j, c) \union {n} \subseteq Spent(j, c)'
  OBVIOUS
<1>5. Cardinality(Spent(j, c) \union {n}) <= Cardinality(Spent(j, c)')
  BY <1>1, <1>4, FS_Subset
<1>6. paid[j][c] \in Nat /\ costs[j][c] \in Nat
  BY WorkTypes
<1>. QED
  BY <1>1, <1>2, <1>3, <1>5, <1>6 DEF WithinLosses

\* A step that commits nothing, after which whoever is at work acts for the claim
\* it acted for, or for a new one, and has visited what it had visited.
LEMMA StillSpent ==
  ASSUME IInv, NEW j \in Jobs, NEW c \in Cells,
         landed'[j] = landed[j], claims[j] <= claims'[j], claims'[j] \in Nat,
         \A w \in Workers : pc'[w] = "working" =>
           \/ /\ pc[w] = "working" /\ job'[w] = job[w] /\ claimNo'[w] = claimNo[w]
              /\ fresh[w][c] = "ok" => fresh'[w][c] = "ok"
           \/ job'[w] = j => claimNo'[w] > claims[j]
  PROVE  Spent(j, c) \subseteq Spent(j, c)'
<1>1. claims[j] \in Nat
  BY DEF IInv, TypeOK
<1>. QED
  BY <1>1 DEF Spent, AtWork

\* No step of a handler makes a claim.
LEMMA ClaimsKept ==
  ASSUME IInv, SInv, NEW w \in Workers,
         Begin(w) \/ Beat(w) \/ Sample(w) \/ Raise(w) \/ CommitRun(w) \/ CrashSampling(w)
  PROVE  /\ claims' = claims
         /\ \A v \in Workers : pc'[v] = "working" => claimNo'[v] = claimNo[v]
<1>1. claims' = claims
  BY DEF Begin, Beat, Sample, Raise, CommitRun, CrashSampling, Heartbeat,
         HandlerRaises, Commit, Crash, vars, history
<1>2. \A v \in Workers : pc'[v] = "working" => claimNo'[v] = claimNo[v]
  <2>1. CASE claimNo' = claimNo
    BY <2>1
  <2>2. CASE CrashSampling(w)
    BY <2>2, WorkTypes DEF CrashSampling, Crash, IInv, TypeOK
  <2>. QED
    BY <2>1, <2>2 DEF Begin, Beat, Sample, Raise, CommitRun, Heartbeat,
         HandlerRaises, Commit, vars, process
<1>. QED
  BY <1>1, <1>2

\* The queue around the handlers only hands out new claims.
LEMMA ClaimsAround ==
  ASSUME IInv, SInv, QueueStep \/ (\E j \in Jobs : EnqueueRun(j)) \/ UNCHANGED svars,
         NEW j \in Jobs
  PROVE  /\ claims[j] <= claims'[j] /\ claims'[j] \in Nat
         /\ \A w \in Workers : pc'[w] = "working" =>
              \/ pc[w] = "working" /\ job'[w] = job[w] /\ claimNo'[w] = claimNo[w]
              \/ job'[w] = j => claimNo'[w] > claims[j]
<1>. USE DEF IInv, TypeOK
<1>1. CASE UNCHANGED claims /\ \A w \in Workers : pc'[w] = "working" =>
             pc[w] = "working" /\ job'[w] = job[w] /\ claimNo'[w] = claimNo[w]
  BY <1>1
<1>2. ASSUME NEW w \in Workers, NEW i \in Jobs, Claim(w, i)
      PROVE  /\ claims[j] <= claims'[j] /\ claims'[j] \in Nat
             /\ \A v \in Workers : pc'[v] = "working" =>
                  \/ pc[v] = "working" /\ job'[v] = job[v] /\ claimNo'[v] = claimNo[v]
                  \/ job'[v] = j => claimNo'[v] > claims[j]
  BY <1>2 DEF Claim
<1>3. ASSUME NEW w \in Workers, LoopTop(w) \/ Idle(w) \/ Complete(w) \/ Fail(w) \/ Restart(w)
      PROVE  UNCHANGED claims /\ \A v \in Workers : pc'[v] = "working" =>
               pc[v] = "working" /\ job'[v] = job[v] /\ claimNo'[v] = claimNo[v]
  BY <1>3 DEF LoopTop, Idle, Complete, Fail, Restart, Release, history
<1>. QED
  BY <1>1, <1>2, <1>3
  DEF QueueStep, EnqueueRun, Enqueue, Retry, Tick, process, history, svars, vars

\* Every answer beyond the books is one of a claim that came to nothing.
LEMMA LossStep == IInv /\ IInv' /\ SInv /\ ClaimsApart /\ ClaimsApart' /\ LossInv
                    /\ [SNext]_svars => LossInv'
<1>. SUFFICES ASSUME IInv, IInv', SInv, ClaimsApart, ClaimsApart', [SNext]_svars,
                     NEW j \in Jobs, NEW c \in Cells, WithinLosses(j, c)
              PROVE  WithinLosses(j, c)'
  BY DEF LossInv
<1>. USE WorkTypes
<1>0. claims \in [Jobs -> Nat] /\ claims' \in [Jobs -> Nat] /\ claimNo \in [Workers -> Nat]
  BY DEF IInv, TypeOK
<1>1. CASE QueueStep \/ (\E i \in Jobs : EnqueueRun(i)) \/ UNCHANGED svars
  <2>1. Spent(j, c) \subseteq Spent(j, c)'
    BY <1>1, QueueAround, ClaimsAround, StillSpent
  <2>. QED
    BY <1>1, <2>1, QueueAround, NothingPaid
<1>2. ASSUME NEW w \in Workers, Begin(w) \/ (Beat(w) /\ pc'[w] # "failed")
      PROVE  WithinLosses(j, c)'
  <2>1. UNCHANGED <<pc, job, landed, costs, fresh, paid>>
    BY <1>2, BeginEffect, BeatEffect DEF TakesTheRun, KeepsTheLease
  <2>2. /\ landed'[j] = landed[j] /\ claims[j] <= claims'[j] /\ claims'[j] \in Nat
        /\ \A v \in Workers : pc'[v] = "working" =>
             \/ /\ pc[v] = "working" /\ job'[v] = job[v] /\ claimNo'[v] = claimNo[v]
                /\ fresh[v][c] = "ok" => fresh'[v][c] = "ok"
             \/ job'[v] = j => claimNo'[v] > claims[j]
    BY <1>0, <1>2, <2>1, ClaimsKept
  <2>3. Spent(j, c) \subseteq Spent(j, c)'
    BY <2>2, StillSpent
  <2>. QED
    BY <2>1, <2>3, NothingPaid
<1>3. ASSUME NEW w \in Workers, Sample(w) PROVE WithinLosses(j, c)'
  <2>1. /\ job[w] \in Jobs /\ pc[w] = "working" /\ OthersKeep(w)
        /\ UNCHANGED <<pc, job, landed, costs>>
    BY <1>3, SampleEffect DEF VisitsACell
  <2>2. PICK d \in ToVisit(w), r \in {"ok", "error"} :
          /\ fresh' = [fresh EXCEPT ![w][d] = r]
          /\ paid' = IF r = "ok" THEN [paid EXCEPT ![job[w]][d] = @ + 1] ELSE paid
    BY <1>3, SampleEffect DEF VisitsACell
  <2>3. d \in Cells /\ fresh[w][d] = "none"
    BY DEF ToVisit
  <2>4. \A v \in Workers : fresh[v][c] = "ok" => fresh'[v][c] = "ok"
    BY <2>2, <2>3
  <2>5. Spent(j, c) \subseteq Spent(j, c)'
    <3>1. /\ landed'[j] = landed[j] /\ claims[j] <= claims'[j] /\ claims'[j] \in Nat
          /\ \A v \in Workers : pc'[v] = "working" =>
               \/ /\ pc[v] = "working" /\ job'[v] = job[v] /\ claimNo'[v] = claimNo[v]
                  /\ fresh[v][c] = "ok" => fresh'[v][c] = "ok"
               \/ job'[v] = j => claimNo'[v] > claims[j]
      BY <1>0, <1>3, <2>1, <2>4, ClaimsKept
    <3>. QED
      BY <3>1, StillSpent
  <2>6. CASE r = "ok" /\ j = job[w] /\ c = d
    <3>1. paid'[j][c] = paid[j][c] + 1 /\ fresh'[w][c] = "ok"
      BY <2>1, <2>2, <2>3, <2>6
    <3>2. claimNo[w] \notin Spent(j, c)
      BY <2>1, <2>3, <2>6 DEF Spent, AtWork
    <3>3. claimNo[w] \in Spent(j, c)'
      BY <1>0, <1>3, <2>1, <2>6, <3>1, ClaimsKept DEF ClaimsApart, Spent, AtWork
    <3>. QED
      BY <2>1, <2>5, <3>1, <3>2, <3>3, AnswerPaid
  <2>7. CASE ~(r = "ok" /\ j = job[w] /\ c = d)
    <3>1. paid'[j][c] = paid[j][c]
      BY <2>1, <2>2, <2>3, <2>7
    <3>. QED
      BY <2>1, <2>5, <3>1, NothingPaid
  <2>. QED
    BY <2>6, <2>7
<1>4. ASSUME NEW w \in Workers, Ends(w), ~CommitRun(w) PROVE WithinLosses(j, c)'
  <2>1. LetsGo(w) /\ AddsNothing(w) /\ claims' = claims
    BY <1>4, EndEffect, AbortEffect, ClaimsKept DEF Ends
  <2>2. \A v \in Workers : pc'[v] = "working" =>
          /\ v # w /\ pc[v] = "working" /\ job'[v] = job[v]
          /\ claimNo'[v] = claimNo[v] /\ fresh'[v] = fresh[v]
    BY <1>4, <2>1, ClaimsKept DEF Ends, LetsGo, OthersKeep
  <2>3. Spent(j, c) \subseteq Spent(j, c)'
    <3>1. /\ landed'[j] = landed[j] /\ claims[j] <= claims'[j] /\ claims'[j] \in Nat
          /\ \A v \in Workers : pc'[v] = "working" =>
               \/ /\ pc[v] = "working" /\ job'[v] = job[v] /\ claimNo'[v] = claimNo[v]
                  /\ fresh[v][c] = "ok" => fresh'[v][c] = "ok"
               \/ job'[v] = j => claimNo'[v] > claims[j]
      BY <1>0, <2>1, <2>2 DEF AddsNothing
    <3>. QED
      BY <3>1, StillSpent
  <2>4. costs' = costs
    BY <2>1 DEF AddsNothing
  <2>5. CASE paid' = paid
    BY <2>3, <2>4, <2>5, NothingPaid
  <2>6. ASSUME Raise(w), NEW d \in ToVisit(w), paid' = [paid EXCEPT ![job[w]][d] = @ + 1]
        PROVE  WithinLosses(j, c)'
    <3>1. pc[w] = "working" /\ job[w] \in Jobs /\ d \in Cells /\ fresh[w][d] = "none"
      BY <2>6, RaiseEffect DEF MayLoseAnAnswer, ToVisit
    <3>2. CASE j = job[w] /\ c = d
      <4>1. claimNo[w] \notin Spent(j, c)
        BY <3>1, <3>2 DEF Spent, AtWork
      <4>2. claimNo[w] \in Spent(j, c)'
        BY <1>0, <2>1, <2>2, <3>1, <3>2 DEF ClaimsApart, Spent, AtWork, AddsNothing
      <4>. QED
        BY <2>3, <2>4, <2>6, <3>1, <3>2, <4>1, <4>2, AnswerPaid
    <3>3. CASE ~(j = job[w] /\ c = d)
      BY <2>3, <2>4, <2>6, <3>1, <3>3, NothingPaid
    <3>. QED
      BY <3>2, <3>3
  <2>. QED
    BY <1>4, <2>5, <2>6 DEF Ends, Beat, Raise, CrashSampling
<1>5. ASSUME NEW w \in Workers, CommitRun(w) PROVE WithinLosses(j, c)'
  <2>1. LetsGo(w) /\ AddsItsRows(w) /\ claims' = claims
    BY <1>5, EndEffect, CommitEffect, ClaimsKept DEF Ends
  <2>2. /\ pc[w] = "working" /\ job[w] \in Jobs /\ paid' = paid
        /\ landed' = [landed EXCEPT ![job[w]] = @ \union {claimNo[w]}]
    BY <1>5, <2>1 DEF CommitRun, Commit, AddsItsRows
  <2>3. \A v \in Workers : pc'[v] = "working" =>
          /\ v # w /\ pc[v] = "working" /\ job'[v] = job[v]
          /\ claimNo'[v] = claimNo[v] /\ fresh'[v] = fresh[v]
    BY <1>5, <2>1, ClaimsKept DEF LetsGo, OthersKeep
  <2>4. CASE j # job[w]
    <3>1. Spent(j, c) \subseteq Spent(j, c)'
      <4>1. /\ landed'[j] = landed[j] /\ claims[j] <= claims'[j] /\ claims'[j] \in Nat
            /\ \A v \in Workers : pc'[v] = "working" =>
                 \/ /\ pc[v] = "working" /\ job'[v] = job[v] /\ claimNo'[v] = claimNo[v]
                    /\ fresh[v][c] = "ok" => fresh'[v][c] = "ok"
                 \/ job'[v] = j => claimNo'[v] > claims[j]
        BY <1>0, <2>1, <2>2, <2>3, <2>4 DEF AddsItsRows
      <4>. QED
        BY <4>1, StillSpent
    <3>2. costs'[j][c] = costs[j][c]
      BY <2>1, <2>4 DEF AddsItsRows
    <3>. QED
      BY <2>2, <3>1, <3>2, NothingPaid
  <2>5. CASE j = job[w]
    <3>1. Spent(j, c) \ {claimNo[w]} \subseteq Spent(j, c)'
      BY <1>0, <2>1, <2>2, <2>3, <2>5 DEF Spent, AtWork
    <3>2. CASE fresh[w][c] = "ok"
      <4>1. costs'[j][c] = costs[j][c] + 1
        BY <2>1, <2>5, <3>2 DEF AddsItsRows
      <4>2. claimNo[w] \in Spent(j, c)
        BY <1>0, <2>2, <2>5, <3>2 DEF ClaimsApart, Spent, AtWork
      <4>. QED
        BY <2>2, <3>1, <4>1, <4>2, AnswerBooked
    <3>3. CASE fresh[w][c] # "ok"
      <4>1. costs'[j][c] = costs[j][c]
        BY <2>1, <2>5, <3>3 DEF AddsItsRows
      <4>2. claimNo[w] \notin Spent(j, c)
        BY <2>2, <2>5, <3>3 DEF Spent, AtWork
      <4>. QED
        BY <2>2, <3>1, <4>1, <4>2, NothingPaid
    <3>. QED
      BY <3>2, <3>3
  <2>. QED
    BY <2>4, <2>5
<1>. QED
  BY <1>1, <1>2, <1>3, <1>4, <1>5 DEF SNext, Ends

\* What the engines are paid beyond the books is at most one answer of a cell
\* for each claim that came to nothing.
THEOREM LossesBounded == SSpec => []LossesAreLostClaims
<1>1. SInit => LossInv
  <2>. SUFFICES ASSUME SInit, NEW j \in Jobs, NEW c \in Cells PROVE WithinLosses(j, c)
    BY DEF LossInv
  <2>1. Spent(j, c) = {}
    BY DEF SInit, Init, Spent
  <2>2. Cardinality(Spent(j, c)) = 0
    BY <2>1, FS_EmptySet
  <2>. QED
    BY <2>2 DEF SInit, WithinLosses
<1>2. IInv /\ SInv /\ LossInv => LossesAreLostClaims
  <2>. SUFFICES ASSUME IInv, SInv, NEW j \in Jobs, NEW c \in Cells, WithinLosses(j, c)
                PROVE  paid[j][c] - costs[j][c] <= claims[j] - Cardinality(landed[j])
    BY DEF LossInv, LossesAreLostClaims
  <2>1. claims[j] \in Nat /\ landed[j] \subseteq 1..claims[j]
    BY DEF IInv, TypeOK, RowInv
  <2>2. IsFiniteSet(1..claims[j]) /\ Cardinality(1..claims[j]) = claims[j]
    BY <2>1, FS_Interval
  <2>3. IsFiniteSet(landed[j]) /\ Cardinality(landed[j]) \in Nat
    BY <2>1, <2>2, FS_Subset, FS_CardinalityType
  <2>4. (1..claims[j]) \intersect landed[j] = landed[j]
    BY <2>1
  <2>5. /\ IsFiniteSet((1..claims[j]) \ landed[j])
        /\ Cardinality((1..claims[j]) \ landed[j]) = claims[j] - Cardinality(landed[j])
    <3>1. /\ IsFiniteSet((1..claims[j]) \ landed[j])
          /\ Cardinality((1..claims[j]) \ landed[j]) =
               Cardinality(1..claims[j]) - Cardinality((1..claims[j]) \intersect landed[j])
      BY <2>2, FS_Difference
    <3>. QED
      BY <2>2, <2>4, <3>1, Zenon
  <2>6. Cardinality(Spent(j, c)) <= Cardinality((1..claims[j]) \ landed[j])
    <3>1. Spent(j, c) \subseteq (1..claims[j]) \ landed[j]
      BY DEF Spent
    <3>. QED
      BY <2>5, <3>1, FS_Subset
  <2>7. Cardinality(Spent(j, c)) \in Nat
    BY SpentFinite
  <2>8. paid[j][c] \in Nat /\ costs[j][c] \in Nat
    BY WorkTypes
  <2>. QED
    BY <2>1, <2>3, <2>5, <2>6, <2>7, <2>8 DEF WithinLosses
<1>. QED
  BY <1>1, <1>2, LossStep, SamplingInvariant, QueueInv, ClaimsStayApart, PTL DEF SSpec

=============================================================================
