------------------------------- MODULE Sampler -------------------------------
(***************************************************************************)
(* Citation sampling (gm/intel/sampler.py, gm/infra/costs.py) as a handler *)
(* of the job queue: each job is the sample_citations job of one run, a    *)
(* run is a frozen panel of cells (prompt, engine, sample_index) visited   *)
(* in order.                                                               *)
(*                                                                         *)
(* The handler's statements all run in the worker's ONE work transaction,  *)
(* while the calls it makes to the engines cannot be rolled back.  Its     *)
(* first UPDATE of the run's row locks that row until the transaction      *)
(* ends, so a second claim of the same job waits there for the first.      *)
(***************************************************************************)
EXTENDS JobQueue

CONSTANTS NCells    \* the size of a run's frozen panel

\* enqueue_run leaves run_after at now().
ASSUME PanelAssumption == NCells \in Nat \ {0} /\ 0 \in Delays

Cells == 1..NCells

VARIABLES
  result,     \* citation_results by job and cell: "none", "ok" or "error"
  costs,      \* cost_events by job and cell
  runDone,    \* citation_runs.status = 'done'
  runLock,    \* the worker whose transaction has locked the run's row
  step,       \* where the handler is: "begin", "beat", "call", "finish"
  skip,       \* _existing_samples, read once at the start
  fresh,      \* what the open transaction of a worker has inserted
  paid        \* history: answers the engines gave, each charged for (a call
              \* that fails is charged for or not, which nobody here can know)

sampling == <<result, costs, runDone, runLock, step, skip, fresh, paid>>
svars    == <<vars, sampling>>

Nothing == [c \in Cells |-> "none"]

SInit ==
  /\ Init
  /\ result = [j \in Jobs |-> Nothing]
  /\ costs = [j \in Jobs |-> [c \in Cells |-> 0]]
  /\ runDone = [j \in Jobs |-> FALSE]
  /\ runLock = [j \in Jobs |-> None]
  /\ step = [w \in Workers |-> "begin"]
  /\ skip = [w \in Workers |-> {}]
  /\ fresh = [w \in Workers |-> Nothing]
  /\ paid = [j \in Jobs |-> [c \in Cells |-> 0]]

\* The cells the loop of w has still to visit.
ToVisit(w) == {c \in Cells : c \notin skip[w] /\ fresh[w][c] = "none"}

\* Mutant: the loop ends one cell early.
LoopOnShort(w) ==
  step' = [step EXCEPT ![w] = IF ToVisit(w)' \subseteq {NCells} THEN "finish" ELSE "beat"]

LoopOn(w) ==
  step' = [step EXCEPT ![w] = IF ToVisit(w)' = {} THEN "finish" ELSE "beat"]

\* The open transaction of w ends, and with it the row lock.
EndTransaction(w) ==
  /\ step' = [step EXCEPT ![w] = "begin"]
  /\ skip' = [skip EXCEPT ![w] = {}]
  /\ fresh' = [fresh EXCEPT ![w] = Nothing]
  /\ runLock' = [j \in Jobs |-> IF runLock[j] = w THEN None ELSE runLock[j]]

-----------------------------------------------------------------------------
(* handle_sample_citations *)

\* Mutants: the run's row is not updated first, so two claims of one run
\* overlap; the samples that exist already are not looked up.
BeginUnlocked(w) ==
  /\ pc[w] = "working" /\ step[w] = "begin"
  /\ skip' = [skip EXCEPT ![w] = {c \in Cells : result[job[w]][c] # "none"}]
  /\ UNCHANGED <<vars, result, costs, runDone, runLock, fresh, paid>>
  /\ LoopOn(w)

BeginAfresh(w) ==
  /\ pc[w] = "working" /\ step[w] = "begin"
  /\ runLock[job[w]] = None
  /\ runLock' = [runLock EXCEPT ![job[w]] = w]
  /\ UNCHANGED <<vars, result, costs, runDone, skip, fresh, paid>>
  /\ LoopOn(w)

\* `update citation_runs set status='running'', then _existing_samples.
Begin(w) ==
  /\ pc[w] = "working" /\ step[w] = "begin"
  /\ runLock[job[w]] = None
  /\ runLock' = [runLock EXCEPT ![job[w]] = w]
  /\ skip' = [skip EXCEPT ![w] = {c \in Cells : result[job[w]][c] # "none"}]
  /\ UNCHANGED <<vars, result, costs, runDone, fresh, paid>>
  /\ LoopOn(w)



\* ctx.heartbeat() before every sample; LostLease ends the handler.
Beat(w) ==
  /\ step[w] = "beat"
  /\ Heartbeat(w)
  /\ IF pc'[w] = "failed" THEN EndTransaction(w)
     ELSE /\ step' = [step EXCEPT ![w] = "call"]
          /\ UNCHANGED <<skip, fresh, runLock>>
  /\ UNCHANGED <<result, costs, runDone, paid>>

\* Mutant: an answer whose raw text cannot be stored is asked for again.
SampleAgain(w) ==
  /\ pc[w] = "working" /\ step[w] = "call"
  /\ \E c \in ToVisit(w) :
       /\ \A b \in ToVisit(w) : c <= b
       /\ paid' = [paid EXCEPT ![job[w]][c] = @ + 1]
       /\ fresh' \in {fresh, [fresh EXCEPT ![w][c] = "ok"]}
  /\ UNCHANGED <<vars, result, costs, runDone, runLock, skip>>
  /\ LoopOn(w)

\* The visit of a cell: a missing adapter or an EngineError is stored as an
\* error row; an answer is paid for, stored and booked as a cost event.
Sample(w) ==
  /\ pc[w] = "working" /\ step[w] = "call"
  /\ \E c \in ToVisit(w), r \in {"ok", "error"} :
       /\ \A b \in ToVisit(w) : c <= b
       /\ fresh' = [fresh EXCEPT ![w][c] = r]
       /\ paid' = IF r = "ok" THEN [paid EXCEPT ![job[w]][c] = @ + 1] ELSE paid
  /\ UNCHANGED <<vars, result, costs, runDone, runLock, skip>>
  /\ LoopOn(w)

\* Anything else raised in the handler.  Raised between an answer and its
\* row (by the raw store or a statement), the answer is paid for and lost.
Raise(w) ==
  /\ HandlerRaises(w)
  /\ paid' \in {paid} \union {[paid EXCEPT ![job[w]][c] = @ + 1] :
                                c \in {b \in ToVisit(w) : step[w] = "call"}}
  /\ EndTransaction(w)
  /\ UNCHANGED <<result, costs, runDone>>

\* The run is marked done and the transaction commits: a row that exists
\* already is left alone, a cost event is inserted unconditionally.
CommitRun(w) ==
  /\ step[w] = "finish"
  /\ Commit(w)
  /\ result' = [result EXCEPT ![job[w]] =
       [c \in Cells |-> IF @[c] = "none" THEN fresh[w][c] ELSE @[c]]]
  /\ costs' = [costs EXCEPT ![job[w]] =
       [c \in Cells |-> IF fresh[w][c] = "ok" THEN @[c] + 1 ELSE @[c]]]
  /\ runDone' = [runDone EXCEPT ![job[w]] = TRUE]
  /\ EndTransaction(w)
  /\ UNCHANGED paid

-----------------------------------------------------------------------------
(* The queue around the handler *)

\* enqueue_run freezes the panel and enqueues the job under its run's key.
EnqueueRun(j) ==
  /\ \E k \in Keys : Enqueue(j, k, 0)
  /\ UNCHANGED sampling

CrashSampling(w) ==
  /\ Crash(w)
  /\ EndTransaction(w)
  /\ UNCHANGED <<result, costs, runDone, paid>>

QueueStep ==
  /\ \/ \E w \in Workers : LoopTop(w)
     \/ \E w \in Workers, j \in Jobs : Claim(w, j)
     \/ \E w \in Workers : Idle(w)
     \/ \E w \in Workers : Complete(w)
     \/ \E w \in Workers : Fail(w)
     \/ \E w \in Workers : Restart(w)
     \/ \E j \in Jobs : Retry(j)
     \/ Tick
  /\ UNCHANGED sampling

SNext ==
  \/ \E j \in Jobs : EnqueueRun(j)
  \/ \E w \in Workers : Begin(w)
  \/ \E w \in Workers : Beat(w)
  \/ \E w \in Workers : Sample(w)
  \/ \E w \in Workers : Raise(w)
  \/ \E w \in Workers : CommitRun(w)
  \/ \E w \in Workers : CrashSampling(w)
  \/ QueueStep

SSpec == SInit /\ [][SNext]_svars

-----------------------------------------------------------------------------
(* Properties *)

SamplingTypeOK ==
  /\ result \in [Jobs -> [Cells -> {"none", "ok", "error"}]]
  /\ costs \in [Jobs -> [Cells -> Nat]]
  /\ runDone \in [Jobs -> BOOLEAN]
  /\ runLock \in [Jobs -> Workers \union {None}]
  /\ step \in [Workers -> {"begin", "beat", "call", "finish"}]
  /\ skip \in [Workers -> SUBSET Cells]
  /\ fresh \in [Workers -> [Cells -> {"none", "ok", "error"}]]
  /\ paid \in [Jobs -> [Cells -> Nat]]
  /\ \A w \in Workers : pc[w] # "working" =>
       /\ step[w] = "begin" /\ fresh[w] = Nothing
       /\ \A j \in Jobs : runLock[j] # w

\* Every stored answer is booked exactly once, and nothing else is, although
\* the cost event is inserted whether or not the row was: overlapping claims
\* of one run are kept apart by the lock on the run's row alone.
BookedOncePerAnswer ==
  \A j \in Jobs, c \in Cells : costs[j][c] = (IF result[j][c] = "ok" THEN 1 ELSE 0)

\* A finished run has a row for every cell of its frozen panel, so that the
\* denominators of its rates are complete, and a done job means such a run.
DoneRunIsComplete ==
  \A j \in Jobs : /\ status[j] = "done" => runDone[j]
                  /\ runDone[j] => \A c \in Cells : result[j][c] # "none"

\* What is stored is never paid for again: a claim that comes after a commit
\* resumes behind it, even when it was already waiting for the run's row.
StoredNeverRebought ==
  [][\A j \in Jobs, c \in Cells : paid'[j][c] > paid[j][c] => result[j][c] = "none"]_svars

\* What the engines are paid beyond the books is bounded by the claims that
\* came to nothing: a cell's answers exceed its cost events by at most one for
\* each claim of the job that did not commit, wherever the lease was lost, the
\* answer could not be stored, the process died or the work was rolled back.
LossesAreLostClaims ==
  \A j \in Jobs, c \in Cells :
    paid[j][c] - costs[j][c] <= claims[j] - Cardinality(landed[j])

\* `a retried job never duplicates samples or spend' (sampler.py:4-5).
NeverPaidTwice == \A j \in Jobs, c \in Cells : paid[j][c] <= 1

=============================================================================
