------------------------------ MODULE Scheduler ------------------------------
(***************************************************************************)
(* The catch-up scheduler (gm/infra/scheduler.py): several processes run   *)
(* the loop, the one whose database session holds the advisory lock sweeps *)
(* the due schedules.  Every statement is autocommitted, so enqueueing a   *)
(* tick, reading the clock and advancing next_run_at are separate steps,   *)
(* and the session (with it the lock) may end between any two of them.     *)
(***************************************************************************)
EXTENDS Integers

CONSTANTS
  Schedules,   \* rows of the schedules table, all enabled
  Procs,       \* processes running the scheduler thread
  Every,       \* every_minutes of each schedule, in clock units
  First,       \* next_run_at of each schedule when it is inserted
  None,
  \* Bounds of the model:
  MaxTime,     \* the clock stops here
  MaxFaults    \* lost sessions and process deaths

ASSUME SchedulerAssumption ==
  /\ Every \in [Schedules -> Nat \ {0}]
  /\ First \in [Schedules -> Nat]
  /\ MaxTime \in Nat
  /\ MaxFaults \in Nat
  /\ None \notin Procs /\ "lingering" \notin Procs
  /\ None \notin Schedules

VARIABLES
  now,
  next,      \* schedules.next_run_at
  enqAt,     \* enqAt[s][t]: when the job keyed sched:s:t was inserted, or -1
  lock,      \* the process whose session holds the advisory lock, None, or
             \* "lingering": a session whose client is gone
  pc,        \* "idle", "sweep", "clock", "update", "down"
  conn,      \* "none", "open" or "lost": the server ended the session
  leader,    \* what the process believes
  todo,      \* the rows the sweep fetched and has yet to handle
  row,       \* the row in hand: [s, tick, next]
  faults

vars == <<now, next, enqAt, lock, pc, conn, leader, todo, row, faults>>
local == <<pc, conn, leader, todo, row>>

Times == 0..MaxTime
NoRow == [s |-> None, tick |-> -1, next |-> -1]

Init ==
  /\ now = 0
  /\ next = First
  /\ enqAt = [s \in Schedules |-> [t \in Times |-> -1]]
  /\ lock = None
  /\ pc = [p \in Procs |-> "idle"]
  /\ conn = [p \in Procs |-> "none"]
  /\ leader = [p \in Procs |-> FALSE]
  /\ todo = [p \in Procs |-> {}]
  /\ row = [p \in Procs |-> NoRow]
  /\ faults = 0

-----------------------------------------------------------------------------
(* The loop of one process *)

Connect(p) ==
  /\ pc[p] = "idle" /\ conn[p] = "none"
  /\ conn' = [conn EXCEPT ![p] = "open"]
  /\ UNCHANGED <<now, next, enqAt, lock, pc, leader, todo, row, faults>>

\* Mutant: leadership without the lock.
TryLockIgnored(p) ==
  /\ pc[p] = "idle" /\ conn[p] = "open" /\ ~leader[p]
  /\ leader' = [leader EXCEPT ![p] = TRUE]
  /\ UNCHANGED <<now, next, enqAt, lock, pc, conn, todo, row, faults>>

TryLock(p) ==
  /\ pc[p] = "idle" /\ conn[p] = "open" /\ ~leader[p]
  /\ lock = None
  /\ lock' = p
  /\ leader' = [leader EXCEPT ![p] = TRUE]
  /\ UNCHANGED <<now, next, enqAt, pc, conn, todo, row, faults>>

\* run_due: the select of all due rows.
Select(p) ==
  /\ pc[p] = "idle" /\ conn[p] = "open" /\ leader[p]
  /\ todo' = [todo EXCEPT ![p] = {[s |-> s, tick |-> next[s]] :
                                    s \in {i \in Schedules : next[i] <= now}}]
  /\ pc' = [pc EXCEPT ![p] = "sweep"]
  /\ UNCHANGED <<now, next, enqAt, lock, conn, leader, row, faults>>

SweepDone(p) ==
  /\ pc[p] = "sweep" /\ todo[p] = {}
  /\ pc' = [pc EXCEPT ![p] = "idle"]
  /\ UNCHANGED <<now, next, enqAt, lock, conn, leader, todo, row, faults>>

\* Mutant: a tick whose job exists already is passed over.
EnqueueNew(p) ==
  /\ pc[p] = "sweep" /\ conn[p] = "open"
  /\ \E r \in todo[p] :
       /\ todo' = [todo EXCEPT ![p] = @ \ {r}]
       /\ IF enqAt[r.s][r.tick] = -1
          THEN /\ enqAt' = [enqAt EXCEPT ![r.s][r.tick] = now]
               /\ row' = [row EXCEPT ![p] = [s |-> r.s, tick |-> r.tick, next |-> -1]]
               /\ pc' = [pc EXCEPT ![p] = "clock"]
          ELSE UNCHANGED <<enqAt, row, pc>>
  /\ UNCHANGED <<now, next, lock, conn, leader, faults>>

\* jobs.enqueue, deduplicated on the key sched:{id}:{tick}, rows by next_run_at.
EnqueueTick(p) ==
  /\ pc[p] = "sweep" /\ conn[p] = "open"
  /\ \E r \in todo[p] :
       /\ \A q \in todo[p] : r.tick <= q.tick
       /\ enqAt' = IF enqAt[r.s][r.tick] = -1
                   THEN [enqAt EXCEPT ![r.s][r.tick] = now] ELSE enqAt
       /\ row' = [row EXCEPT ![p] = [s |-> r.s, tick |-> r.tick, next |-> -1]]
       /\ todo' = [todo EXCEPT ![p] = @ \ {r}]
  /\ pc' = [pc EXCEPT ![p] = "clock"]
  /\ UNCHANGED <<now, next, lock, conn, leader, faults>>

\* Mutants: the cadence restarts from now; one tick is caught up per sweep.
FromNow(s, tick, t) == t + Every[s]
OneTick(s, tick, t) == tick + Every[s]

\* The first tick of the lattice after t: missed ticks collapse.
PastNow(s, tick, t) == tick + Every[s] * ((t - tick) \div Every[s] + 1)

ReadClock(p) ==
  /\ pc[p] = "clock" /\ conn[p] = "open"
  /\ row' = [row EXCEPT ![p].next = PastNow(row[p].s, row[p].tick, now)]
  /\ pc' = [pc EXCEPT ![p] = "update"]
  /\ UNCHANGED <<now, next, enqAt, lock, conn, leader, todo, faults>>

Advance(p) ==
  /\ pc[p] = "update" /\ conn[p] = "open"
  /\ next' = [next EXCEPT ![row[p].s] = row[p].next]
  /\ row' = [row EXCEPT ![p] = NoRow]
  /\ pc' = [pc EXCEPT ![p] = "sweep"]
  /\ UNCHANGED <<now, enqAt, lock, conn, leader, todo, faults>>

\* Mutant: the connection is replaced and the sweep goes on.
ResetReconnects(p) ==
  /\ conn[p] = "lost"
  /\ conn' = [conn EXCEPT ![p] = "open"]
  /\ UNCHANGED <<now, next, enqAt, lock, pc, leader, todo, row, faults>>

\* Any statement on a lost session raises psycopg.Error: the sweep is dropped
\* where it stands and leadership is contested again.
Reset(p) ==
  /\ conn[p] = "lost"
  /\ pc[p] \in {"idle", "sweep", "clock", "update"}
  /\ conn' = [conn EXCEPT ![p] = "none"]
  /\ leader' = [leader EXCEPT ![p] = FALSE]
  /\ todo' = [todo EXCEPT ![p] = {}]
  /\ row' = [row EXCEPT ![p] = NoRow]
  /\ pc' = [pc EXCEPT ![p] = "idle"]
  /\ UNCHANGED <<now, next, enqAt, lock, faults>>

-----------------------------------------------------------------------------
(* The environment *)

\* The lock goes with the session, at once or when the server notices.
Unlock(p) == IF lock = p THEN lock' \in {None, "lingering"} ELSE UNCHANGED lock

SessionLost(p) ==
  /\ conn[p] = "open"
  /\ faults < MaxFaults
  /\ faults' = faults + 1
  /\ conn' = [conn EXCEPT ![p] = "lost"]
  /\ Unlock(p)
  /\ UNCHANGED <<now, next, enqAt, pc, leader, todo, row>>

\* The process is killed, or stopped between two turns of the loop.
Die(p) ==
  /\ pc[p] # "down"
  /\ faults < MaxFaults
  /\ faults' = faults + 1
  /\ pc' = [pc EXCEPT ![p] = "down"]
  /\ conn' = [conn EXCEPT ![p] = "none"]
  /\ leader' = [leader EXCEPT ![p] = FALSE]
  /\ todo' = [todo EXCEPT ![p] = {}]
  /\ row' = [row EXCEPT ![p] = NoRow]
  /\ Unlock(p)
  /\ UNCHANGED <<now, next, enqAt>>

Restart(p) ==
  /\ pc[p] = "down"
  /\ pc' = [pc EXCEPT ![p] = "idle"]
  /\ UNCHANGED <<now, next, enqAt, lock, conn, leader, todo, row, faults>>

ServerNotices ==
  /\ lock = "lingering"
  /\ lock' = None
  /\ UNCHANGED <<now, next, enqAt, local, faults>>

Tick ==
  /\ now < MaxTime
  /\ now' = now + 1
  /\ UNCHANGED <<next, enqAt, lock, local, faults>>

Step(p) == \/ Connect(p) \/ TryLock(p) \/ Select(p) \/ SweepDone(p)
           \/ EnqueueTick(p) \/ ReadClock(p) \/ Advance(p) \/ Reset(p)
           \/ Restart(p)

Next ==
  \/ \E p \in Procs : Step(p)
  \/ \E p \in Procs : SessionLost(p)
  \/ \E p \in Procs : Die(p)
  \/ ServerNotices
  \/ Tick

Spec == Init /\ [][Next]_vars

\* The loop keeps turning, the platform restarts the process and TCP
\* keepalives end a session whose client is gone.  WF suffices for TryLock:
\* once taken, the lock is freed only by a fault.
Fairness == /\ \A p \in Procs : WF_vars(Step(p))
            /\ WF_vars(ServerNotices)

FairSpec == Spec /\ Fairness

-----------------------------------------------------------------------------
(* Properties *)

Enqueued(s) == {t \in Times : enqAt[s][t] # -1}

TypeOK ==
  /\ now \in Times
  /\ next \in [Schedules -> Nat]
  /\ enqAt \in [Schedules -> [Times -> Times \union {-1}]]
  /\ lock \in Procs \union {None, "lingering"}
  /\ pc \in [Procs -> {"idle", "sweep", "clock", "update", "down"}]
  /\ conn \in [Procs -> {"none", "open", "lost"}]
  /\ leader \in [Procs -> BOOLEAN]
  /\ todo \in [Procs -> SUBSET [s : Schedules, tick : Times]]
  /\ row \in [Procs -> [s : Schedules, tick : Times, next : Nat \union {-1}]
                       \union {NoRow}]
  /\ faults \in 0..MaxFaults

\* At most one process can still execute statements in the belief of being
\* the leader: belief and lock part only where the session is gone.
OneEffectiveLeader ==
  \A p \in Procs : leader[p] /\ conn[p] = "open" => lock = p

\* Downtime produces one late run, never a burst: the job of a later tick is
\* for a tick that came after the previous job was inserted.
NeverABurst ==
  \A s \in Schedules : \A t, u \in Enqueued(s) : t < u => enqAt[s][t] < u

\* The cadence never drifts: next_run_at and every enqueued tick stay on the
\* lattice of the first run, however late the sweeps are.
OnTheLattice ==
  \A s \in Schedules : \A t \in Enqueued(s) \union {next[s]} :
    t >= First[s] /\ (t - First[s]) % Every[s] = 0

\* next_run_at moves only forward, past the time it was read at, and never
\* past a tick whose job was not inserted: a sweep cut short at any statement
\* loses no run, and a deposed leader cannot undo its successor's advance.
AdvanceIsSafe ==
  [][\A s \in Schedules : next'[s] # next[s] =>
       /\ next'[s] > next[s]
       /\ next[s] \in Enqueued(s)]_vars

\* Every due schedule is eventually served and moved past the clock, through
\* lost sessions, deaths of processes and sessions that linger.
DueIsServed ==
  \A s \in Schedules : next[s] <= now ~> next[s] > now

=============================================================================
