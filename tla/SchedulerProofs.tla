--------------------------- MODULE SchedulerProofs ---------------------------
(* Proofs about the scheduler, for any schedules, processes and cadences. *)
EXTENDS Scheduler, TLAPS

-----------------------------------------------------------------------------
(* The inductive invariant *)

Effective(p) == leader[p] /\ conn[p] = "open"

\* A sweep is run by a process that believes to lead, on a session it opened.
BeliefInv ==
  \A p \in Procs :
    /\ conn[p] = "none" => ~leader[p]
    /\ pc[p] \in {"idle", "down"} => todo[p] = {}
    /\ pc[p] \in {"sweep", "clock", "update"} => leader[p]
    /\ pc[p] \in {"clock", "update"} => row[p].s \in Schedules

\* What an effective leader has fetched is still what the table holds, and the
\* row in hand is no longer among the rows to come.
FetchedIsCurrent ==
  \A p \in Procs : Effective(p) =>
    /\ \A r \in todo[p] : r.tick = next[r.s] /\ r.tick <= now
    /\ pc[p] \in {"clock", "update"} =>
         /\ row[p].tick = next[row[p].s] /\ row[p].tick <= now
         /\ row[p].tick \in Enqueued(row[p].s)
         /\ \A r \in todo[p] : r.s # row[p].s

\* The advance that an effective leader is about to make is past the insertion
\* of the tick's job and stays on the lattice.
AdvanceInv ==
  \A p \in Procs : Effective(p) /\ pc[p] = "update" =>
    /\ row[p].next > enqAt[row[p].s][row[p].tick]
    /\ row[p].next > row[p].tick
    /\ (row[p].next - First[row[p].s]) % Every[row[p].s] = 0

\* No job is inserted ahead of next_run_at, and next_run_at is past the
\* insertion of every job of an earlier tick.
EnqueuedInv ==
  \A s \in Schedules : \A t \in Enqueued(s) :
    /\ t <= next[s]
    /\ enqAt[s][t] <= now
    /\ t < next[s] => enqAt[s][t] < next[s]

IInv == /\ TypeOK /\ BeliefInv /\ OneEffectiveLeader /\ FetchedIsCurrent
        /\ AdvanceInv /\ EnqueuedInv /\ NeverABurst /\ OnTheLattice

-----------------------------------------------------------------------------
(* The arithmetic of the lattice *)

\* Division with remainder.
LEMMA Division ==
  ASSUME NEW a \in Int, NEW e \in Nat \ {0}
  PROVE  /\ a \div e \in Int
         /\ a % e \in 0..(e - 1)
         /\ a = e * (a \div e) + (a % e)
OBVIOUS

\* A multiple of e leaves no remainder.
LEMMA MultipleLeavesNone ==
  ASSUME NEW e \in Nat \ {0}, NEW k \in Int
  PROVE  (e * k) % e = 0
OBVIOUS

\* A number of the lattice stays on it when multiples of e are added.
LEMMA LatticeShift ==
  ASSUME NEW a \in Int, NEW e \in Nat \ {0}, NEW k \in Int, a % e = 0
  PROVE  (a + e * k) % e = 0
<1>1. a = e * (a \div e) /\ a \div e \in Int
  BY Division
<1>2. a + e * k = e * (a \div e + k)
  BY <1>1
<1>3. (e * (a \div e + k)) % e = 0
  BY <1>1, MultipleLeavesNone
<1>. QED
  BY <1>2, <1>3

\* The multiple of e that comes after d.
LEMMA NextMultiple ==
  ASSUME NEW d \in Nat, NEW e \in Nat \ {0}
  PROVE  /\ d \div e + 1 \in Int
         /\ e * (d \div e + 1) \in Nat
         /\ e * (d \div e + 1) > d
OBVIOUS

\* past_now returns a tick of the lattice after the clock and after the tick.
LEMMA PastNowIsNext ==
  ASSUME NEW s \in Schedules, NEW tick \in Nat, NEW t \in Nat, tick <= t,
         (tick - First[s]) % Every[s] = 0
  PROVE  /\ PastNow(s, tick, t) \in Nat
         /\ PastNow(s, tick, t) > t
         /\ PastNow(s, tick, t) > tick
         /\ (PastNow(s, tick, t) - First[s]) % Every[s] = 0
<1>1. Every[s] \in Nat \ {0} /\ First[s] \in Nat /\ t - tick \in Nat
  BY SchedulerAssumption
<1>2. PICK m : m = Every[s] * ((t - tick) \div Every[s] + 1)
  OBVIOUS
<1>3. m \in Nat /\ m > t - tick
  BY <1>1, <1>2, NextMultiple
<1>4. PastNow(s, tick, t) = tick + m
  BY <1>2 DEF PastNow
<1>5. ((tick - First[s]) + m) % Every[s] = 0
  <2>1. (t - tick) \div Every[s] + 1 \in Int /\ tick - First[s] \in Int
    BY <1>1, NextMultiple
  <2>. QED
    BY <1>1, <1>2, <2>1, LatticeShift
<1>6. (tick - First[s]) + m = tick + m - First[s]
  BY <1>1, <1>3
<1>. QED
  BY <1>1, <1>3, <1>4, <1>5, <1>6

-----------------------------------------------------------------------------
(* The steps, one lemma for each part of the invariant *)

\* Before the first turn of any loop nothing is fetched and nothing enqueued.
LEMMA InitInv == Init => IInv
<1>. SUFFICES ASSUME Init PROVE IInv
  OBVIOUS
<1>. USE SchedulerAssumption DEF Init
<1>1. TypeOK
  BY DEF TypeOK, Times
<1>2. BeliefInv /\ OneEffectiveLeader /\ FetchedIsCurrent /\ AdvanceInv
  BY DEF BeliefInv, OneEffectiveLeader, FetchedIsCurrent, AdvanceInv, Effective
<1>3. \A s \in Schedules : Enqueued(s) = {}
  BY DEF Enqueued
<1>4. EnqueuedInv /\ NeverABurst
  BY <1>3 DEF EnqueuedInv, NeverABurst
<1>5. \A s \in Schedules : (First[s] - First[s]) % Every[s] = 0
  <2>. SUFFICES ASSUME NEW s \in Schedules
                PROVE  (First[s] - First[s]) % Every[s] = 0
    OBVIOUS
  <2>1. Every[s] \in Nat \ {0} /\ First[s] - First[s] = Every[s] * 0
    OBVIOUS
  <2>. QED
    BY <2>1, MultipleLeavesNone
<1>6. OnTheLattice
  BY <1>3, <1>5 DEF OnTheLattice
<1>. QED
  BY <1>1, <1>2, <1>4, <1>6 DEF IInv

Rows == [s : Schedules, tick : Times, next : Nat \union {-1}]

\* Between the insertion of a job and the advance a process has a row in hand.
LEMMA RowInHand ==
  ASSUME IInv, NEW p \in Procs, pc[p] \in {"clock", "update"}
  PROVE  row[p] \in Rows
BY SchedulerAssumption DEF IInv, TypeOK, BeliefInv, NoRow, Rows

\* The row an effective leader reads the clock for is one it may advance.
LEMMA ClockRow ==
  ASSUME IInv, NEW p \in Procs, pc[p] = "clock", conn[p] = "open"
  PROVE  /\ Effective(p)
         /\ row[p].s \in Schedules /\ row[p].tick \in Times
         /\ row[p].tick <= now
         /\ PastNow(row[p].s, row[p].tick, now) \in Nat
         /\ PastNow(row[p].s, row[p].tick, now) > now
         /\ PastNow(row[p].s, row[p].tick, now) > row[p].tick
         /\ (PastNow(row[p].s, row[p].tick, now) - First[row[p].s])
              % Every[row[p].s] = 0
<1>. USE SchedulerAssumption DEF IInv
<1>1. Effective(p) /\ row[p].s \in Schedules
  BY DEF BeliefInv, Effective
<1>2. row[p].tick \in Enqueued(row[p].s) /\ row[p].tick = next[row[p].s]
  BY <1>1 DEF FetchedIsCurrent
<1>3. row[p].tick \in Times /\ now \in Nat /\ row[p].tick \in Nat
  BY <1>2 DEF Enqueued, TypeOK, Times
<1>4. enqAt[row[p].s][row[p].tick] \in Nat
  BY <1>1, <1>2, <1>3 DEF Enqueued, TypeOK, Times
<1>5. (row[p].tick - First[row[p].s]) % Every[row[p].s] = 0
  BY <1>1, <1>2 DEF OnTheLattice
<1>6. row[p].tick <= now
  BY <1>1 DEF FetchedIsCurrent
<1>. QED
  BY <1>1, <1>3, <1>5, <1>6, PastNowIsNext

\* Reading the clock fills in the row in hand of one process.
LEMMA ReadClockRow ==
  ASSUME IInv, NEW p \in Procs, ReadClock(p)
  PROVE  /\ row'[p] \in Rows
         /\ row'[p].s = row[p].s /\ row'[p].tick = row[p].tick
         /\ row'[p].next = PastNow(row[p].s, row[p].tick, now)
         /\ \A q \in Procs \ {p} : row'[q] = row[q]
         /\ row' \in [Procs -> Rows \union {NoRow}]
<1>1. row \in [Procs -> Rows \union {NoRow}] /\ row[p] \in Rows
  BY RowInHand DEF IInv, TypeOK, ReadClock, Rows
<1>2. PICK n \in Nat : n = PastNow(row[p].s, row[p].tick, now)
  BY ClockRow DEF ReadClock
<1>3. row' = [row EXCEPT ![p].next = n]
  BY <1>2 DEF ReadClock
<1>. QED
  BY <1>1, <1>2, <1>3 DEF Rows

\* What an effective leader takes in hand is a row of its sweep, whose job then
\* exists, and no row of the same schedule is left in the sweep.
LEMMA EnqueueTickRow ==
  ASSUME IInv, NEW p \in Procs, EnqueueTick(p)
  PROVE  /\ Effective(p)
         /\ row'[p].s \in Schedules /\ row'[p].tick \in Times
         /\ row'[p].tick = next[row'[p].s] /\ row'[p].tick <= now
         /\ enqAt'[row'[p].s][row'[p].tick] # -1
         /\ todo'[p] \subseteq todo[p]
         /\ \A r \in todo'[p] : r.s # row'[p].s
<1>1. PICK r \in todo[p] :
        /\ enqAt' = IF enqAt[r.s][r.tick] = -1
                    THEN [enqAt EXCEPT ![r.s][r.tick] = now] ELSE enqAt
        /\ row' = [row EXCEPT ![p] = [s |-> r.s, tick |-> r.tick, next |-> -1]]
        /\ todo' = [todo EXCEPT ![p] = @ \ {r}]
  BY DEF EnqueueTick
<1>2. Effective(p)
  BY DEF EnqueueTick, IInv, BeliefInv, Effective
<1>3. todo[p] \subseteq [s : Schedules, tick : Times] /\ r \in [s : Schedules, tick : Times]
  BY DEF IInv, TypeOK
<1>4. /\ r.s \in Schedules /\ r.tick \in Times
      /\ r.tick = next[r.s] /\ r.tick <= now
  BY <1>2, <1>3 DEF IInv, FetchedIsCurrent
<1>5. row'[p].s = r.s /\ row'[p].tick = r.tick
  BY <1>1 DEF IInv, TypeOK
<1>6. todo'[p] = todo[p] \ {r}
  BY <1>1 DEF IInv, TypeOK
<1>7. ASSUME NEW q \in todo[p], q.s = r.s PROVE q = r
  <2>1. q.tick = r.tick
    BY <1>2, <1>4, <1>7 DEF IInv, FetchedIsCurrent
  <2>. QED
    BY <1>3, <1>7, <2>1
<1>8. enqAt'[r.s][r.tick] # -1
  <2>1. enqAt \in [Schedules -> [Times -> Times \union {-1}]] /\ now >= 0
    BY DEF IInv, TypeOK, Times
  <2>. QED
    BY <1>1, <1>4, <2>1
<1>. QED
  BY <1>2, <1>4, <1>5, <1>6, <1>7, <1>8

\* An effective leader advances one schedule, from the tick in hand.
LEMMA AdvanceRow ==
  ASSUME IInv, NEW p \in Procs, Advance(p)
  PROVE  LET s == row[p].s IN
         /\ Effective(p) /\ s \in Schedules /\ next[s] \in Enqueued(s)
         /\ row[p].next > next[s] /\ row[p].next > enqAt[s][next[s]]
         /\ row[p].next \in Nat
         /\ next' = [next EXCEPT ![s] = row[p].next]
<1>1. Effective(p) /\ row[p].s \in Schedules
  BY DEF Advance, IInv, BeliefInv, Effective
<1>2. /\ row[p].next > row[p].tick
      /\ row[p].next > enqAt[row[p].s][row[p].tick]
      /\ row[p].tick = next[row[p].s]
      /\ row[p].tick \in Enqueued(row[p].s)
  BY <1>1 DEF Advance, IInv, AdvanceInv, FetchedIsCurrent
<1>3. row[p].next \in Nat
  BY <1>2, RowInHand DEF Advance, Rows, Times
<1>. QED
  BY <1>1, <1>2, <1>3 DEF Advance

\* Every step keeps the types: only a tick that is due is in hand, and past_now
\* returns a time.
LEMMA TypeStep == IInv /\ [Next]_vars => TypeOK'
<1>. SUFFICES ASSUME IInv, [Next]_vars PROVE TypeOK'
  OBVIOUS
<1>. USE SchedulerAssumption DEF IInv, TypeOK, Times
<1>1. CASE \E p \in Procs : Connect(p)
  BY <1>1 DEF Connect
<1>2. CASE \E p \in Procs : TryLock(p)
  BY <1>2 DEF TryLock
<1>3. CASE \E p \in Procs : Select(p)
  BY <1>3 DEF Select
<1>4. CASE \E p \in Procs : SweepDone(p)
  BY <1>4 DEF SweepDone
<1>5. CASE \E p \in Procs : EnqueueTick(p)
  BY <1>5 DEF EnqueueTick
<1>6. ASSUME NEW p \in Procs, ReadClock(p) PROVE TypeOK'
  BY <1>6, ReadClockRow DEF ReadClock, Rows
<1>7. ASSUME NEW p \in Procs, Advance(p) PROVE TypeOK'
  BY <1>7, AdvanceRow DEF Advance
<1>8. CASE \E p \in Procs : Reset(p)
  BY <1>8 DEF Reset
<1>9. CASE \E p \in Procs : Restart(p)
  BY <1>9 DEF Restart
<1>10. CASE \E p \in Procs : SessionLost(p)
  BY <1>10 DEF SessionLost, Unlock
<1>11. CASE \E p \in Procs : Die(p)
  BY <1>11 DEF Die, Unlock
<1>12. CASE ServerNotices
  BY <1>12 DEF ServerNotices, local
<1>13. CASE Tick
  BY <1>13 DEF Tick, local
<1>14. CASE UNCHANGED vars
  BY <1>14 DEF vars
<1>. QED
  BY <1>1, <1>2, <1>3, <1>4, <1>5, <1>6, <1>7, <1>8,
     <1>9, <1>10, <1>11, <1>12, <1>13, <1>14
     DEF Next, Step

\* A process sweeps only after it took the lock, and forgets all when it resets.
LEMMA BeliefStep == IInv /\ [Next]_vars => BeliefInv'
<1>. SUFFICES ASSUME IInv, [Next]_vars PROVE BeliefInv'
  OBVIOUS
<1>. USE SchedulerAssumption DEF IInv, TypeOK, BeliefInv
<1>1. CASE \E p \in Procs : Connect(p)
  BY <1>1 DEF Connect
<1>2. CASE \E p \in Procs : TryLock(p)
  BY <1>2 DEF TryLock
<1>3. CASE \E p \in Procs : Select(p)
  BY <1>3 DEF Select
<1>4. CASE \E p \in Procs : SweepDone(p)
  BY <1>4 DEF SweepDone
<1>5. CASE \E p \in Procs : EnqueueTick(p)
  BY <1>5 DEF EnqueueTick
<1>6. CASE \E p \in Procs : ReadClock(p)
  BY <1>6 DEF ReadClock
<1>7. CASE \E p \in Procs : Advance(p)
  BY <1>7 DEF Advance
<1>8. CASE \E p \in Procs : Reset(p)
  BY <1>8 DEF Reset
<1>9. CASE \E p \in Procs : Restart(p)
  BY <1>9 DEF Restart
<1>10. CASE \E p \in Procs : SessionLost(p)
  BY <1>10 DEF SessionLost, Unlock
<1>11. CASE \E p \in Procs : Die(p)
  BY <1>11 DEF Die, Unlock
<1>12. CASE ServerNotices
  BY <1>12 DEF ServerNotices, local
<1>13. CASE Tick
  BY <1>13 DEF Tick, local
<1>14. CASE UNCHANGED vars
  BY <1>14 DEF vars
<1>. QED
  BY <1>1, <1>2, <1>3, <1>4, <1>5, <1>6, <1>7, <1>8,
     <1>9, <1>10, <1>11, <1>12, <1>13, <1>14
     DEF Next, Step

\* The lock leaves an effective leader only together with its session.
LEMMA LeaderStep == IInv /\ [Next]_vars => OneEffectiveLeader'
<1>. SUFFICES ASSUME IInv, [Next]_vars PROVE OneEffectiveLeader'
  OBVIOUS
<1>. USE SchedulerAssumption DEF IInv, TypeOK, BeliefInv, OneEffectiveLeader
<1>1. CASE \E p \in Procs : Connect(p)
  BY <1>1 DEF Connect
<1>2. CASE \E p \in Procs : TryLock(p)
  BY <1>2 DEF TryLock
<1>3. CASE \E p \in Procs : Select(p)
  BY <1>3 DEF Select
<1>4. CASE \E p \in Procs : SweepDone(p)
  BY <1>4 DEF SweepDone
<1>5. CASE \E p \in Procs : EnqueueTick(p)
  BY <1>5 DEF EnqueueTick
<1>6. CASE \E p \in Procs : ReadClock(p)
  BY <1>6 DEF ReadClock
<1>7. CASE \E p \in Procs : Advance(p)
  BY <1>7 DEF Advance
<1>8. CASE \E p \in Procs : Reset(p)
  BY <1>8 DEF Reset
<1>9. CASE \E p \in Procs : Restart(p)
  BY <1>9 DEF Restart
<1>10. CASE \E p \in Procs : SessionLost(p)
  BY <1>10 DEF SessionLost, Unlock
<1>11. CASE \E p \in Procs : Die(p)
  BY <1>11 DEF Die, Unlock
<1>12. CASE ServerNotices
  BY <1>12 DEF ServerNotices, local
<1>13. CASE Tick
  BY <1>13 DEF Tick, local
<1>14. CASE UNCHANGED vars
  BY <1>14 DEF vars
<1>. QED
  BY <1>1, <1>2, <1>3, <1>4, <1>5, <1>6, <1>7, <1>8,
     <1>9, <1>10, <1>11, <1>12, <1>13, <1>14
     DEF Next, Step

\* Only the effective leader, of which there is one, moves next_run_at.
LEMMA FetchedStep == IInv /\ [Next]_vars => FetchedIsCurrent'
<1>. SUFFICES ASSUME IInv, [Next]_vars PROVE FetchedIsCurrent'
  OBVIOUS
<1>. USE SchedulerAssumption
  DEF IInv, TypeOK, BeliefInv, OneEffectiveLeader, FetchedIsCurrent, Effective,
      Enqueued, Times
<1>1. CASE \E p \in Procs : Connect(p)
  BY <1>1 DEF Connect
<1>2. CASE \E p \in Procs : TryLock(p)
  BY <1>2 DEF TryLock
<1>3. CASE \E p \in Procs : Select(p)
  BY <1>3 DEF Select
<1>4. CASE \E p \in Procs : SweepDone(p)
  BY <1>4 DEF SweepDone
<1>5. ASSUME NEW p \in Procs, EnqueueTick(p) PROVE FetchedIsCurrent'
  <2>1. UNCHANGED <<now, next, conn, leader>>
    BY <1>5 DEF EnqueueTick
  <2>2. \A q \in Procs : Effective(q) => q = p
    BY <1>5, EnqueueTickRow
  <2>. QED
    BY <1>5, <2>1, <2>2, EnqueueTickRow, SMTT(30)
<1>6. CASE \E p \in Procs : ReadClock(p)
  BY <1>6 DEF ReadClock
<1>7. CASE \E p \in Procs : Advance(p)
  BY <1>7 DEF Advance
<1>8. CASE \E p \in Procs : Reset(p)
  BY <1>8 DEF Reset
<1>9. CASE \E p \in Procs : Restart(p)
  BY <1>9 DEF Restart
<1>10. CASE \E p \in Procs : SessionLost(p)
  BY <1>10 DEF SessionLost, Unlock
<1>11. CASE \E p \in Procs : Die(p)
  BY <1>11 DEF Die, Unlock
<1>12. CASE ServerNotices
  BY <1>12 DEF ServerNotices, local
<1>13. CASE Tick
  BY <1>13 DEF Tick, local
<1>14. CASE UNCHANGED vars
  BY <1>14 DEF vars
<1>. QED
  BY <1>1, <1>2, <1>3, <1>4, <1>5, <1>6, <1>7, <1>8,
     <1>9, <1>10, <1>11, <1>12, <1>13, <1>14
     DEF Next, Step

\* The clock is read after the tick's job was inserted.
LEMMA AdvanceStep == IInv /\ [Next]_vars => AdvanceInv'
<1>. SUFFICES ASSUME IInv, [Next]_vars PROVE AdvanceInv'
  OBVIOUS
<1>. USE SchedulerAssumption
  DEF IInv, TypeOK, BeliefInv, OneEffectiveLeader, FetchedIsCurrent,
      AdvanceInv, Effective, Enqueued, EnqueuedInv, Times
<1>1. CASE \E p \in Procs : Connect(p)
  BY <1>1 DEF Connect
<1>2. CASE \E p \in Procs : TryLock(p)
  BY <1>2 DEF TryLock
<1>3. CASE \E p \in Procs : Select(p)
  BY <1>3 DEF Select
<1>4. CASE \E p \in Procs : SweepDone(p)
  BY <1>4 DEF SweepDone
<1>5. CASE \E p \in Procs : EnqueueTick(p)
  BY <1>5 DEF EnqueueTick
<1>6. ASSUME NEW p \in Procs, ReadClock(p) PROVE AdvanceInv'
  <2>1. enqAt[row[p].s][row[p].tick] <= now
    BY <1>6 DEF ReadClock
  <2>2. /\ PastNow(row[p].s, row[p].tick, now) > enqAt[row[p].s][row[p].tick]
        /\ PastNow(row[p].s, row[p].tick, now) > row[p].tick
        /\ (PastNow(row[p].s, row[p].tick, now) - First[row[p].s])
             % Every[row[p].s] = 0
    BY <1>6, <2>1, ClockRow, SMTT(30) DEF ReadClock
  <2>. QED
    BY <1>6, <2>2, ReadClockRow, SMTT(30) DEF ReadClock
<1>7. CASE \E p \in Procs : Advance(p)
  BY <1>7 DEF Advance
<1>8. CASE \E p \in Procs : Reset(p)
  BY <1>8 DEF Reset
<1>9. CASE \E p \in Procs : Restart(p)
  BY <1>9 DEF Restart
<1>10. CASE \E p \in Procs : SessionLost(p)
  BY <1>10 DEF SessionLost, Unlock
<1>11. CASE \E p \in Procs : Die(p)
  BY <1>11 DEF Die, Unlock
<1>12. CASE ServerNotices
  BY <1>12 DEF ServerNotices, local
<1>13. CASE Tick
  BY <1>13 DEF Tick, local
<1>14. CASE UNCHANGED vars
  BY <1>14 DEF vars
<1>. QED
  BY <1>1, <1>2, <1>3, <1>4, <1>5, <1>6, <1>7, <1>8,
     <1>9, <1>10, <1>11, <1>12, <1>13, <1>14
     DEF Next, Step

\* A job is inserted for the tick that next_run_at shows, and next_run_at moves
\* past its insertion.
LEMMA EnqueuedStep == IInv /\ [Next]_vars => EnqueuedInv'
<1>. SUFFICES ASSUME IInv, [Next]_vars PROVE EnqueuedInv'
  OBVIOUS
<1>. USE SchedulerAssumption
  DEF IInv, TypeOK, BeliefInv, OneEffectiveLeader, FetchedIsCurrent,
      AdvanceInv, Effective, Enqueued, EnqueuedInv, Times
<1>1. CASE \E p \in Procs : Connect(p)
  BY <1>1 DEF Connect
<1>2. CASE \E p \in Procs : TryLock(p)
  BY <1>2 DEF TryLock
<1>3. CASE \E p \in Procs : Select(p)
  BY <1>3 DEF Select
<1>4. CASE \E p \in Procs : SweepDone(p)
  BY <1>4 DEF SweepDone
<1>5. CASE \E p \in Procs : EnqueueTick(p)
  BY <1>5 DEF EnqueueTick
<1>6. CASE \E p \in Procs : ReadClock(p)
  BY <1>6 DEF ReadClock
<1>7. ASSUME NEW p \in Procs, Advance(p) PROVE EnqueuedInv'
  <2>. SUFFICES ASSUME NEW i \in Schedules, NEW t \in Enqueued(i)
                PROVE  /\ t <= next'[i] /\ enqAt[i][t] <= now
                       /\ t < next'[i] => enqAt[i][t] < next'[i]
    BY <1>7 DEF Advance
  <2>1. CASE i = row[p].s
    <3>1. /\ next'[i] > next[i] /\ next'[i] > enqAt[i][next[i]]
          /\ next[i] \in Nat /\ next'[i] \in Nat
      BY <1>7, <2>1, AdvanceRow, SMTT(30)
    <3>2. t \in Nat /\ enqAt[i][t] \in Int /\ t <= next[i] /\ enqAt[i][t] <= now
      OBVIOUS
    <3>3. t = next[i] \/ enqAt[i][t] < next[i]
      BY <3>1, <3>2
    <3>. QED
      BY <3>1, <3>2, <3>3
  <2>2. CASE i # row[p].s
    BY <1>7, <2>2, AdvanceRow
  <2>. QED
    BY <2>1, <2>2
<1>8. CASE \E p \in Procs : Reset(p)
  BY <1>8 DEF Reset
<1>9. CASE \E p \in Procs : Restart(p)
  BY <1>9 DEF Restart
<1>10. CASE \E p \in Procs : SessionLost(p)
  BY <1>10 DEF SessionLost, Unlock
<1>11. CASE \E p \in Procs : Die(p)
  BY <1>11 DEF Die, Unlock
<1>12. CASE ServerNotices
  BY <1>12 DEF ServerNotices, local
<1>13. CASE Tick
  BY <1>13 DEF Tick, local
<1>14. CASE UNCHANGED vars
  BY <1>14 DEF vars
<1>. QED
  BY <1>1, <1>2, <1>3, <1>4, <1>5, <1>6, <1>7, <1>8,
     <1>9, <1>10, <1>11, <1>12, <1>13, <1>14
     DEF Next, Step

\* The tick that is inserted is the latest of its schedule.
LEMMA BurstStep == IInv /\ [Next]_vars => NeverABurst'
<1>. SUFFICES ASSUME IInv, [Next]_vars PROVE NeverABurst'
  OBVIOUS
<1>. USE SchedulerAssumption
  DEF IInv, TypeOK, BeliefInv, FetchedIsCurrent, Effective, Enqueued,
      EnqueuedInv, NeverABurst, Times
<1>1. CASE \E p \in Procs : Connect(p)
  BY <1>1 DEF Connect
<1>2. CASE \E p \in Procs : TryLock(p)
  BY <1>2 DEF TryLock
<1>3. CASE \E p \in Procs : Select(p)
  BY <1>3 DEF Select
<1>4. CASE \E p \in Procs : SweepDone(p)
  BY <1>4 DEF SweepDone
<1>5. CASE \E p \in Procs : EnqueueTick(p)
  BY <1>5 DEF EnqueueTick
<1>6. CASE \E p \in Procs : ReadClock(p)
  BY <1>6 DEF ReadClock
<1>7. CASE \E p \in Procs : Advance(p)
  BY <1>7 DEF Advance
<1>8. CASE \E p \in Procs : Reset(p)
  BY <1>8 DEF Reset
<1>9. CASE \E p \in Procs : Restart(p)
  BY <1>9 DEF Restart
<1>10. CASE \E p \in Procs : SessionLost(p)
  BY <1>10 DEF SessionLost, Unlock
<1>11. CASE \E p \in Procs : Die(p)
  BY <1>11 DEF Die, Unlock
<1>12. CASE ServerNotices
  BY <1>12 DEF ServerNotices, local
<1>13. CASE Tick
  BY <1>13 DEF Tick, local
<1>14. CASE UNCHANGED vars
  BY <1>14 DEF vars
<1>. QED
  BY <1>1, <1>2, <1>3, <1>4, <1>5, <1>6, <1>7, <1>8,
     <1>9, <1>10, <1>11, <1>12, <1>13, <1>14
     DEF Next, Step

\* next_run_at moves along the lattice, and jobs are inserted where it stood.
LEMMA LatticeStep == IInv /\ [Next]_vars => OnTheLattice'
<1>. SUFFICES ASSUME IInv, [Next]_vars PROVE OnTheLattice'
  OBVIOUS
<1>. USE SchedulerAssumption
  DEF IInv, TypeOK, BeliefInv, FetchedIsCurrent, AdvanceInv, Effective,
      Enqueued, EnqueuedInv, OnTheLattice, Times
<1>1. CASE \E p \in Procs : Connect(p)
  BY <1>1 DEF Connect
<1>2. CASE \E p \in Procs : TryLock(p)
  BY <1>2 DEF TryLock
<1>3. CASE \E p \in Procs : Select(p)
  BY <1>3 DEF Select
<1>4. CASE \E p \in Procs : SweepDone(p)
  BY <1>4 DEF SweepDone
<1>5. CASE \E p \in Procs : EnqueueTick(p)
  BY <1>5 DEF EnqueueTick
<1>6. CASE \E p \in Procs : ReadClock(p)
  BY <1>6 DEF ReadClock
<1>7. CASE \E p \in Procs : Advance(p)
  BY <1>7 DEF Advance
<1>8. CASE \E p \in Procs : Reset(p)
  BY <1>8 DEF Reset
<1>9. CASE \E p \in Procs : Restart(p)
  BY <1>9 DEF Restart
<1>10. CASE \E p \in Procs : SessionLost(p)
  BY <1>10 DEF SessionLost, Unlock
<1>11. CASE \E p \in Procs : Die(p)
  BY <1>11 DEF Die, Unlock
<1>12. CASE ServerNotices
  BY <1>12 DEF ServerNotices, local
<1>13. CASE Tick
  BY <1>13 DEF Tick, local
<1>14. CASE UNCHANGED vars
  BY <1>14 DEF vars
<1>. QED
  BY <1>1, <1>2, <1>3, <1>4, <1>5, <1>6, <1>7, <1>8,
     <1>9, <1>10, <1>11, <1>12, <1>13, <1>14
     DEF Next, Step

-----------------------------------------------------------------------------
(* What holds of every run of the scheduler *)

\* IInv is an invariant of the scheduler.
THEOREM InductiveInvariant == Spec => []IInv
<1>1. IInv /\ [Next]_vars => IInv'
  BY TypeStep, BeliefStep, LeaderStep, FetchedStep, AdvanceStep, EnqueuedStep,
     BurstStep, LatticeStep DEF IInv
<1>. QED
  BY InitInv, <1>1, PTL DEF Spec

\* The table, the lock and the loops keep their types.
THEOREM Typing == Spec => []TypeOK
BY InductiveInvariant, PTL DEF IInv

\* No two processes can execute statements as the leader.
THEOREM OneLeader == Spec => []OneEffectiveLeader
BY InductiveInvariant, PTL DEF IInv

\* However long a schedule was not served, its missed ticks collapse into one.
THEOREM MissedTicksCollapse == Spec => []NeverABurst
BY InductiveInvariant, PTL DEF IInv

\* The cadence does not drift, however late each sweep is.
THEOREM CadenceNeverDrifts == Spec => []OnTheLattice
BY InductiveInvariant, PTL DEF IInv

\* Each advance leaves a tick whose job exists, for a later one.
THEOREM AdvancesAreSafe == Spec => AdvanceIsSafe
<1>1. ASSUME IInv, [Next]_vars, NEW s \in Schedules, next'[s] # next[s]
      PROVE  next'[s] > next[s] /\ next[s] \in Enqueued(s)
  <2>1. CASE next' = next
    BY <1>1, <2>1
  <2>2. ASSUME NEW p \in Procs, Advance(p)
        PROVE  next'[s] > next[s] /\ next[s] \in Enqueued(s)
    <3>1. next \in [Schedules -> Nat]
      BY <1>1 DEF IInv, TypeOK
    <3>2. s = row[p].s
      BY <1>1, <2>2, <3>1, AdvanceRow
    <3>. QED
      BY <1>1, <2>2, <3>1, <3>2, AdvanceRow
  <2>. QED
    BY <1>1, <2>1, <2>2
    DEF Next, Step, Connect, TryLock, Select, SweepDone, EnqueueTick,
       ReadClock,
        Reset, Restart, SessionLost, Die, ServerNotices, Tick, vars
<1>2. IInv /\ [Next]_vars =>
        [\A s \in Schedules : next'[s] # next[s] =>
           /\ next'[s] > next[s]
           /\ next[s] \in Enqueued(s)]_vars
  BY <1>1
<1>. QED
  BY InductiveInvariant, <1>2, PTL DEF Spec, AdvanceIsSafe

=============================================================================
