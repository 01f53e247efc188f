--------------------------- MODULE SpendRailProofs ---------------------------
(* Proofs about the spend rail, for any jobs, prices, cap and calendar. *)
EXTENDS SpendRail, TLAPS

-----------------------------------------------------------------------------
(* The inductive invariant *)

StateInv ==
  /\ month \in 1..Months
  /\ ledger \in [1..Months -> Nat]
  /\ state \in [Jobs -> {"absent", "queued", "open", "done", "dead"}]
  /\ attempts \in [Jobs -> Nat]
  /\ began \in [Jobs -> 1..Months]
  /\ step \in [Jobs -> {"look", "guard", "call", "terms", "charge", "store"}]
  /\ at \in [Jobs -> Nat \ {0}]
  /\ owed \in [Jobs -> Nat]
  /\ DOMAIN bought = Jobs /\ DOMAIN misses = Jobs /\ DOMAIN noted = Jobs
  /\ DOMAIN failedAt = Jobs /\ DOMAIN met = Jobs
  /\ turned \in [Jobs -> BOOLEAN]

\* Outside its transaction a job has nothing pending, and each kind of job
\* takes its own steps.
KindInv ==
  \A j \in Jobs :
    /\ state[j] # "open" =>
         owed[j] = 0 /\ bought[j] = {} /\ noted[j] = {} /\ misses[j] = {} /\ at[j] = 1
    /\ state[j] = "open" /\ j \in Gaps => step[j] \in {"guard", "call"}
    /\ state[j] = "open" /\ j \in Trackers => step[j] \in {"look", "guard", "call"}
    /\ state[j] = "open" /\ j \in Refreshes =>
         step[j] \in {"look", "call", "charge", "store"}
    /\ state[j] = "open" /\ j \in Gaps /\ step[j] = "guard" => owed[j] = 0

\* What is bought and noted bears the job's name; what is committed, the name
\* of a job that is done.
NamesInv ==
  /\ \A s \in cache : s.by \in Jobs /\ state[s.by] = "done"
  /\ \A j \in Jobs : \A s \in bought[j] : s.by = j

\* Of two jobs that are open together, each has met the other.
MetInv ==
  /\ \A i, j \in Jobs : i # j /\ state[i] = "open" /\ state[j] = "open" => i \in met[j]
  /\ \A j \in Jobs : state[j] = "open" /\ ~turned[j] => began[j] = month

Solo(j) == state[j] = "open" /\ met[j] = {} /\ ~turned[j]

\* Between the guard and the charge, nobody else spends.
PaidInv ==
  \A j \in Readers : Solo(j) =>
    /\ owed[j] > 0 => ledger[month] + owed[j] < Cap + Dearest
    /\ step[j] \in {"call", "charge"} => ledger[month] + owed[j] < Cap

\* A gap job has spent at most one price for each competitor it is past.
GapInv ==
  \A j \in Gaps : Solo(j) /\ step[j] = "call" =>
    /\ at[j] <= Competitors[j] + 1
    /\ owed[j] > 0 => ledger[month] + owed[j] < Cap + Dearest * (at[j] - 1)
    /\ at[j] <= Competitors[j] /\ owed[j] = 0 => ledger[month] < Cap

TableOf(j) == IF j \in Briefs THEN "volumes" ELSE "profiles"

\* What now serves a request that was looked up in vain came from a job met.
WantInv ==
  \A j \in Readers : state[j] = "open" /\ step[j] \in {"guard", "call"} =>
    /\ at[j] <= Len(Wants[j])
    /\ \A t \in cache \union bought[j] : Serves(t, Want(j)) => t.by \in met[j]

\* So did the fresh row of what was a miss, until the job buys one itself.
MissInv ==
  \A j \in Jobs : state[j] = "open" =>
    \A q \in misses[j] :
      /\ \A t \in cache : t.table = TableOf(j) /\ t.q = q => t.by \in met[j]
      /\ step[j] # "store" => ~\E t \in bought[j] : t.table = TableOf(j) /\ t.q = q

RankFrom(rows, j, i) ==
  \E r \in rows : r.q = Wants[j][i].q /\ r.by = j /\ r.depth >= Wants[j][i].depth

\* A tracker has noted or failed every query it is past.
NotedInv ==
  \A j \in Trackers : state[j] = "open" =>
    \A i \in 1..Len(Wants[j]) :
      i < at[j] => i \in failedAt[j] \/ RankFrom(noted[j], j, i)

IInv == /\ StateInv /\ KindInv /\ NamesInv /\ MetInv /\ PaidInv /\ GapInv
        /\ WantInv /\ MissInv /\ NotedInv /\ DoneMeansTracked

-----------------------------------------------------------------------------
(* The steps, one lemma for each part of the invariant *)

\* The dearest price is a price, and none is dearer.
LEMMA DearestPrice == Dearest \in Prices /\ \A p \in Prices : p \in Nat /\ p <= Dearest
BY SpendAssumption DEF Dearest

\* Before the first job nothing is spent, bought or noted.
LEMMA InitInv == Init => IInv
<1>. SUFFICES ASSUME Init PROVE IInv
  OBVIOUS
<1>. USE SpendAssumption DEF Init
<1>1. PICK here \in Together :
        state = [j \in Jobs |-> IF j \in here THEN "queued" ELSE "absent"]
  OBVIOUS
<1>2. \A j \in Jobs : state[j] \in {"queued", "absent"}
  BY <1>1
<1>3. StateInv
  BY <1>1 DEF StateInv
<1>4. KindInv /\ NamesInv /\ MetInv
  BY <1>2 DEF KindInv, NamesInv, MetInv
<1>5. PaidInv /\ GapInv /\ WantInv /\ MissInv /\ NotedInv
  BY <1>2
    DEF PaidInv, GapInv, WantInv, MissInv, NotedInv, Solo, Readers, Jobs
<1>6. DoneMeansTracked
  BY <1>2 DEF DoneMeansTracked, Readers, Jobs
<1>. QED
  BY <1>3, <1>4, <1>5, <1>6 DEF IInv

\* Every step keeps the types.
LEMMA StateStep == IInv /\ [Next]_vars => StateInv'
<1>. SUFFICES ASSUME IInv, [Next]_vars PROVE StateInv'
  OBVIOUS
<1>0. StateInv
  BY DEF IInv
<1>. USE <1>0, SpendAssumption, DearestPrice DEF StateInv
<1>1. ASSUME NEW j \in Jobs, Begin(j) PROVE StateInv'
  BY <1>1, SMTT(30) DEF Begin, Open, tables
<1>2. ASSUME NEW j \in Jobs, Look(j) PROVE StateInv'
  <2>1. ASSUME NEW depth, Note(j, depth) PROVE StateInv'
    <3>1. at' \in [Jobs -> Nat \ {0}] /\ DOMAIN noted' = Jobs
      BY <2>1, SMTT(30) DEF Note
    <3>. QED
      BY <1>2, <2>1, <3>1 DEF Look, Note, tables, queue, seen
  <2>2. CASE step' = [step EXCEPT ![j] = "guard"] /\ UNCHANGED <<noted, at>>
    BY <1>2, <2>2 DEF Look, tables, queue, seen
  <2>. QED
    BY <1>2, <2>1, <2>2 DEF Look
<1>3. ASSUME NEW j \in Jobs, Pass(j) PROVE StateInv'
  BY <1>3 DEF Pass, tables, queue, seen
<1>4. ASSUME NEW j \in Jobs, Refuse(j) PROVE StateInv'
  BY <1>4, SMTT(30) DEF Refuse, Rollback, Forget, tables
<1>5. ASSUME NEW j \in Jobs, SnapshotFails(j) PROVE StateInv'
  BY <1>5, SMTT(30) DEF SnapshotFails, tables, queue
<1>6. ASSUME NEW j \in Jobs, VolumesLook(j) PROVE StateInv'
  BY <1>6 DEF VolumesLook, tables, queue, seen
<1>7. ASSUME NEW j \in Jobs, VolumesGuard(j) PROVE StateInv'
  BY <1>7 DEF VolumesGuard, tables, queue, seen
<1>8. ASSUME NEW j \in Jobs, VolumesFail(j) PROVE StateInv'
  BY <1>8 DEF VolumesFail, tables, queue, seen
<1>9. ASSUME NEW j \in Jobs, GapGuard(j) PROVE StateInv'
  <2>1. Competitors[j] \in Nat /\ at'[j] \in {1, Competitors[j] + 1}
    BY <1>9 DEF GapGuard
  <2>2. at' = [at EXCEPT ![j] = at'[j]]
    BY <1>9 DEF GapGuard
  <2>. QED
    BY <1>9, <2>1, <2>2, SMTT(30) DEF GapGuard, tables, queue, seen
<1>10. ASSUME NEW j \in Jobs, RefreshLook(j) PROVE StateInv'
  BY <1>10 DEF RefreshLook, tables, queue, seen
<1>11. ASSUME NEW j \in Jobs, Break(j) PROVE StateInv'
  BY <1>11, SMTT(30) DEF Break, Rollback, Forget, tables
<1>12. ASSUME NEW j \in Jobs, Finish(j) PROVE StateInv'
  BY <1>12, SMTT(30) DEF Finish, Forget
<1>13. ASSUME NEW j \in Jobs, NEW price \in Prices, Buy(j, price) PROVE StateInv'
  BY <1>13, SMTT(30) DEF Buy, Note, tables, queue
<1>14. ASSUME NEW j \in Jobs, NEW price \in Prices, GapBuy(j, price) PROVE StateInv'
  <2>1. price \in Nat
    BY DearestPrice
  <2>2. owed' \in [Jobs -> Nat] /\ at' \in [Jobs -> Nat \ {0}]
    BY <1>14, <2>1, SMTT(30) DEF GapBuy
  <2>. QED
    BY <1>14, <2>2 DEF GapBuy, tables, queue
<1>15. ASSUME NEW j \in Jobs, NEW price \in Prices, OverviewBuy(j, price) PROVE StateInv'
  <2>1. price \in Nat
    BY DearestPrice
  <2>2. owed' \in [Jobs -> Nat] /\ at' \in [Jobs -> Nat \ {0}]
    BY <1>15, <2>1 DEF OverviewBuy
  <2>. QED
    BY <1>15, <2>2 DEF OverviewBuy, tables, queue
<1>16. ASSUME NEW j \in Jobs, NEW price \in Prices, BulkBuy(j, price) PROVE StateInv'
  BY <1>16, SMTT(30) DEF BulkBuy, tables, queue
<1>17. CASE Expire
  BY <1>17 DEF Expire, queue, work, seen
<1>18. CASE NewMonth
  BY <1>18 DEF NewMonth, Open, tables, queue, work
<1>19. CASE UNCHANGED vars
  BY <1>19 DEF vars, tables, queue, work, seen
<1>. QED
  BY <1>1, <1>2, <1>3, <1>4, <1>5, <1>6, <1>7, <1>8, <1>9, <1>10, <1>11, <1>12,
     <1>13, <1>14, <1>15, <1>16, <1>17, <1>18, <1>19
    DEF Next, JobStep

\* A job that ends leaves nothing pending.
LEMMA KindStep == IInv /\ [Next]_vars => KindInv'
<1>. SUFFICES ASSUME IInv, [Next]_vars PROVE KindInv'
  OBVIOUS
<1>0. StateInv /\ KindInv
  BY DEF IInv
<1>. USE <1>0, SpendAssumption, DearestPrice DEF StateInv, KindInv, Readers
<1>1. ASSUME NEW j \in Jobs, Begin(j) PROVE KindInv'
  BY <1>1 DEF Begin, Open, tables
<1>2. ASSUME NEW j \in Jobs, Look(j) PROVE KindInv'
  BY <1>2 DEF Look, Note, tables, queue, seen
<1>3. ASSUME NEW j \in Jobs, Pass(j) PROVE KindInv'
  BY <1>3 DEF Pass, tables, queue, seen
<1>4. ASSUME NEW j \in Jobs, Refuse(j) PROVE KindInv'
  BY <1>4 DEF Refuse, Rollback, Forget, tables
<1>5. ASSUME NEW j \in Jobs, SnapshotFails(j) PROVE KindInv'
  BY <1>5 DEF SnapshotFails, tables, queue
<1>6. ASSUME NEW j \in Jobs, VolumesLook(j) PROVE KindInv'
  BY <1>6 DEF VolumesLook, tables, queue, seen
<1>7. ASSUME NEW j \in Jobs, VolumesGuard(j) PROVE KindInv'
  BY <1>7 DEF VolumesGuard, tables, queue, seen
<1>8. ASSUME NEW j \in Jobs, VolumesFail(j) PROVE KindInv'
  BY <1>8 DEF VolumesFail, tables, queue, seen
<1>9. ASSUME NEW j \in Jobs, GapGuard(j) PROVE KindInv'
  BY <1>9 DEF GapGuard, tables, queue, seen
<1>10. ASSUME NEW j \in Jobs, RefreshLook(j) PROVE KindInv'
  BY <1>10 DEF RefreshLook, tables, queue, seen
<1>11. ASSUME NEW j \in Jobs, Break(j) PROVE KindInv'
  BY <1>11 DEF Break, Rollback, Forget, tables
<1>12. ASSUME NEW j \in Jobs, Finish(j) PROVE KindInv'
  BY <1>12 DEF Finish, Forget
<1>13. ASSUME NEW j \in Jobs, NEW price \in Prices, Buy(j, price) PROVE KindInv'
  BY <1>13, SMTT(30) DEF Buy, Note, tables, queue
<1>14. ASSUME NEW j \in Jobs, NEW price \in Prices, GapBuy(j, price) PROVE KindInv'
  BY <1>14 DEF GapBuy, tables, queue
<1>15. ASSUME NEW j \in Jobs, NEW price \in Prices, OverviewBuy(j, price) PROVE KindInv'
  BY <1>15 DEF OverviewBuy, tables, queue
<1>16. ASSUME NEW j \in Jobs, NEW price \in Prices, BulkBuy(j, price) PROVE KindInv'
  BY <1>16 DEF BulkBuy, tables, queue
<1>17. CASE Expire
  BY <1>17 DEF Expire, queue, work, seen
<1>18. CASE NewMonth
  BY <1>18 DEF NewMonth, Open, tables, queue, work
<1>19. CASE UNCHANGED vars
  BY <1>19 DEF vars, tables, queue, work, seen
<1>. QED
  BY <1>1, <1>2, <1>3, <1>4, <1>5, <1>6, <1>7, <1>8, <1>9, <1>10, <1>11, <1>12,
     <1>13, <1>14, <1>15, <1>16, <1>17, <1>18, <1>19
    DEF Next, JobStep

\* A job commits what it bought itself, when it is done.
LEMMA NamesStep == IInv /\ [Next]_vars => NamesInv'
<1>. SUFFICES ASSUME IInv, [Next]_vars PROVE NamesInv'
  OBVIOUS
<1>0. StateInv /\ NamesInv
  BY DEF IInv
<1>. USE <1>0 DEF StateInv, NamesInv, Purchase
<1>1. ASSUME NEW j \in Jobs, Begin(j) PROVE NamesInv'
  BY <1>1 DEF Begin, Open, tables
<1>2. ASSUME NEW j \in Jobs, Look(j) PROVE NamesInv'
  BY <1>2 DEF Look, Note, tables, queue, seen
<1>3. ASSUME NEW j \in Jobs, Pass(j) PROVE NamesInv'
  BY <1>3 DEF Pass, tables, queue, seen
<1>4. ASSUME NEW j \in Jobs, Refuse(j) PROVE NamesInv'
  BY <1>4 DEF Refuse, Rollback, Forget, tables
<1>5. ASSUME NEW j \in Jobs, SnapshotFails(j) PROVE NamesInv'
  BY <1>5 DEF SnapshotFails, tables, queue
<1>6. ASSUME NEW j \in Jobs, VolumesLook(j) PROVE NamesInv'
  BY <1>6 DEF VolumesLook, tables, queue, seen
<1>7. ASSUME NEW j \in Jobs, VolumesGuard(j) PROVE NamesInv'
  BY <1>7 DEF VolumesGuard, tables, queue, seen
<1>8. ASSUME NEW j \in Jobs, VolumesFail(j) PROVE NamesInv'
  BY <1>8 DEF VolumesFail, tables, queue, seen
<1>9. ASSUME NEW j \in Jobs, GapGuard(j) PROVE NamesInv'
  BY <1>9 DEF GapGuard, tables, queue, seen
<1>10. ASSUME NEW j \in Jobs, RefreshLook(j) PROVE NamesInv'
  BY <1>10 DEF RefreshLook, tables, queue, seen
<1>11. ASSUME NEW j \in Jobs, Break(j) PROVE NamesInv'
  BY <1>11 DEF Break, Rollback, Forget, tables
<1>12. ASSUME NEW j \in Jobs, Finish(j) PROVE NamesInv'
  BY <1>12 DEF Finish, Forget
<1>13. ASSUME NEW j \in Jobs, NEW price \in Prices, Buy(j, price) PROVE NamesInv'
  BY <1>13 DEF Buy, Note, tables, queue
<1>14. ASSUME NEW j \in Jobs, NEW price \in Prices, GapBuy(j, price) PROVE NamesInv'
  BY <1>14 DEF GapBuy, tables, queue
<1>15. ASSUME NEW j \in Jobs, NEW price \in Prices, OverviewBuy(j, price) PROVE NamesInv'
  BY <1>15 DEF OverviewBuy, tables, queue
<1>16. ASSUME NEW j \in Jobs, NEW price \in Prices, BulkBuy(j, price) PROVE NamesInv'
  BY <1>16 DEF BulkBuy, tables, queue
<1>17. CASE Expire
  BY <1>17 DEF Expire, queue, work, seen
<1>18. CASE NewMonth
  BY <1>18 DEF NewMonth, Open, tables, queue, work
<1>19. CASE UNCHANGED vars
  BY <1>19 DEF vars, tables, queue, work, seen
<1>. QED
  BY <1>1, <1>2, <1>3, <1>4, <1>5, <1>6, <1>7, <1>8, <1>9, <1>10, <1>11, <1>12,
     <1>13, <1>14, <1>15, <1>16, <1>17, <1>18, <1>19
    DEF Next, JobStep

\* A job that begins meets the jobs that are open, and they meet it.
LEMMA MetStep == IInv /\ [Next]_vars => MetInv'
<1>. SUFFICES ASSUME IInv, [Next]_vars PROVE MetInv'
  OBVIOUS
<1>0. StateInv /\ MetInv
  BY DEF IInv
<1>. USE <1>0 DEF StateInv, MetInv
<1>1. ASSUME NEW j \in Jobs, Begin(j) PROVE MetInv'
  <2>1. began' = [began EXCEPT ![j] = month] /\ month' = month /\ turned' = turned
    BY <1>1 DEF Begin
  <2>2. \A i \in Jobs \ {j} : /\ state'[i] = "open" => i \in Open
                           /\ began'[i] = began[i]
    BY <1>1, <2>1 DEF Begin, Open
  <2>3. met'[j] = Open /\ \A i \in Open : met'[i] = met[i] \union {j}
    BY <1>1 DEF Begin, Open
  <2>4. \A i, k \in Jobs :
          i # k /\ state'[i] = "open" /\ state'[k] = "open" => i \in met'[k]
    BY <2>2, <2>3 DEF Open
  <2>5. \A i \in Jobs : state'[i] = "open" /\ ~turned'[i] => began'[i] = month'
    BY <2>1, <2>2 DEF Open
  <2>. QED
    BY <2>4, <2>5
<1>2. ASSUME NEW j \in Jobs, Look(j) PROVE MetInv'
  BY <1>2 DEF Look, Note, tables, queue, seen
<1>3. ASSUME NEW j \in Jobs, Pass(j) PROVE MetInv'
  BY <1>3 DEF Pass, tables, queue, seen
<1>4. ASSUME NEW j \in Jobs, Refuse(j) PROVE MetInv'
  BY <1>4 DEF Refuse, Rollback, Forget, tables
<1>5. ASSUME NEW j \in Jobs, SnapshotFails(j) PROVE MetInv'
  BY <1>5 DEF SnapshotFails, tables, queue
<1>6. ASSUME NEW j \in Jobs, VolumesLook(j) PROVE MetInv'
  BY <1>6 DEF VolumesLook, tables, queue, seen
<1>7. ASSUME NEW j \in Jobs, VolumesGuard(j) PROVE MetInv'
  BY <1>7 DEF VolumesGuard, tables, queue, seen
<1>8. ASSUME NEW j \in Jobs, VolumesFail(j) PROVE MetInv'
  BY <1>8 DEF VolumesFail, tables, queue, seen
<1>9. ASSUME NEW j \in Jobs, GapGuard(j) PROVE MetInv'
  BY <1>9 DEF GapGuard, tables, queue, seen
<1>10. ASSUME NEW j \in Jobs, RefreshLook(j) PROVE MetInv'
  BY <1>10 DEF RefreshLook, tables, queue, seen
<1>11. ASSUME NEW j \in Jobs, Break(j) PROVE MetInv'
  BY <1>11 DEF Break, Rollback, Forget, tables
<1>12. ASSUME NEW j \in Jobs, Finish(j) PROVE MetInv'
  BY <1>12 DEF Finish, Forget
<1>13. ASSUME NEW j \in Jobs, NEW price \in Prices, Buy(j, price) PROVE MetInv'
  BY <1>13 DEF Buy, Note, tables, queue
<1>14. ASSUME NEW j \in Jobs, NEW price \in Prices, GapBuy(j, price) PROVE MetInv'
  BY <1>14 DEF GapBuy, tables, queue
<1>15. ASSUME NEW j \in Jobs, NEW price \in Prices, OverviewBuy(j, price) PROVE MetInv'
  BY <1>15 DEF OverviewBuy, tables, queue
<1>16. ASSUME NEW j \in Jobs, NEW price \in Prices, BulkBuy(j, price) PROVE MetInv'
  BY <1>16 DEF BulkBuy, tables, queue
<1>17. CASE Expire
  BY <1>17 DEF Expire, queue, work, seen
<1>18. CASE NewMonth
  BY <1>18 DEF NewMonth, Open, tables, queue, work
<1>19. CASE UNCHANGED vars
  BY <1>19 DEF vars, tables, queue, work, seen
<1>. QED
  BY <1>1, <1>2, <1>3, <1>4, <1>5, <1>6, <1>7, <1>8, <1>9, <1>10, <1>11, <1>12,
     <1>13, <1>14, <1>15, <1>16, <1>17, <1>18, <1>19
    DEF Next, JobStep

-----------------------------------------------------------------------------
(* What a step leaves to the jobs that do not take it *)

Untouched(i) ==
  /\ state'[i] = state[i] /\ began'[i] = began[i] /\ step'[i] = step[i]
  /\ at'[i] = at[i] /\ misses'[i] = misses[i] /\ bought'[i] = bought[i]
  /\ noted'[i] = noted[i] /\ owed'[i] = owed[i] /\ failedAt'[i] = failedAt[i]

\* A step between the guard and the end of the transaction of j.
Works(j) ==
  \/ Look(j) \/ Pass(j) \/ SnapshotFails(j)
  \/ VolumesLook(j) \/ VolumesGuard(j) \/ VolumesFail(j)
  \/ GapGuard(j) \/ RefreshLook(j)
  \/ \E price \in Prices :
       Buy(j, price) \/ GapBuy(j, price) \/ OverviewBuy(j, price) \/ BulkBuy(j, price)

\* Work changes nothing that is shared.
LEMMA WorkIsPrivate ==
  ASSUME NEW j \in Jobs, Works(j)
  PROVE  /\ state[j] = "open"
         /\ UNCHANGED <<month, ledger, cache, ranked>>
         /\ UNCHANGED <<state, attempts, began, met, turned>>
BY
  DEF Works, Look, Pass, SnapshotFails, VolumesLook, VolumesGuard, VolumesFail,
      GapGuard,
       RefreshLook, Buy, GapBuy, OverviewBuy, BulkBuy, Note, tables, queue, seen

\* A job that ends is not open any more.
LEMMA EndsAreEnds ==
  ASSUME StateInv, NEW j \in Jobs, Refuse(j) \/ Break(j) \/ Finish(j)
  PROVE  state[j] = "open" /\ state'[j] # "open" /\ met' = met /\ month' = month
BY DEF StateInv, Refuse, Break, Finish, Rollback

\* No job writes in another's transaction.
LEMMA OthersWait ==
  ASSUME StateInv, NEW j \in Jobs, JobStep(j), NEW i \in Jobs, i # j
  PROVE  /\ Untouched(i) /\ turned'[i] = turned[i]
         /\ met[i] \subseteq met'[i] /\ month' = month
<1>. USE DEF StateInv, Untouched
<1>1. CASE Begin(j)
  BY <1>1 DEF Begin, Open
<1>2. CASE Look(j)
  BY <1>2 DEF Look, Note, queue, seen
<1>3. CASE Pass(j) \/ SnapshotFails(j)
  BY <1>3 DEF Pass, SnapshotFails, queue, seen
<1>4. CASE VolumesLook(j) \/ VolumesGuard(j) \/ VolumesFail(j)
  BY <1>4 DEF VolumesLook, VolumesGuard, VolumesFail, queue, seen
<1>5. CASE GapGuard(j) \/ RefreshLook(j)
  BY <1>5 DEF GapGuard, RefreshLook, queue, seen
<1>6. CASE Refuse(j) \/ Break(j)
  BY <1>6 DEF Refuse, Break, Rollback, Forget
<1>7. CASE Finish(j)
  BY <1>7 DEF Finish, Forget
<1>8. ASSUME NEW price \in Prices, Buy(j, price) \/ GapBuy(j, price)
      PROVE  /\ Untouched(i) /\ turned'[i] = turned[i]
             /\ met[i] \subseteq met'[i] /\ month' = month
  BY <1>8 DEF Buy, GapBuy, Note, queue
<1>9. ASSUME NEW price \in Prices, OverviewBuy(j, price) \/ BulkBuy(j, price)
      PROVE  /\ Untouched(i) /\ turned'[i] = turned[i]
             /\ met[i] \subseteq met'[i] /\ month' = month
  BY <1>9 DEF OverviewBuy, BulkBuy, queue
<1>. QED
  BY <1>1, <1>2, <1>3, <1>4, <1>5, <1>6, <1>7, <1>8, <1>9 DEF JobStep

\* A job that is open after a step began in it, worked in it or waited.
LEMMA Course ==
  ASSUME StateInv, [Next]_vars, NEW i \in Jobs, state'[i] = "open"
  PROVE  \/ Begin(i)
         \/ /\ state[i] = "open" /\ met[i] \subseteq met'[i]
            /\ turned[i] => turned'[i]
            /\ Works(i) \/ Untouched(i)
<1>1. ASSUME JobStep(i), ~Begin(i) PROVE Works(i)
  BY <1>1, EndsAreEnds DEF JobStep, Works
<1>2. ASSUME NEW j \in Jobs, JobStep(j), j # i
      PROVE  Untouched(i) /\ turned'[i] = turned[i] /\ met[i] \subseteq met'[i]
  BY <1>2, OthersWait
<1>3. CASE Expire
  BY <1>3 DEF Expire, Untouched, queue, work, seen
<1>4. CASE NewMonth
  BY <1>4 DEF NewMonth, Untouched, StateInv, queue, work
<1>5. CASE UNCHANGED vars
  BY <1>5 DEF vars, Untouched, queue, work, seen
<1>6. CASE Works(i)
  BY <1>6, WorkIsPrivate
<1>7. CASE \E j \in Jobs : j # i /\ JobStep(j)
  BY <1>2, <1>7 DEF Untouched
<1>. QED
  BY <1>1, <1>3, <1>4, <1>5, <1>6, <1>7 DEF Next

\* The committed tables change when a job finishes or rows outlive their TTL.
LEMMA TablesStep ==
  ASSUME StateInv, [Next]_vars
  PROVE  \/ \E j \in Jobs : Finish(j)
         \/ cache' \subseteq cache /\ ledger' = ledger /\ ranked' = ranked
<1>1. ASSUME NEW j \in Jobs, JobStep(j), ~Finish(j) PROVE UNCHANGED tables
  <2>1. CASE Begin(j) \/ Refuse(j) \/ Break(j)
    BY <2>1 DEF Begin, Refuse, Break, Rollback, tables
  <2>2. CASE Works(j)
    BY <2>2, WorkIsPrivate DEF tables
  <2>. QED
    BY <1>1, <2>1, <2>2 DEF JobStep, Works
<1>2. CASE Expire
  BY <1>2 DEF Expire
<1>3. CASE NewMonth
  BY <1>3 DEF NewMonth, tables
<1>4. CASE UNCHANGED vars
  BY <1>4 DEF vars, tables
<1>. QED
  BY <1>1, <1>2, <1>3, <1>4 DEF Next, tables

\* What appears in the cache while a job is open is by a job it has met.
LEMMA CacheStep ==
  ASSUME StateInv, NamesInv, MetInv, [Next]_vars,
         NEW i \in Jobs, state[i] = "open", state'[i] = "open", NEW t \in cache'
  PROVE  t \in cache \/ t.by \in met'[i]
<1>1. ASSUME NEW j \in Jobs, Finish(j), t \notin cache PROVE t.by \in met'[i]
  <2>1. j # i /\ state[j] = "open" /\ met' = met
    BY <1>1, EndsAreEnds
  <2>2. t \in bought[j]
    BY <1>1 DEF Finish
  <2>. QED
    BY <2>1, <2>2 DEF NamesInv, MetInv
<1>. QED
  BY <1>1, TablesStep

\* A job that is alone after a step saw no month end and nobody else commit.
LEMMA AloneStep ==
  ASSUME StateInv, MetInv, [Next]_vars, NEW i \in Jobs, Solo(i)'
  PROVE  \/ Begin(i)
         \/ /\ Solo(i) /\ month' = month /\ ledger' = ledger
            /\ Works(i) \/ Untouched(i)
<1>0. state'[i] = "open" /\ met'[i] = {} /\ ~turned'[i]
  BY DEF Solo
<1>1. SUFFICES ASSUME ~Begin(i) PROVE Solo(i) /\ month' = month /\ ledger' = ledger
  BY <1>0, Course
<1>2. state[i] = "open" /\ met[i] = {} /\ ~turned[i] /\ met[i] \subseteq met'[i]
  BY <1>0, <1>1, Course
<1>3. ASSUME NEW j \in Jobs, Finish(j) PROVE FALSE
  <2>1. state[j] = "open" /\ state'[j] # "open"
    BY <1>3, EndsAreEnds
  <2>. QED
    BY <1>0, <1>2, <2>1 DEF MetInv
<1>4. ledger' = ledger
  BY <1>3, TablesStep
<1>5. ~NewMonth
  BY <1>0, <1>2 DEF NewMonth, Open
<1>6. ASSUME NEW j \in Jobs, JobStep(j) PROVE month' = month
  <2>1. CASE i # j
    BY <1>6, <2>1, OthersWait
  <2>2. CASE i = j
    <3>1. Works(i)
      BY <1>0, <1>1, <1>6, <2>2, EndsAreEnds DEF JobStep, Works
    <3>. QED
      BY <3>1, WorkIsPrivate
  <2>. QED
    BY <2>1, <2>2
<1>. QED
  BY <1>2, <1>4, <1>5, <1>6 DEF Solo, Next, Expire, vars

-----------------------------------------------------------------------------
(* Money *)

\* Alone, a job sees all that is spent before it decides to spend.
LEMMA PaidStep == IInv /\ [Next]_vars => PaidInv'
<1>. DEFINE Paid(i) == /\ owed[i] > 0 => ledger[month] + owed[i] < Cap + Dearest
                       /\ step[i] \in {"call", "charge"} => ledger[month] + owed[i] < Cap
<1>. SUFFICES ASSUME IInv, [Next]_vars, NEW i \in Readers, Solo(i)' PROVE Paid(i)'
  BY DEF PaidInv
<1>0. StateInv /\ KindInv /\ MetInv /\ PaidInv /\ i \in Jobs /\ i \notin Gaps
  BY SpendAssumption DEF IInv, Readers, Jobs
<1>1. CASE Begin(i)
  <2>1. owed'[i] = 0 /\ step'[i] = "look"
    BY <1>0, <1>1 DEF Begin, KindInv, StateInv
  <2>. QED
    BY <2>1
<1>. SUFFICES ASSUME ~Begin(i) PROVE Paid(i)'
  BY <1>1
<1>2. Solo(i) /\ month' = month /\ ledger' = ledger /\ (Works(i) \/ Untouched(i))
  BY <1>0, AloneStep
<1>3. Paid(i) /\ state[i] = "open"
  BY <1>0, <1>2 DEF PaidInv, Solo
<1>4. /\ began[i] = month /\ owed[i] \in Nat /\ ledger[month] \in Nat
      /\ Cap \in Nat /\ Dearest \in Nat
  BY <1>0, <1>2, SpendAssumption, DearestPrice DEF MetInv, Solo, StateInv
<1>5. CASE Untouched(i)
  BY <1>2, <1>3, <1>5 DEF Untouched
<1>6. CASE Pass(i)
  <2>1. owed'[i] = owed[i] /\ ledger[month] + owed[i] < Cap
    BY <1>4, <1>6 DEF Pass, Exceeded, Spent
  <2>. QED
    BY <1>2, <1>3, <2>1
<1>7. CASE VolumesGuard(i)
  <2>1. owed'[i] = owed[i]
    BY <1>7 DEF VolumesGuard
  <2>2. step'[i] = "charge" => ledger[month] + owed[i] < Cap
    BY <1>0, <1>4, <1>7 DEF VolumesGuard, Exceeded, Spent, StateInv
  <2>3. step'[i] # "call"
    BY <1>0, <1>7 DEF VolumesGuard, StateInv
  <2>. QED
    BY <1>2, <1>3, <2>1, <2>2, <2>3
<1>8. CASE Look(i) \/ SnapshotFails(i) \/ VolumesLook(i) \/ VolumesFail(i)
  <2>1. owed'[i] = owed[i]
    BY <1>8 DEF Look, SnapshotFails, VolumesLook, VolumesFail
  <2>2. step'[i] \notin {"call", "charge"}
    BY <1>0, <1>8
      DEF Look, SnapshotFails, VolumesLook, VolumesFail, Note, StateInv
  <2>. QED
    BY <1>2, <1>3, <2>1, <2>2
<1>9. ASSUME NEW price \in Prices, Buy(i, price) \/ BulkBuy(i, price) PROVE Paid(i)'
  <2>1. step[i] \in {"call", "charge"} /\ owed'[i] = owed[i] + price
    BY <1>0, <1>9 DEF Buy, BulkBuy, StateInv
  <2>2. step'[i] \notin {"call", "charge"}
    BY <1>0, <1>9 DEF Buy, BulkBuy, Note, StateInv
  <2>3. price \in Nat /\ price <= Dearest
    BY DearestPrice
  <2>. QED
    BY <1>2, <1>3, <1>4, <2>1, <2>2, <2>3
<1>10. i \notin Refreshes
  BY SpendAssumption DEF Readers
<1>. QED
  BY <1>0, <1>2, <1>5, <1>6, <1>7, <1>8, <1>9, <1>10
    DEF Works, GapGuard, RefreshLook, GapBuy, OverviewBuy

\* The price of one more competitor.
LEMMA OneMore ==
  ASSUME NEW d \in Nat, NEW a \in Nat \ {0}
  PROVE  d * (a - 1) + d = d * a /\ d <= d * a
<1>1. d * (a - 1) + d = d * a
  OBVIOUS
<1>2. d * (a - 1) >= 0
  OBVIOUS
<1>. QED
  BY <1>1, <1>2

\* A gap job decides once, then spends for one competitor after the other.
LEMMA GapStep == IInv /\ [Next]_vars => GapInv'
<1>. DEFINE Paid(i) ==
              /\ at[i] <= Competitors[i] + 1
              /\ owed[i] > 0 => ledger[month] + owed[i] < Cap + Dearest * (at[i] - 1)
              /\ at[i] <= Competitors[i] /\ owed[i] = 0 => ledger[month] < Cap
<1>. SUFFICES ASSUME IInv, [Next]_vars, NEW i \in Gaps, Solo(i)', step'[i] = "call"
              PROVE  Paid(i)'
  BY DEF GapInv
<1>0. /\ StateInv /\ KindInv /\ MetInv /\ GapInv /\ i \in Jobs
      /\ i \notin Readers /\ i \notin Refreshes /\ i \notin Briefs
  BY SpendAssumption DEF IInv, Readers, Jobs
<1>1. ~Begin(i)
  BY <1>0 DEF Begin, StateInv
<1>2. Solo(i) /\ month' = month /\ ledger' = ledger /\ (Works(i) \/ Untouched(i))
  BY <1>0, <1>1, AloneStep
<1>3. /\ began[i] = month /\ owed[i] \in Nat /\ ledger[month] \in Nat /\ Cap \in Nat
      /\ Dearest \in Nat /\ Competitors[i] \in Nat /\ at[i] \in Nat \ {0}
      /\ state[i] = "open"
  BY <1>0, <1>2, SpendAssumption, DearestPrice DEF MetInv, Solo, StateInv
<1>4. CASE Untouched(i)
  BY <1>0, <1>2, <1>4 DEF Untouched, GapInv
<1>5. CASE GapGuard(i)
  <2>1. owed[i] = 0 /\ owed' = owed
    BY <1>0, <1>3, <1>5 DEF GapGuard, KindInv
  <2>2. CASE Competitors[i] > 0 /\ Exceeded(i)
    <3>1. at'[i] = Competitors[i] + 1
      BY <1>0, <1>5, <2>2 DEF GapGuard, StateInv
    <3>. QED
      BY <1>3, <2>1, <3>1
  <2>3. CASE ~(Competitors[i] > 0 /\ Exceeded(i))
    <3>1. at'[i] = 1
      BY <1>0, <1>5, <2>3 DEF GapGuard, StateInv
    <3>2. Spent(i) = ledger[month]
      BY <1>3, <2>1 DEF Spent
    <3>. QED
      BY <1>2, <1>3, <2>1, <2>3, <3>1, <3>2 DEF Exceeded
  <2>. QED
    BY <2>2, <2>3
<1>6. ASSUME NEW price \in Prices, GapBuy(i, price) PROVE Paid(i)'
  <2>1. /\ step[i] = "call" /\ at[i] <= Competitors[i]
        /\ owed'[i] = owed[i] + price /\ at'[i] = at[i] + 1
    BY <1>0, <1>6 DEF GapBuy, StateInv
  <2>2. price \in Nat \ {0} /\ price <= Dearest
    BY DearestPrice, SpendAssumption
  <2>3. Paid(i)
    BY <1>0, <1>2, <2>1 DEF GapInv
  <2>4. /\ Dearest * (at[i] - 1) + Dearest = Dearest * at[i] /\ Dearest <= Dearest * at[i]
        /\ Dearest * at[i] \in Nat /\ Dearest * (at[i] - 1) \in Nat
    BY <1>3, OneMore
  <2>5. ledger[month] + owed'[i] < Cap + Dearest * at[i]
    BY <1>3, <2>1, <2>2, <2>3, <2>4
  <2>6. at'[i] - 1 = at[i] /\ at'[i] <= Competitors[i] + 1 /\ owed'[i] > 0
    BY <1>3, <2>1, <2>2
  <2>. QED
    BY <1>2, <2>5, <2>6
<1>7. ~\E price \in Prices : BulkBuy(i, price)
  BY <1>0, <1>3 DEF BulkBuy, KindInv
<1>. QED
  BY <1>0, <1>2, <1>4, <1>5, <1>6, <1>7, SpendAssumption
    DEF Works, Look, Pass, SnapshotFails, VolumesLook, VolumesGuard,
       VolumesFail, RefreshLook,
        Buy, OverviewBuy, Readers

-----------------------------------------------------------------------------
(* Reuse *)

\* An element of a sequence.
LEMMA ElementOfSeq ==
  ASSUME NEW R, NEW l \in Seq(R), NEW n \in 1..Len(l)
  PROVE  l[n] \in R
OBVIOUS

\* A lookup in vain, and the jobs met since.
LEMMA WantStep == IInv /\ [Next]_vars => WantInv'
<1>. SUFFICES ASSUME IInv, [Next]_vars, NEW i \in Readers,
                     state'[i] = "open", step'[i] \in {"guard", "call"}
              PROVE  /\ at'[i] <= Len(Wants[i])
                     /\ \A t \in cache' \union bought'[i] :
                          Serves(t, Want(i)') => t.by \in met'[i]
  BY DEF WantInv, Want, Serves
<1>0. /\ StateInv /\ NamesInv /\ MetInv /\ WantInv /\ i \in Jobs
      /\ i \notin Gaps /\ i \notin Refreshes
  BY SpendAssumption DEF IInv, Readers, Jobs
<1>1. ~Begin(i)
  BY <1>0 DEF Begin, StateInv
<1>2. state[i] = "open" /\ met[i] \subseteq met'[i] /\ (Works(i) \/ Untouched(i))
  BY <1>0, <1>1, Course
<1>3. \A t \in cache' : t \in cache \/ t.by \in met'[i]
  BY <1>0, <1>2, CacheStep
<1>4. SUFFICES /\ at'[i] = at[i] /\ at[i] <= Len(Wants[i]) /\ bought'[i] = bought[i]
               /\ \A t \in cache \union bought[i] : Serves(t, Want(i)) => t.by \in met[i]
  BY <1>2, <1>3 DEF Want
<1>5. CASE Untouched(i)
  BY <1>0, <1>2, <1>5 DEF Untouched, WantInv
<1>6. CASE Look(i)
  <2>1. ~Covered(i)
    BY <1>0, <1>6 DEF Look, Note, StateInv
  <2>. QED
    BY <1>6, <2>1 DEF Look, Covered
<1>7. CASE Pass(i)
  BY <1>0, <1>7 DEF Pass, WantInv
<1>8. ~(SnapshotFails(i) \/ VolumesLook(i) \/ VolumesGuard(i) \/ VolumesFail(i))
  BY <1>0 DEF SnapshotFails, VolumesLook, VolumesGuard, VolumesFail, StateInv
<1>9. ~\E price \in Prices : Buy(i, price) \/ BulkBuy(i, price)
  BY <1>0 DEF Buy, BulkBuy, Note, StateInv
<1>. QED
  BY <1>0, <1>2, <1>5, <1>6, <1>7, <1>8, <1>9
    DEF Works, GapGuard, RefreshLook, GapBuy, OverviewBuy

\* The same for what is bought in bulk.
LEMMA MissStep == IInv /\ [Next]_vars => MissInv'
<1>. SUFFICES ASSUME IInv, [Next]_vars, NEW i \in Jobs, state'[i] = "open",
                     NEW q \in misses'[i]
              PROVE  /\ \A t \in cache' : t.table = TableOf(i) /\ t.q = q => t.by \in met'[i]
                     /\ step'[i] # "store" =>
                          ~\E t \in bought'[i] : t.table = TableOf(i) /\ t.q = q
  BY DEF MissInv, TableOf
<1>0. StateInv /\ KindInv /\ NamesInv /\ MetInv /\ MissInv
  BY DEF IInv
<1>1. CASE Begin(i)
  BY <1>0, <1>1 DEF Begin, KindInv
<1>. SUFFICES ASSUME ~Begin(i)
              PROVE  /\ \A t \in cache' : t.table = TableOf(i) /\ t.q = q => t.by \in met'[i]
                     /\ step'[i] # "store" =>
                          ~\E t \in bought'[i] : t.table = TableOf(i) /\ t.q = q
  BY <1>1
<1>2. state[i] = "open" /\ met[i] \subseteq met'[i] /\ (Works(i) \/ Untouched(i))
  BY <1>0, Course
<1>3. \A t \in cache' : t \in cache \/ t.by \in met'[i]
  BY <1>0, <1>2, CacheStep
<1>4. SUFFICES /\ \A t \in cache : t.table = TableOf(i) /\ t.q = q => t.by \in met[i]
               /\ step'[i] # "store" =>
                    ~\E t \in bought'[i] : t.table = TableOf(i) /\ t.q = q
  BY <1>2, <1>3
<1>5. CASE Untouched(i)
  BY <1>0, <1>2, <1>5 DEF Untouched, MissInv
<1>6. CASE VolumesLook(i)
  <2>1. /\ TableOf(i) = "volumes" /\ misses'[i] = Missing(i, "volumes", Terms[i])
        /\ bought' = bought
    BY <1>0, <1>6 DEF VolumesLook, TableOf, StateInv
  <2>. QED
    BY <2>1 DEF Missing
<1>7. CASE RefreshLook(i)
  <2>1. /\ TableOf(i) = "profiles" /\ misses'[i] = Missing(i, "profiles", Profiled[i])
        /\ bought' = bought
    BY <1>0, <1>7, SpendAssumption DEF RefreshLook, TableOf, StateInv, Readers
  <2>. QED
    BY <2>1 DEF Missing
<1>8. CASE \E price \in Prices : BulkBuy(i, price)
  <2>1. misses' = misses /\ step'[i] = "store"
    BY <1>0, <1>8 DEF BulkBuy, StateInv
  <2>. QED
    BY <1>0, <1>2, <2>1 DEF MissInv
<1>9. CASE \E price \in Prices : Buy(i, price)
  <2>1. /\ misses' = misses /\ step[i] # "store"
        /\ bought'[i] = bought[i] \union {Purchase("snapshots", Want(i).q, Want(i).depth, i)}
    BY <1>0, <1>9 DEF Buy, StateInv
  <2>. QED
    BY <1>0, <1>2, <2>1 DEF MissInv, Purchase, TableOf
<1>10. ASSUME Works(i), ~VolumesLook(i), ~RefreshLook(i),
              ~\E price \in Prices : Buy(i, price) \/ BulkBuy(i, price)
       PROVE  misses' = misses /\ bought' = bought /\ step[i] # "store"
  BY <1>10
    DEF Works, Look, Pass, SnapshotFails, VolumesGuard, VolumesFail, GapGuard,
        GapBuy, OverviewBuy
<1>11. CASE misses' = misses /\ bought' = bought /\ step[i] # "store"
  BY <1>0, <1>2, <1>11 DEF MissInv
<1>. QED
  BY <1>2, <1>5, <1>6, <1>7, <1>8, <1>9, <1>10, <1>11

-----------------------------------------------------------------------------
(* Ranks *)

\* A query is left behind only with a rank noted or its snapshot failed.
LEMMA NotedStep == IInv /\ [Next]_vars => NotedInv'
<1>. SUFFICES ASSUME IInv, [Next]_vars, NEW i \in Trackers, state'[i] = "open",
                     NEW k \in 1..Len(Wants[i]), k < at'[i]
              PROVE  k \in failedAt'[i] \/ RankFrom(noted'[i], i, k)
  BY DEF NotedInv, RankFrom
<1>0. StateInv /\ KindInv /\ NotedInv /\ i \in Jobs /\ i \in Readers
  BY DEF IInv, Readers, Jobs
<1>1. i \notin Gaps /\ i \notin Refreshes /\ i \notin Briefs
  BY <1>0, SpendAssumption DEF Readers
<1>2. /\ Wants[i] \in Seq([q : STRING, depth : Nat])
      /\ k \in Nat \ {0} /\ at[i] \in Nat \ {0}
  BY <1>0, SpendAssumption DEF StateInv
<1>3. CASE Begin(i)
  <2>1. at'[i] = 1
    BY <1>0, <1>3 DEF Begin, KindInv
  <2>. QED
    BY <1>2, <2>1
<1>. SUFFICES ASSUME ~Begin(i)
              PROVE  k \in failedAt'[i] \/ RankFrom(noted'[i], i, k)
  BY <1>3
<1>4. state[i] = "open" /\ (Works(i) \/ Untouched(i))
  BY <1>0, Course
<1>5. k < at[i] => k \in failedAt[i] \/ RankFrom(noted[i], i, k)
  BY <1>0, <1>4 DEF NotedInv
<1>6. CASE Untouched(i)
  BY <1>5, <1>6 DEF Untouched
<1>7. ASSUME NEW depth, Note(i, depth), k = at[i] => depth >= Want(i).depth,
             failedAt' = failedAt
      PROVE  k \in failedAt'[i] \/ RankFrom(noted'[i], i, k)
  <2>1. /\ noted'[i] = noted[i] \union {[q |-> Wants[i][at[i]].q, by |-> i, depth |-> depth]}
        /\ at'[i] = at[i] + 1
    BY <1>0, <1>7 DEF Note, Want, StateInv
  <2>2. CASE k = at[i]
    <3>1. depth >= Wants[i][k].depth
      BY <1>7, <2>2 DEF Want
    <3>. DEFINE row == [q |-> Wants[i][k].q, by |-> i, depth |-> depth]
    <3>3. row \in noted'[i] /\ row.q = Wants[i][k].q /\ row.by = i /\ row.depth = depth
      BY <2>1, <2>2
    <3>. HIDE DEF row
    <3>. QED
      BY <3>1, <3>3 DEF RankFrom
  <2>3. CASE k < at[i]
    BY <1>5, <1>7, <2>1, <2>3 DEF RankFrom
  <2>. QED
    BY <1>2, <2>1, <2>2, <2>3
<1>8. CASE Look(i)
  <2>1. ASSUME NEW s \in cache \union bought[i], Serves(s, Want(i)), Note(i, s.depth)
        PROVE  k \in failedAt'[i] \/ RankFrom(noted'[i], i, k)
    BY <1>7, <1>8, <2>1 DEF Look, Serves, seen
  <2>2. CASE UNCHANGED <<noted, at>>
    BY <1>5, <1>8, <2>2 DEF Look, seen
  <2>. QED
    BY <1>8, <2>1, <2>2 DEF Look
<1>9. CASE Pass(i)
  BY <1>5, <1>9 DEF Pass, seen
<1>10. CASE SnapshotFails(i)
  <2>1. /\ failedAt'[i] = failedAt[i] \union {at[i]} /\ noted' = noted
        /\ at'[i] = at[i] + 1
    BY <1>0, <1>10 DEF SnapshotFails, StateInv
  <2>. QED
    BY <1>2, <1>5, <2>1
<1>11. CASE \E price \in Prices : Buy(i, price)
  <2>1. Note(i, Want(i).depth) /\ failedAt' = failedAt
    BY <1>11 DEF Buy
  <2>2. k = at[i] => Want(i).depth >= Want(i).depth
    <3>1. Wants[i][k] \in [q : STRING, depth : Nat]
      BY <1>2, ElementOfSeq
    <3>2. Wants[i][k].depth >= Wants[i][k].depth
      BY <3>1
    <3>. QED
      BY <3>2 DEF Want
  <2>. QED
    BY <1>7, <2>1, <2>2
<1>12. ~\E price \in Prices : BulkBuy(i, price)
  BY <1>0, <1>4 DEF BulkBuy, KindInv
<1>. QED
  BY <1>1, <1>4, <1>6, <1>8, <1>9, <1>10, <1>11, <1>12
    DEF Works, VolumesLook, VolumesGuard, VolumesFail, GapGuard,
       RefreshLook, GapBuy, OverviewBuy

\* A tracker finishes at the end of its list.
LEMMA TrackedStep == IInv /\ [Next]_vars => DoneMeansTracked'
<1>. SUFFICES ASSUME IInv, [Next]_vars, NEW i \in Trackers, state'[i] = "done",
                     NEW k \in 1..Len(Wants[i])
              PROVE  k \in failedAt'[i] \/ RankFrom(ranked', i, k)
  BY DEF DoneMeansTracked, RankFrom
<1>0. StateInv /\ NotedInv /\ DoneMeansTracked /\ i \in Jobs /\ i \in Readers
  BY DEF IInv, Readers, Jobs
<1>1. i \notin Gaps /\ i \notin Refreshes /\ i \notin Briefs
  BY <1>0, SpendAssumption DEF Readers
<1>2. ranked \subseteq ranked'
  BY <1>0, TablesStep DEF Finish
<1>3. CASE JobStep(i)
  <2>1. Finish(i)
    BY <1>0, <1>3, WorkIsPrivate
      DEF JobStep, Works, Begin, Refuse, Break, Rollback, StateInv
  <2>2. k < at[i] /\ state[i] = "open"
    BY <1>0, <1>1, <2>1, SpendAssumption DEF Finish, StateInv
  <2>3. failedAt' = failedAt /\ ranked' = ranked \union noted[i]
    BY <2>1 DEF Finish
  <2>. QED
    BY <1>0, <2>2, <2>3 DEF NotedInv, RankFrom
<1>4. ASSUME ~JobStep(i) PROVE state[i] = "done" /\ failedAt'[i] = failedAt[i]
  <2>1. ASSUME NEW j \in Jobs, JobStep(j)
        PROVE  state[i] = "done" /\ failedAt'[i] = failedAt[i]
    BY <1>0, <1>4, <2>1, OthersWait DEF Untouched
  <2>2. CASE Expire \/ NewMonth \/ UNCHANGED vars
    BY <2>2 DEF Expire, NewMonth, vars, queue, seen
  <2>. QED
    BY <2>1, <2>2 DEF Next
<1>. QED
  BY <1>0, <1>2, <1>3, <1>4 DEF DoneMeansTracked, RankFrom

-----------------------------------------------------------------------------
(* The theorems *)

\* The invariant holds in every state any number of jobs can reach.
THEOREM InductiveInvariant == Spec => []IInv
<1>1. IInv /\ [Next]_vars => IInv'
  BY StateStep, KindStep, NamesStep, MetStep, PaidStep, GapStep, WantStep,
     MissStep, NotedStep, TrackedStep DEF IInv
<1>. QED
  BY InitInv, <1>1, PTL DEF Spec

\* A tracker or a brief that meets nobody stays below the cap and the price of
\* one call, whatever calls cost: require_dfs_budget before each purchase, in
\* the transaction that books it (spend.py, serp.py).
THEOREM SoloJobsRespectTheCap == Spec => []SoloRespectsCap
<1>1. IInv => SoloRespectsCap
  BY DEF IInv, PaidInv, SoloRespectsCap, Solo
<1>. QED
  BY <1>1, InductiveInvariant, PTL

\* More competitors cost no less.
LEMMA MoreCostMore ==
  ASSUME NEW d \in Nat, NEW a \in Nat, NEW b \in Nat, a <= b
  PROVE  d * a <= d * b
<1>1. d * b = d * a + d * (b - a) /\ b - a \in Nat
  OBVIOUS
<1>2. d * (b - a) \in Nat /\ d * a \in Nat
  BY <1>1
<1>. QED
  BY <1>1, <1>2

\* A gap job that meets nobody overshoots by less than its competitors cost at
\* the dearest price: keyword_gap guards once, then calls (labs.py).
THEOREM GapOvershoot == Spec => []GapOvershootBounded
<1>1. ASSUME IInv PROVE GapOvershootBounded
  <2>1. SUFFICES ASSUME NEW j \in Gaps, state[j] = "open",
                        met[j] = {}, ~turned[j], owed[j] > 0
                 PROVE  ledger[month] + owed[j] < Cap + Dearest * Competitors[j]
    BY DEF GapOvershootBounded
  <2>2. StateInv /\ KindInv /\ GapInv /\ j \in Jobs
    BY <1>1 DEF IInv, Jobs
  <2>3. /\ Dearest \in Nat /\ Competitors[j] \in Nat /\ at[j] - 1 \in Nat /\ Cap \in Nat
        /\ owed[j] \in Nat /\ ledger[month] \in Nat
    BY <2>2, DearestPrice, SpendAssumption DEF StateInv
  <2>4. step[j] = "call"
    BY <2>1, <2>2, <2>3 DEF KindInv
  <2>5. /\ at[j] - 1 <= Competitors[j]
        /\ ledger[month] + owed[j] < Cap + Dearest * (at[j] - 1)
    BY <2>1, <2>2, <2>3, <2>4, SMTT(30) DEF GapInv, Solo, StateInv
  <2>6. Dearest * (at[j] - 1) <= Dearest * Competitors[j]
    BY <2>3, <2>5, MoreCostMore
  <2>7. Dearest * (at[j] - 1) \in Nat /\ Dearest * Competitors[j] \in Nat
    BY <2>3
  <2>. QED
    BY <2>3, <2>5, <2>6, <2>7
<1>. QED
  BY <1>1, InductiveInvariant, PTL

\* A snapshot, a volume or a profile is bought only when nothing that is there to
\* be seen serves, other than what a job that was open with it has bought since
\* it looked: get_snapshot, get_volumes and the profile refresh look first.
THEOREM PurchasesAreReused == Spec => ReuseBeforeBuy
<1>1. ASSUME IInv, [Next]_vars, NEW j \in Jobs, NEW p \in bought'[j], p \notin bought[j],
             NEW s \in cache \union bought[j],
             s.table = p.table, s.q = p.q, s.depth >= p.depth
      PROVE  s.by \in met[j]
  <2>0. StateInv /\ KindInv /\ WantInv /\ MissInv
    BY <1>1 DEF IInv
  <2>1. ASSUME NEW price \in Prices, Buy(j, price) PROVE s.by \in met[j]
    <3>1. /\ j \in Readers /\ state[j] = "open" /\ step[j] = "call"
          /\ p = Purchase("snapshots", Want(j).q, Want(j).depth, j)
      BY <1>1, <2>0, <2>1 DEF Buy, StateInv
    <3>2. Serves(s, Want(j))
      BY <1>1, <3>1 DEF Serves, Purchase
    <3>. QED
      BY <2>0, <3>1, <3>2 DEF WantInv
  <2>2. ASSUME NEW price \in Prices, BulkBuy(j, price) PROVE s.by \in met[j]
    <3>1. /\ state[j] = "open" /\ step[j] = "charge"
          /\ p \in {Purchase(TableOf(j), q, 0, j) : q \in misses[j]}
      BY <1>1, <2>0, <2>2 DEF BulkBuy, TableOf, StateInv
    <3>2. PICK q \in misses[j] : p = Purchase(TableOf(j), q, 0, j)
      BY <3>1
    <3>3. s.table = TableOf(j) /\ s.q = q
      BY <1>1, <3>2 DEF Purchase
    <3>. QED
      BY <2>0, <3>1, <3>3 DEF MissInv
  <2>3. CASE bought'[j] \subseteq bought[j]
    BY <1>1, <2>3
  <2>4. ASSUME Works(j), ~\E price \in Prices : Buy(j, price) \/ BulkBuy(j, price)
        PROVE  bought' = bought
    BY <2>4
      DEF Works, Look, Pass, SnapshotFails, VolumesLook, VolumesGuard,
          VolumesFail, GapGuard, RefreshLook, GapBuy, OverviewBuy
  <2>5. ASSUME Refuse(j) \/ Break(j) \/ Finish(j) \/ Begin(j) PROVE bought'[j] \subseteq bought[j]
    BY <2>0, <2>5 DEF Refuse, Break, Finish, Begin, Rollback, Forget, StateInv
  <2>6. ASSUME NEW i \in Jobs, i # j, JobStep(i) PROVE bought'[j] = bought[j]
    BY <2>0, <2>6, OthersWait DEF Untouched
  <2>7. CASE Expire \/ NewMonth \/ UNCHANGED vars
    BY <2>3, <2>7 DEF Expire, NewMonth, vars, work
  <2>. QED
    BY <1>1, <2>1, <2>2, <2>3, <2>4, <2>5, <2>6, <2>7 DEF Next, JobStep, Works
<1>2. IInv /\ [Next]_vars =>
        [\A j \in Jobs :
           \A p \in bought'[j] \ bought[j], s \in cache \union bought[j] :
             s.table = p.table /\ s.q = p.q /\ s.depth >= p.depth => s.by \in met[j]]_vars
  BY <1>1
<1>. QED
  BY <1>2, InductiveInvariant, PTL DEF Spec, ReuseBeforeBuy

\* A tracker that is done has a rank for each query whose snapshot did not
\* fail: BudgetExceeded leaves track_site, SerpError is counted.
THEOREM TrackersAreDoneInFull == Spec => []DoneMeansTracked
<1>1. IInv => DoneMeansTracked
  BY DEF IInv
<1>. QED
  BY <1>1, InductiveInvariant, PTL

=============================================================================
