--------------------------- MODULE MeasurementProofs ---------------------------
(* Proofs about what is measured for a site: its Search Console days, the     *)
(* spend of its ad accounts, and its booked leads with their weekly card, for *)
(* any pages, channels, figures, messages and pulls.                          *)
EXTENDS GscIngest, AdsIngest, Leads, FiniteSums, FunctionTheorems, TLAPS

-----------------------------------------------------------------------------
(* The pulls of Search Console and what they make of their days *)

RunFields ==
  {"pc", "key", "began", "todo", "throttled", "day", "got", "final", "waits", "targets", "sums",
   "logs", "bumped", "ledger", "overlap", "late"}
RowFields    == {"day", "page", "id", "from", "dead"}
RollupFields == RowFields \union {"clicks"}
Steps == {"window", "next", "slice", "clear", "sum", "log", "ledger"}

Active(r) == run[r] # NoRun

\* A transaction that has made a day's log entry keeps it, and one that pulls
\* whole windows has touched no day.
RunsInv ==
  /\ run = [r \in Runs |-> run[r]]
  /\ \A r \in Runs : Active(r) =>
       /\ DOMAIN run[r] = RunFields /\ run[r].pc \in Steps /\ run[r].waits \in BOOLEAN
       /\ run[r].got \subseteq Pages
       /\ run[r].pc \in {"ledger", "next"} /\ run[r].day # 0 => run[r].day \in DOMAIN run[r].logs
       /\ run[r].pc = "window" => run[r].day = 0 /\ DOMAIN run[r].logs = {}

\* A waiting roll-up statement holds at most one figure of a page.
SumsInv ==
  \A r \in Runs : Active(r) /\ run[r].waits /\ run[r].pc = "sum" =>
    /\ \A y \in run[r].sums : /\ DOMAIN y = RollupFields /\ y.page \in Pages
                              /\ y.day = run[r].day /\ y.from = r /\ y.dead = Nobody
    /\ \A y, z \in run[r].sums : y.page = z.page => y = z

\* A row is deleted by a transaction that sees it.
Tidy(x) == /\ x.from \in Runs \union {Committed} /\ x.dead \in Runs \union {Nobody}
           /\ x.page \in Pages
           /\ x.dead \in Runs => x.from \in {Committed, x.dead}

\* Who wrote or deleted a row is at its day or has logged it.
Held(x) == /\ x.from \in Runs => Touches(x.from, x.day)
           /\ x.dead \in Runs => Touches(x.dead, x.day)

TablesInv ==
  /\ \A x \in rows : DOMAIN x = RowFields /\ Tidy(x) /\ (x.day \in Days => Held(x))
  /\ \A x \in rollups : DOMAIN x = RollupFields /\ Tidy(x) /\ (x.day \in Days => Held(x))

\* Two transactions that touch one day know it.
OverlapsInv ==
  \A r, u \in Runs : r # u => \A d \in Days : Touches(r, d) /\ Touches(u, d) => d \in run[r].overlap

\* One replaces the other: it was written by the transaction that deletes it.
Replaces(y, x) == x.dead \in Runs /\ x.dead = y.from

\* The primary key of gsc_page_daily.
KeyInv ==
  \A x, y \in rollups : x.day = y.day /\ x.page = y.page => x = y \/ Replaces(y, x) \/ Replaces(x, y)

\* The rows and the figures of a page that v sees; Committed sees what a
\* reader does.
Seen(v, d, p, table) ==
  {x \in table : x.day = d /\ x.page = p /\ x.from \in {Committed, v} /\ x.dead # v}
Ids(v, d, p)     == {x.id : x \in Seen(v, d, p, rows)}
ClicksOf(v, d, p) == {x.clicks : x \in Seen(v, d, p, rollups)}

MatchAt(v, d, p) ==
  ClicksOf(v, d, p) = IF Ids(v, d, p) = {} THEN {} ELSE {Cardinality(Ids(v, d, p))}
Match(v, d) == \A p \in Pages : MatchAt(v, d, p)

AtDay(r, d, pcs) == Active(r) /\ run[r].day = d /\ run[r].pc \in pcs
Recomputed(r, d) == Touches(r, d) /\ ~AtDay(r, d, {"slice", "clear", "sum"})

\* Nothing that waited has spoilt the roll-up r makes of the day.
Prompt(r, d) == d \notin run[r].late /\ (d \notin lagging \/ d \notin run[r].overlap)

CommittedMatch == \A d \in Days \ lagging : Match(Committed, d)
OwnMatchAt(r, d) == Recomputed(r, d) /\ Prompt(r, d) => Match(r, d)

\* A live row of its own comes with a live figure of its own,
OwnFigureAt(r, d) ==
  Recomputed(r, d) /\ Prompt(r, d) =>
    \A x \in rows : x.day = d /\ x.from = r /\ x.dead # r =>
      \E y \in rollups : y.day = d /\ y.page = x.page /\ y.from = r /\ y.dead # r

\* and a row it deletes with a figure it deletes.
GoneFigureAt(r, d) ==
  (Recomputed(r, d) \/ AtDay(r, d, {"sum"})) /\ d \notin run[r].late /\ d \notin lagging =>
    \A x \in rows : x.day = d /\ x.from = Committed /\ x.dead = r =>
      \E y \in rollups : y.day = d /\ y.page = x.page /\ y.from = Committed /\ y.dead = r

\* Before its roll-up is summed nothing of the old one is left to it, and
\* nothing at all when no other pull is about.
ClearedAt(r, d) ==
  AtDay(r, d, {"sum"}) /\ d \notin run[r].late =>
    /\ \A x \in rollups : x.day = d /\ x.from = r => x.dead = r
    /\ d \notin run[r].overlap => \A x \in rollups : x.day = d => x.dead = r

OwnMatch   == \A r \in Runs, d \in Days : OwnMatchAt(r, d)
OwnFigure  == \A r \in Runs, d \in Days : OwnFigureAt(r, d)
GoneFigure == \A r \in Runs, d \in Days : GoneFigureAt(r, d)
ClearedInv == \A r \in Runs, d \in Days : ClearedAt(r, d)

GscInv == /\ RunsInv /\ SumsInv /\ TablesInv /\ OverlapsInv /\ KeyInv
          /\ CommittedMatch /\ OwnMatch /\ OwnFigure /\ GoneFigure /\ ClearedInv

-----------------------------------------------------------------------------

\* Facts of the constants.
LEMMA GscConstants ==
  /\ Committed \notin Runs /\ Nobody \notin Runs /\ Committed # Nobody /\ 0 \notin Days
BY GscAssumption DEF Committed, Nobody, Days

\* A statement that writes no table, a commit without rows: what was right of
\* the tables stays right.
Benign ==
  /\ UNCHANGED <<rows, rollups, lagging>>
  /\ \A u \in Runs, d \in Days :
       /\ Touches(u, d) => Touches(u, d)'
       /\ Recomputed(u, d)' => Recomputed(u, d)
       /\ AtDay(u, d, {"sum"})' => AtDay(u, d, {"sum"})
       /\ Touches(u, d)' => /\ run[u].late \subseteq run'[u].late
                            /\ run[u].overlap \subseteq run'[u].overlap

\* Such a step keeps all that is said of the tables.
LEMMA BenignKeeps ==
  ASSUME RunsInv, TablesInv, KeyInv, CommittedMatch, OwnMatch, OwnFigure, GoneFigure, ClearedInv, Benign
  PROVE  TablesInv' /\ KeyInv' /\ CommittedMatch' /\ OwnMatch' /\ OwnFigure' /\ GoneFigure' /\ ClearedInv'
<1>1. TablesInv'
  BY DEF TablesInv, Benign, Tidy, Held
<1>2. KeyInv'
  BY DEF KeyInv, Benign, Replaces
<1>3. \A v, d : Match(v, d)' <=> Match(v, d)
  BY DEF Benign, Match, MatchAt, ClicksOf, Ids, Seen
<1>4. CommittedMatch'
  BY <1>3 DEF CommittedMatch, Benign
<1>5. ASSUME NEW u \in Runs, NEW d \in Days, Touches(u, d)', d \notin run'[u].late
      PROVE  d \notin run[u].late /\ (Prompt(u, d)' => Prompt(u, d))
  BY <1>5 DEF Benign, Prompt
<1>6. ASSUME NEW u \in Runs, NEW d \in Days
      PROVE  Recomputed(u, d)' => Recomputed(u, d) /\ Touches(u, d)'
  BY DEF Benign, Recomputed
<1>7. ASSUME NEW u \in Runs, NEW d \in Days
      PROVE  AtDay(u, d, {"sum"})' => AtDay(u, d, {"sum"}) /\ Touches(u, d)'
  BY DEF Benign, AtDay, Touches, Active
<1>8. OwnMatch'
  BY <1>3, <1>5, <1>6 DEF OwnMatch, OwnMatchAt, Prompt
<1>9. OwnFigure'
  BY <1>5, <1>6 DEF OwnFigure, OwnFigureAt, Benign, Prompt
<1>10. GoneFigure'
  BY <1>5, <1>6, <1>7 DEF GoneFigure, GoneFigureAt, Benign
<1>11. ClearedInv'
  BY <1>5, <1>7 DEF ClearedInv, ClearedAt, Benign
<1>. QED
  BY <1>1, <1>2, <1>4, <1>8, <1>9, <1>10, <1>11

\* A worker takes up a job: its transaction has touched no day yet.
LEMMA ClaimKeeps ==
  ASSUME GscInv, NEW r \in Runs, NEW key, Claim(r, key)
  PROVE  RunsInv' /\ SumsInv' /\ OverlapsInv' /\ Benign
<1>0. RunsInv /\ SumsInv /\ OverlapsInv
  BY DEF GscInv
<1>1. /\ \A u \in Runs \ {r} : run'[u] = run[u]
      /\ run' = [u \in Runs |-> run'[u]]
      /\ DOMAIN run'[r] = RunFields
      /\ run'[r].pc \in {"window", "next"} /\ run'[r].waits = FALSE /\ run'[r].day = 0
      /\ run'[r].got = {} /\ run'[r].logs = << >>
      /\ UNCHANGED <<rows, rollups, lagging>>
  BY <1>0 DEF Claim, tables, RunsInv, RunFields, history
<1>2. DOMAIN run'[r].logs = {} /\ 0 \notin Days
  BY <1>1, GscConstants
<1>3. \A d \in Days : ~Touches(r, d)'
  BY <1>1, <1>2 DEF Touches
<1>4. \A d \in Days : ~Touches(r, d)
  BY DEF Touches, Claim
<1>5. RunsInv'
  BY <1>0, <1>1, <1>2 DEF RunsInv, Active, Steps
<1>6. SumsInv'
  BY <1>0, <1>1 DEF SumsInv, Active
<1>7. OverlapsInv'
  BY <1>0, <1>1, <1>3 DEF OverlapsInv, Touches
<1>8. Benign
  BY <1>1, <1>3, <1>4 DEF Benign, Touches, Recomputed, AtDay, Active
<1>. QED
  BY <1>5, <1>6, <1>7, <1>8

\* The end of the first pull, which only enqueues the backfill.
LEMMA InitialPullKeeps ==
  ASSUME GscInv, NEW r \in Runs, InitialPull(r)
  PROVE  RunsInv' /\ SumsInv' /\ OverlapsInv' /\ Benign
<1>0. RunsInv /\ SumsInv /\ OverlapsInv
  BY DEF GscInv
<1>1. /\ \A u \in Runs \ {r} : run'[u] = run[u]
      /\ run' = [u \in Runs |-> run'[u]]
      /\ run'[r] = NoRun
      /\ UNCHANGED <<rows, rollups, lagging>>
  BY <1>0 DEF InitialPull, tables, RunsInv
<1>2. \A d \in Days : ~Touches(r, d)
  BY <1>0, GscConstants DEF InitialPull, RunsInv, Touches, Active
<1>3. \A d \in Days : ~Touches(r, d)'
  BY <1>1 DEF Touches
<1>5. RunsInv'
  BY <1>0, <1>1 DEF RunsInv, Active
<1>6. SumsInv'
  BY <1>0, <1>1 DEF SumsInv, Active
<1>7. OverlapsInv'
  BY <1>0, <1>1, <1>3 DEF OverlapsInv, Touches
<1>8. Benign
  BY <1>1, <1>2, <1>3 DEF Benign, Touches, Recomputed, AtDay, Active
<1>. QED
  BY <1>5, <1>6, <1>7, <1>8

\* A step of a transaction that stays at its day and at its statement, or moves
\* between two that leave the tables alone.
LEMMA SameDayKeeps ==
  ASSUME GscInv, NEW r \in Runs, Active(r),
         \A u \in Runs \ {r} : run'[u] = run[u], run' = [u \in Runs |-> run'[u]],
         DOMAIN run'[r] = RunFields, run'[r].waits \in BOOLEAN,
         run'[r].day = run[r].day, run'[r].got = run[r].got,
         run'[r].overlap = run[r].overlap, run'[r].late = run[r].late,
         DOMAIN run[r].logs \subseteq DOMAIN run'[r].logs,
         DOMAIN run'[r].logs \subseteq DOMAIN run[r].logs \union {run[r].day},
         run'[r].pc \in {"next", "slice", "clear", "sum", "log", "ledger"},
         run'[r].pc \in {"ledger", "next"} /\ run[r].day # 0 => run[r].day \in DOMAIN run'[r].logs,
         run'[r].pc # run[r].pc => run[r].pc \notin {"slice", "clear", "sum"}
                                   /\ run'[r].pc \notin {"slice", "clear", "sum"},
         UNCHANGED <<rows, rollups, lagging>>
  PROVE  RunsInv' /\ OverlapsInv' /\ Benign
<1>0. RunsInv /\ OverlapsInv
  BY DEF GscInv
<1>1. Active(r)' /\ \A d : Touches(r, d)' <=> Touches(r, d)
  BY DEF Touches, Active, NoRun, RunFields
<1>2. \A u \in Runs, d \in Days : Touches(u, d)' <=> Touches(u, d)
  BY <1>1 DEF Touches
<1>3. RunsInv'
  BY <1>0, <1>1 DEF RunsInv, Active, Steps
<1>4. OverlapsInv'
  BY <1>0, <1>2 DEF OverlapsInv
<1>5. \A u \in Runs, d \in Days :
        /\ AtDay(u, d, {"sum"})' <=> AtDay(u, d, {"sum"})
        /\ AtDay(u, d, {"slice", "clear", "sum"})' <=> AtDay(u, d, {"slice", "clear", "sum"})
  BY <1>1 DEF AtDay, Active
<1>6. Benign
  BY <1>2, <1>5 DEF Benign, Recomputed
<1>. QED
  BY <1>3, <1>4, <1>6

\* The quota or a throttled answer ends the loop over the days.
LEMMA StopEarlyKeeps ==
  ASSUME GscInv, NEW r \in Runs, StopEarly(r)
  PROVE  RunsInv' /\ SumsInv' /\ OverlapsInv' /\ Benign
<1>0. RunsInv /\ SumsInv
  BY DEF GscInv
<1>1. Active(r) /\ DOMAIN run[r] = RunFields
  BY <1>0 DEF StopEarly, RunsInv, Active, NoRun
<1>2. /\ \A u \in Runs \ {r} : run'[u] = run[u]
      /\ run' = [u \in Runs |-> run'[u]]
      /\ DOMAIN run'[r] = RunFields
      /\ run'[r].pc = "next" /\ run'[r].waits = run[r].waits
      /\ run'[r].day = run[r].day /\ run'[r].got = run[r].got /\ run'[r].logs = run[r].logs
      /\ run'[r].overlap = run[r].overlap /\ run'[r].late = run[r].late
      /\ UNCHANGED <<rows, rollups, lagging>>
  BY <1>0, <1>1 DEF StopEarly, tables, history, RunsInv, RunFields
<1>3. SumsInv'
  BY <1>0, <1>2 DEF SumsInv, Active
<1>. QED
  BY <1>0, <1>1, <1>2, <1>3, SameDayKeeps DEF RunsInv, StopEarly

\* The log entry of the day at hand.
LEMMA UpsertLogKeeps ==
  ASSUME GscInv, NEW r \in Runs, UpsertLog(r)
  PROVE  RunsInv' /\ SumsInv' /\ OverlapsInv' /\ Benign
<1>0. RunsInv /\ SumsInv
  BY DEF GscInv
<1>1. Active(r) /\ DOMAIN run[r] = RunFields
  <2>1. run[r].pc = "log"
    BY DEF UpsertLog
  <2>. QED
    BY <1>0, <2>1 DEF RunsInv, Active, NoRun
<1>2. /\ \A u \in Runs \ {r} : run'[u] = run[u]
      /\ run' = [u \in Runs |-> run'[u]]
      /\ DOMAIN run'[r] = RunFields
      /\ run'[r].pc = "ledger" /\ run'[r].waits = run[r].waits
      /\ run'[r].day = run[r].day /\ run'[r].got = run[r].got
      /\ DOMAIN run'[r].logs = DOMAIN run[r].logs \union {run[r].day}
      /\ run'[r].overlap = run[r].overlap /\ run'[r].late = run[r].late
      /\ UNCHANGED <<rows, rollups, lagging>>
  BY <1>0, <1>1 DEF UpsertLog, tables, history, RunsInv, RunFields
<1>3. SumsInv'
  BY <1>0, <1>2 DEF SumsInv, Active
<1>. QED
  BY <1>0, <1>1, <1>2, <1>3, SameDayKeeps DEF RunsInv, UpsertLog

\* The quota is charged for the day at hand.
LEMMA BumpQuotaKeeps ==
  ASSUME GscInv, NEW r \in Runs, BumpQuota(r)
  PROVE  RunsInv' /\ SumsInv' /\ OverlapsInv' /\ Benign
<1>0. RunsInv /\ SumsInv
  BY DEF GscInv
<1>1. Active(r) /\ DOMAIN run[r] = RunFields
  BY <1>0 DEF BumpQuota, RunsInv, Active, NoRun
<1>2. /\ \A u \in Runs \ {r} : run'[u] = run[u]
      /\ run' = [u \in Runs |-> run'[u]]
      /\ DOMAIN run'[r] = RunFields
      /\ run'[r].pc = "next" /\ run'[r].waits = run[r].waits
      /\ run'[r].day = run[r].day /\ run'[r].got = run[r].got /\ run'[r].logs = run[r].logs
      /\ run'[r].overlap = run[r].overlap /\ run'[r].late = run[r].late
      /\ UNCHANGED <<rows, rollups, lagging>>
  BY <1>0, <1>1 DEF BumpQuota, tables, history, RunsInv, RunFields
<1>3. SumsInv'
  BY <1>0, <1>2 DEF SumsInv, Active
<1>. QED
  BY <1>0, <1>1, <1>2, <1>3, SameDayKeeps DEF RunsInv, BumpQuota

Count(S, p) == Cardinality({x.id : x \in {z \in S : z.page = p}})

\* The figures a roll-up statement is to write.
LEMMA RollupOfShape ==
  ASSUME NEW r, NEW S, \A x \in S : x.page \in Pages
  PROVE  /\ \A y \in RollupOf(r, S) :
              /\ DOMAIN y = RollupFields /\ y.page \in Pages
              /\ y.day = run[r].day /\ y.from = r /\ y.dead = Nobody
              /\ y.clicks = Count(S, y.page)
              /\ \E x \in S : x.page = y.page
         /\ \A y, z \in RollupOf(r, S) : y.page = z.page => y = z
         /\ \A x \in S : \E y \in RollupOf(r, S) : y.page = x.page
<1>. DEFINE SumOf(p) == [day |-> run[r].day, page |-> p, clicks |-> Count(S, p),
                         id |-> FreshId(rollups), from |-> r, dead |-> Nobody]
            Named     == {x.page : x \in S}
<1>1. RollupOf(r, S) = {SumOf(p) : p \in Named}
  BY DEF RollupOf, Count
<1>2. ASSUME NEW p
      PROVE  /\ DOMAIN SumOf(p) = RollupFields /\ SumOf(p).page = p
             /\ SumOf(p).day = run[r].day /\ SumOf(p).from = r /\ SumOf(p).dead = Nobody
             /\ SumOf(p).clicks = Count(S, p)
  BY DEF RollupFields, RowFields
<1>3. \A p \in Named : p \in Pages /\ \E x \in S : x.page = p
  OBVIOUS
<1>4. \A x \in S : x.page \in Named
  OBVIOUS
<1>. HIDE DEF SumOf, Named
<1>5. \A y \in RollupOf(r, S) : \E p \in Named : y = SumOf(p) /\ y.page = p
  BY <1>1, <1>2
<1>6. \A y, z \in RollupOf(r, S) : y.page = z.page => y = z
  BY <1>5
<1>7. \A x \in S : \E y \in RollupOf(r, S) : y.page = x.page
  BY <1>1, <1>2, <1>4
<1>8. \A y \in RollupOf(r, S) :
         /\ DOMAIN y = RollupFields /\ y.page \in Pages
         /\ y.day = run[r].day /\ y.from = r /\ y.dead = Nobody
         /\ y.clicks = Count(S, y.page)
         /\ \E x \in S : x.page = y.page
  BY <1>2, <1>3, <1>5
<1>. QED
  BY <1>6, <1>7, <1>8

\* A statement waits, with what it has summed so far.
LEMMA WaitKeeps ==
  ASSUME GscInv, NEW r \in Runs, Wait(r)
  PROVE  RunsInv' /\ SumsInv' /\ OverlapsInv' /\ Benign
<1>0. RunsInv /\ SumsInv /\ TablesInv
  BY DEF GscInv
<1>1. Active(r) /\ DOMAIN run[r] = RunFields /\ ~run[r].waits
  BY <1>0 DEF Wait, RunsInv, Active, NoRun
<1>2. /\ \A u \in Runs \ {r} : run'[u] = run[u]
      /\ run' = [u \in Runs |-> run'[u]]
      /\ DOMAIN run'[r] = RunFields
      /\ run'[r].pc = run[r].pc /\ run'[r].waits = TRUE
      /\ run'[r].day = run[r].day /\ run'[r].got = run[r].got /\ run'[r].logs = run[r].logs
      /\ run'[r].overlap = run[r].overlap /\ run'[r].late = run[r].late
      /\ run'[r].pc = "sum" => run'[r].sums = Summed(r)
      /\ UNCHANGED <<rows, rollups, lagging>>
  BY <1>0, <1>1 DEF Wait, tables, history, RunsInv, RunFields
<1>3. \A x \in {y \in Visible(r, rows) : y.day = run[r].day} : x.page \in Pages
  BY <1>0 DEF Visible, TablesInv, Tidy
<1>4. /\ \A y \in Summed(r) : /\ DOMAIN y = RollupFields /\ y.page \in Pages
                              /\ y.day = run[r].day /\ y.from = r /\ y.dead = Nobody
      /\ \A y, z \in Summed(r) : y.page = z.page => y = z
  <2>. DEFINE S == {y \in Visible(r, rows) : y.day = run[r].day}
  <2>1. Summed(r) = RollupOf(r, S)
    BY <1>1 DEF Summed
  <2>2. \A x \in S : x.page \in Pages
    BY <1>3
  <2>. HIDE DEF S
  <2>. QED
    BY <2>1, <2>2, RollupOfShape
<1>5. SumsInv'
  BY <1>0, <1>2, <1>4 DEF SumsInv, Active
<1>6. run[r].pc \in {"slice", "clear", "sum"}
  BY DEF Wait
<1>. QED
  BY <1>0, <1>1, <1>2, <1>5, <1>6, SameDayKeeps

\* A pull turns to its next day, and whoever has touched it is told.
LEMMA PullDayKeeps ==
  ASSUME GscInv, NEW r \in Runs, PullDay(r)
  PROVE  RunsInv' /\ SumsInv' /\ OverlapsInv' /\ Benign
<1>0. RunsInv /\ SumsInv /\ OverlapsInv
  BY DEF GscInv
<1>. DEFINE d0     == Head(run[r].todo)
            others == {u \in Runs \ {r} : Touches(u, d0)}
<1>a. run[r].pc = "next" /\ UNCHANGED <<rows, rollups, lagging>>
  BY DEF PullDay, tables, history
<1>1. Active(r) /\ DOMAIN run[r] = RunFields
  BY <1>0, <1>a DEF RunsInv, Active, NoRun
<1>2. PICK got \in SUBSET Pages :
        run' = [u \in Runs |->
             CASE u = r -> [run[r] EXCEPT !.pc = "slice", !.todo = Tail(@), !.day = d0,
                              !.got = got, !.final = IsFinal(d0),
                              !.overlap = IF others = {} THEN @ ELSE @ \union {d0}]
               [] u \in others -> [run[u] EXCEPT !.overlap = @ \union {d0}]
               [] OTHER -> run[u]]
  BY DEF PullDay, QueryAll
<1>3. /\ run' = [u \in Runs |-> run'[u]]
      /\ run'[r] = [run[r] EXCEPT !.pc = "slice", !.todo = Tail(@), !.day = d0,
                              !.got = got, !.final = IsFinal(d0),
                              !.overlap = IF others = {} THEN @ ELSE @ \union {d0}]
      /\ \A u \in others : u # r /\ run'[u] = [run[u] EXCEPT !.overlap = @ \union {d0}]
      /\ \A u \in Runs \ {r} : u \notin others => run'[u] = run[u]
  BY <1>2
<1>4. /\ DOMAIN run'[r] = RunFields /\ run'[r].pc = "slice" /\ run'[r].waits = run[r].waits
      /\ run'[r].day = d0 /\ run'[r].got = got /\ run'[r].logs = run[r].logs
      /\ run'[r].late = run[r].late
      /\ run'[r].overlap = IF others = {} THEN run[r].overlap ELSE run[r].overlap \union {d0}
  BY <1>1, <1>3 DEF RunFields
<1>5. ASSUME NEW u \in others
      PROVE  /\ Active(u) /\ DOMAIN run'[u] = RunFields /\ run'[u].overlap = run[u].overlap \union {d0}
             /\ \A f \in RunFields \ {"overlap"} : run'[u][f] = run[u][f]
  <2>1. Active(u) /\ DOMAIN run[u] = RunFields /\ "overlap" \in RunFields
    BY <1>0 DEF Touches, Active, RunsInv, RunFields
  <2>. QED
    BY <1>3, <2>1
<1>. HIDE DEF d0, others
<1>6. ASSUME NEW u \in Runs \ {r}
      PROVE  /\ Active(u)' <=> Active(u)
             /\ Active(u) => /\ DOMAIN run'[u] = RunFields
                             /\ run'[u].pc = run[u].pc /\ run'[u].waits = run[u].waits
                             /\ run'[u].day = run[u].day /\ run'[u].got = run[u].got
                             /\ run'[u].sums = run[u].sums
                             /\ run'[u].logs = run[u].logs /\ run'[u].late = run[u].late
                             /\ run[u].overlap \subseteq run'[u].overlap
             /\ \A d : Touches(u, d)' <=> Touches(u, d)
  <2>1. CASE u \in others
    <3>1. Active(u)'
      BY <1>5, <2>1 DEF Active, NoRun, RunFields
    <3>2. /\ run'[u].pc = run[u].pc /\ run'[u].waits = run[u].waits
          /\ run'[u].day = run[u].day /\ run'[u].got = run[u].got
          /\ run'[u].sums = run[u].sums
          /\ run'[u].logs = run[u].logs /\ run'[u].late = run[u].late
      BY <1>5, <2>1 DEF RunFields
    <3>3. \A d : Touches(u, d)' <=> Touches(u, d)
      BY <1>5, <2>1, <3>1, <3>2 DEF Touches, Active
    <3>. QED
      BY <1>5, <2>1, <3>1, <3>2, <3>3
  <2>2. CASE u \notin others
    BY <1>0, <1>3, <2>2 DEF RunsInv, Active, Touches
  <2>. QED
    BY <2>1, <2>2
<1>7. Active(r)'
  BY <1>4 DEF Active, NoRun, RunFields
<1>8. \A d \in Days : Touches(r, d)' <=> Touches(r, d) \/ d = d0
  BY <1>0, <1>1, <1>4, <1>7, <1>a, GscConstants DEF Touches, Active, RunsInv
<1>9. RunsInv'
  <2>1. \A u \in Runs \ {r} : Active(u)' =>
           /\ DOMAIN run'[u] = RunFields /\ run'[u].pc \in Steps /\ run'[u].waits \in BOOLEAN
           /\ run'[u].got \subseteq Pages
           /\ run'[u].pc \in {"ledger", "next"} /\ run'[u].day # 0 => run'[u].day \in DOMAIN run'[u].logs
           /\ run'[u].pc = "window" => run'[u].day = 0 /\ DOMAIN run'[u].logs = {}
    BY <1>0, <1>6 DEF RunsInv
  <2>2. /\ DOMAIN run'[r] = RunFields /\ run'[r].pc \in Steps /\ run'[r].waits \in BOOLEAN
        /\ run'[r].got \subseteq Pages /\ run'[r].pc = "slice"
    BY <1>0, <1>1, <1>4 DEF RunsInv, Steps
  <2>. QED
    BY <1>3, <2>1, <2>2 DEF RunsInv, Active
<1>10. SumsInv'
  BY <1>0, <1>4, <1>6 DEF SumsInv
<1>11. OverlapsInv'
  <2>. SUFFICES ASSUME NEW u \in Runs, NEW v \in Runs, u # v, NEW d \in Days,
                       Touches(u, d)', Touches(v, d)'
                PROVE  d \in run'[u].overlap
    BY DEF OverlapsInv
  <2>1. CASE u # r /\ v # r
    BY <1>0, <1>6, <2>1 DEF OverlapsInv, Touches, Active
  <2>2. CASE u = r
    <3>1. Touches(v, d)
      BY <1>6, <2>2
    <3>2. CASE Touches(r, d)
      BY <1>0, <1>4, <2>2, <3>1, <3>2 DEF OverlapsInv
    <3>3. CASE d = d0
      BY <1>4, <2>2, <3>1, <3>3 DEF others
    <3>. QED
      BY <1>8, <2>2, <3>2, <3>3
  <2>3. CASE v = r
    <3>1. Touches(u, d)
      BY <1>6, <2>3
    <3>2. CASE Touches(r, d)
      BY <1>0, <1>6, <2>3, <3>1, <3>2 DEF OverlapsInv, Touches, Active
    <3>3. CASE d = d0
      BY <1>5, <2>3, <3>1, <3>3 DEF others
    <3>. QED
      BY <1>8, <2>3, <3>2, <3>3
  <2>. QED
    BY <2>1, <2>2, <2>3
<1>12. ASSUME NEW d \in Days
       PROVE  /\ Touches(r, d) => Touches(r, d)'
              /\ Recomputed(r, d)' => Recomputed(r, d)
              /\ ~AtDay(r, d, {"sum"})'
  BY <1>4, <1>7, <1>8, <1>a DEF Recomputed, AtDay
<1>13. ASSUME NEW u \in Runs \ {r}, NEW d \in Days
       PROVE  /\ Touches(u, d) <=> Touches(u, d)'
              /\ Recomputed(u, d)' <=> Recomputed(u, d)
              /\ AtDay(u, d, {"sum"})' <=> AtDay(u, d, {"sum"})
  <2>1. \A pcs : AtDay(u, d, pcs)' <=> AtDay(u, d, pcs)
    BY <1>6 DEF AtDay
  <2>. QED
    BY <1>6, <2>1 DEF Recomputed, AtDay
<1>14. ASSUME NEW u \in Runs, NEW d \in Days, Touches(u, d)'
       PROVE  run[u].late \subseteq run'[u].late /\ run[u].overlap \subseteq run'[u].overlap
  BY <1>4, <1>6, <1>14 DEF Touches, Active
<1>15. Benign
  BY <1>12, <1>13, <1>14, <1>a DEF Benign
<1>. QED
  BY <1>9, <1>10, <1>11, <1>15

\* What a step of r leaves alone for the others: their own live rows, the rows
\* they delete, and what of a day is not deleted by them, as far as r is not
\* at that day.
OthersAlike(t, t2, r) ==
  \A u \in Runs \ {r} :
    /\ \A y \in t2 : y.from = u /\ y.dead # u =>
         \E x \in t : x.day = y.day /\ x.page = y.page /\ x.from = u /\ x.dead # u
    /\ \A x \in t : x.from = u /\ x.dead # u =>
         \E y \in t2 : x.day = y.day /\ x.page = y.page /\ y.from = u /\ y.dead # u
    /\ \A y \in t2 : y.from = Committed /\ y.dead = u =>
         \E x \in t : x.day = y.day /\ x.page = y.page /\ x.from = Committed /\ x.dead = u
    /\ \A x \in t : x.from = Committed /\ x.dead = u =>
         \E y \in t2 : x.day = y.day /\ x.page = y.page /\ y.from = Committed /\ y.dead = u
    /\ \A y \in t2 : y.dead # u /\ y.day \in Days =>
         Touches(r, y.day) \/ \E x \in t : x.day = y.day /\ x.dead # u

\* So what holds of another transaction holds after the step of r.
LEMMA OthersKeep ==
  ASSUME GscInv, NEW r \in Runs, \A u \in Runs \ {r} : run'[u] = run[u],
         OthersAlike(rows, rows', r), OthersAlike(rollups, rollups', r),
         NEW u \in Runs \ {r}, NEW d \in Days, Touches(u, d) /\ d \in lagging => d \in lagging'
  PROVE  /\ OwnFigureAt(u, d)' /\ GoneFigureAt(u, d)' /\ ClearedAt(u, d)'
         /\ Recomputed(u, d)' /\ Prompt(u, d)' => Recomputed(u, d) /\ Prompt(u, d)
<1>1. run'[u] = run[u]
  OBVIOUS
<1>2. /\ Touches(u, d)' <=> Touches(u, d)
      /\ Recomputed(u, d)' <=> Recomputed(u, d)
      /\ AtDay(u, d, {"sum"})' <=> AtDay(u, d, {"sum"})
  BY <1>1 DEF Touches, Recomputed, AtDay, Active
<1>3. Recomputed(u, d)' => (Prompt(u, d)' => Prompt(u, d))
  BY <1>1, <1>2 DEF Prompt, Recomputed
<1>4. AtDay(u, d, {"sum"}) => Touches(u, d)
  BY DEF AtDay, Touches, Active
<1>5. OwnFigureAt(u, d) /\ GoneFigureAt(u, d) /\ ClearedAt(u, d)
  BY DEF GscInv, OwnFigure, GoneFigure, ClearedInv
<1>6. OwnFigureAt(u, d)'
  <2>. SUFFICES ASSUME Recomputed(u, d)', Prompt(u, d)', NEW x \in rows',
                       x.day = d, x.from = u, x.dead # u
                PROVE  \E y \in rollups' : y.day = d /\ y.page = x.page /\ y.from = u /\ y.dead # u
    BY DEF OwnFigureAt
  <2>1. PICK z \in rows : z.day = d /\ z.page = x.page /\ z.from = u /\ z.dead # u
    BY DEF OthersAlike
  <2>2. PICK y \in rollups : y.day = d /\ y.page = x.page /\ y.from = u /\ y.dead # u
    BY <1>2, <1>3, <1>5, <2>1 DEF OwnFigureAt
  <2>. QED
    BY <2>2 DEF OthersAlike
<1>7. GoneFigureAt(u, d)'
  <2>. SUFFICES ASSUME Recomputed(u, d) \/ AtDay(u, d, {"sum"}), d \notin run[u].late,
                       d \notin lagging, NEW x \in rows',
                       x.day = d, x.from = Committed, x.dead = u
                PROVE  \E y \in rollups' : y.day = d /\ y.page = x.page /\ y.from = Committed /\ y.dead = u
    BY <1>1, <1>2, <1>4 DEF GoneFigureAt, Recomputed
  <2>1. PICK z \in rows : z.day = d /\ z.page = x.page /\ z.from = Committed /\ z.dead = u
    BY DEF OthersAlike
  <2>2. PICK y \in rollups : y.day = d /\ y.page = x.page /\ y.from = Committed /\ y.dead = u
    BY <1>5, <2>1 DEF GoneFigureAt
  <2>. QED
    BY <2>2 DEF OthersAlike
<1>8. ClearedAt(u, d)'
  <2>. SUFFICES ASSUME AtDay(u, d, {"sum"}), d \notin run[u].late, NEW x \in rollups', x.day = d,
                       x.dead # u
                PROVE  x.from # u /\ d \in run[u].overlap
    BY <1>1, <1>2 DEF ClearedAt
  <2>1. x.from # u
    BY <1>5 DEF OthersAlike, ClearedAt
  <2>2. CASE Touches(r, d)
    BY <1>4, <2>1, <2>2 DEF GscInv, OverlapsInv
  <2>3. CASE ~Touches(r, d)
    <3>1. PICK z \in rollups : z.day = d /\ z.dead # u
      BY <2>3 DEF OthersAlike
    <3>. QED
      BY <1>5, <2>1, <3>1 DEF ClearedAt
  <2>. QED
    BY <2>1, <2>2, <2>3
<1>. QED
  BY <1>2, <1>3, <1>6, <1>7, <1>8

-----------------------------------------------------------------------------
(* The end of a transaction, aborted or committed *)

\* A row as an abort, and as a commit, of r leaves it.
UndoRow(x, r)    == [x EXCEPT !.dead = IF @ = r THEN Nobody ELSE @]
PublishRow(x, r) == [x EXCEPT !.from = IF @ = r THEN Committed ELSE @]

\* The same row, figure or log entry under another writer or deleter.
Alike(y, x) ==
  /\ DOMAIN y = DOMAIN x /\ y.day = x.day /\ y.page = x.page /\ y.id = x.id
  /\ "clicks" \in DOMAIN x => y.clicks = x.clicks

\* The end of a transaction changes nothing else of a row.
LEMMA RowsEnd ==
  ASSUME NEW r, NEW x, RowFields \subseteq DOMAIN x
  PROVE  /\ Alike(UndoRow(x, r), x) /\ Alike(PublishRow(x, r), x)
         /\ UndoRow(x, r).from = x.from
         /\ UndoRow(x, r).dead = IF x.dead = r THEN Nobody ELSE x.dead
         /\ PublishRow(x, r).dead = x.dead
         /\ PublishRow(x, r).from = IF x.from = r THEN Committed ELSE x.from
BY DEF Alike, UndoRow, PublishRow, RowFields

\* Two transactions or readers that see the same rows of a page.
LEMMA SameView ==
  ASSUME NEW v, NEW w, NEW d, NEW p,
         \A x \in Seen(v, d, p, rows)' : \E y \in Seen(w, d, p, rows) : y.id = x.id,
         \A x \in Seen(w, d, p, rows) : \E y \in Seen(v, d, p, rows)' : y.id = x.id,
         \A x \in Seen(v, d, p, rollups)' : \E y \in Seen(w, d, p, rollups) : y.clicks = x.clicks,
         \A x \in Seen(w, d, p, rollups) : \E y \in Seen(v, d, p, rollups)' : y.clicks = x.clicks
  PROVE  MatchAt(w, d, p) => MatchAt(v, d, p)'
<1>1. Ids(v, d, p)' = Ids(w, d, p)
  BY DEF Ids
<1>2. ClicksOf(v, d, p)' = ClicksOf(w, d, p)
  BY DEF ClicksOf
<1>. QED
  BY <1>1, <1>2 DEF MatchAt

\* A rollback takes back what r wrote and deleted.
LEMMA AbortKeeps ==
  ASSUME GscInv, NEW r \in Runs, Active(r), Abort(r)
  PROVE  GscInv'
<1>0. RunsInv /\ SumsInv /\ TablesInv /\ OverlapsInv /\ KeyInv /\ CommittedMatch /\ OwnMatch
  BY DEF GscInv
<1>1. /\ rows'    = {UndoRow(x, r) : x \in {y \in rows : y.from # r}}
      /\ rollups' = {UndoRow(x, r) : x \in {y \in rollups : y.from # r}}
      /\ run' = [run EXCEPT ![r] = NoRun] /\ lagging' = lagging
  BY DEF Abort, UndoRow, history
<1>2. /\ \A u \in Runs \ {r} : run'[u] = run[u]
      /\ run' = [u \in Runs |-> run'[u]]
      /\ run'[r] = NoRun
  BY <1>0, <1>1 DEF RunsInv
<1>3. /\ \A x \in rows : RowFields \subseteq DOMAIN x /\ DOMAIN x = RowFields
      /\ \A x \in rollups : RowFields \subseteq DOMAIN x /\ DOMAIN x = RollupFields
                            /\ "clicks" \in DOMAIN x
  BY <1>0 DEF TablesInv, RowFields, RollupFields
<1>4. /\ \A y \in rows' : \E x \in rows : x.from # r /\ y = UndoRow(x, r)
      /\ \A x \in rows : x.from # r => UndoRow(x, r) \in rows'
      /\ \A y \in rollups' : \E x \in rollups : x.from # r /\ y = UndoRow(x, r)
      /\ \A x \in rollups : x.from # r => UndoRow(x, r) \in rollups'
  BY <1>1
<1>5. \A x \in rows \union rollups :
        /\ Alike(UndoRow(x, r), x) /\ UndoRow(x, r).from = x.from
        /\ UndoRow(x, r).dead = IF x.dead = r THEN Nobody ELSE x.dead
  BY <1>3, RowsEnd
<1>6. RunsInv' /\ SumsInv' /\ OverlapsInv'
  BY <1>0, <1>2 DEF RunsInv, SumsInv, OverlapsInv, Active, Touches
<1>7. \A u \in Runs \ {r}, d \in Days : Touches(u, d)' <=> Touches(u, d)
  BY <1>2 DEF Touches
<1>8. TablesInv'
  <2>1. ASSUME NEW x \in rows \union rollups, x.from # r, Tidy(x), x.day \in Days => Held(x),
               NEW z, z = UndoRow(x, r)
        PROVE  Tidy(z) /\ (x.day \in Days => Held(z)')
    <3>1. /\ z.day = x.day /\ z.page = x.page /\ z.from = x.from
          /\ z.dead = IF x.dead = r THEN Nobody ELSE x.dead
      BY <1>5, <2>1 DEF Alike
    <3>2. Tidy(z)
      BY <2>1, <3>1, GscConstants DEF Tidy
    <3>3. z.dead \in Runs => z.dead = x.dead /\ z.dead # r
      BY <3>1, GscConstants
    <3>. QED
      BY <1>7, <2>1, <3>1, <3>2, <3>3 DEF Held
  <2>2. \A x : Tidy(x)' <=> Tidy(x)
    BY DEF Tidy
  <2>. QED
    BY <1>0, <1>3, <1>4, <1>5, <2>1, <2>2 DEF TablesInv, Alike, Tidy, Held
<1>9. KeyInv'
  <2>. SUFFICES ASSUME NEW x2 \in rollups', NEW y2 \in rollups', x2.day = y2.day, x2.page = y2.page
                PROVE  x2 = y2 \/ Replaces(y2, x2) \/ Replaces(x2, y2)
    BY DEF KeyInv, Replaces
  <2>1. PICK x \in rollups : x.from # r /\ x2 = UndoRow(x, r)
    BY <1>4
  <2>2. PICK y \in rollups : y.from # r /\ y2 = UndoRow(y, r)
    BY <1>4
  <2>3. x = y \/ Replaces(y, x) \/ Replaces(x, y)
    BY <1>0, <1>5, <2>1, <2>2 DEF KeyInv, Alike
  <2>. QED
    BY <1>5, <2>1, <2>2, <2>3 DEF Replaces
<1>10. ASSUME NEW v \in (Runs \ {r}) \union {Committed}, NEW d, Match(v, d)
       PROVE  Match(v, d)'
  <2>. SUFFICES ASSUME NEW p \in Pages PROVE MatchAt(v, d, p)'
    BY DEF Match
  <2>1. v # r /\ Committed # r /\ Nobody # v
    BY GscConstants
  <2>2. /\ \A x \in Seen(v, d, p, rows)' : \E y \in Seen(v, d, p, rows) : y.id = x.id
        /\ \A x \in Seen(v, d, p, rows) : \E y \in Seen(v, d, p, rows)' : y.id = x.id
    BY <1>4, <1>5, <2>1 DEF Seen, Alike
  <2>3. /\ \A x \in Seen(v, d, p, rollups)' : \E y \in Seen(v, d, p, rollups) : y.clicks = x.clicks
        /\ \A x \in Seen(v, d, p, rollups) : \E y \in Seen(v, d, p, rollups)' : y.clicks = x.clicks
    BY <1>3, <1>4, <1>5, <2>1 DEF Seen, Alike
  <2>. QED
    BY <1>10, <2>2, <2>3, SameView DEF Match
<1>11. OthersAlike(rows, rows', r) /\ OthersAlike(rollups, rollups', r)
  BY <1>4, <1>5, GscConstants DEF OthersAlike, Alike
<1>12. CommittedMatch'
  BY <1>0, <1>1, <1>10 DEF CommittedMatch
<1>13. \A d \in Days : ~Touches(r, d)' /\ ~Recomputed(r, d)' /\ ~AtDay(r, d, {"sum"})'
  BY <1>2 DEF Touches, Recomputed, AtDay, Active
<1>14. ASSUME NEW u \in Runs \ {r}, NEW d \in Days
       PROVE  OwnFigureAt(u, d)' /\ GoneFigureAt(u, d)' /\ ClearedAt(u, d)' /\ OwnMatchAt(u, d)'
  <2>1. /\ OwnFigureAt(u, d)' /\ GoneFigureAt(u, d)' /\ ClearedAt(u, d)'
        /\ Recomputed(u, d)' /\ Prompt(u, d)' => Recomputed(u, d) /\ Prompt(u, d)
    BY <1>1, <1>2, <1>11, OthersKeep
  <2>2. Recomputed(u, d) /\ Prompt(u, d) => Match(u, d)
    BY <1>0 DEF OwnMatch, OwnMatchAt
  <2>. QED
    BY <1>10, <2>1, <2>2 DEF OwnMatchAt
<1>15. ASSUME NEW d \in Days
       PROVE  OwnFigureAt(r, d)' /\ GoneFigureAt(r, d)' /\ ClearedAt(r, d)' /\ OwnMatchAt(r, d)'
  BY <1>13 DEF OwnFigureAt, GoneFigureAt, ClearedAt, OwnMatchAt
<1>16. OwnFigure' /\ GoneFigure' /\ ClearedInv' /\ OwnMatch'
  BY <1>14, <1>15 DEF OwnFigure, GoneFigure, ClearedInv, OwnMatch
<1>. QED
  BY <1>6, <1>8, <1>9, <1>12, <1>16 DEF GscInv

\* v has written or deleted something of a page.
Modifies(v, d, p) ==
  \E x \in rows \union rollups :
    x.day = d /\ x.page = p /\ ((x.from = v /\ x.dead # v) \/ (x.from = Committed /\ x.dead = v))

\* Of two transactions that have summed a day no statement waited for, one at
\* most has touched a page: the primary key of the roll-up sees to it.
LEMMA OneWriter ==
  ASSUME GscInv, NEW r \in Runs, NEW u \in Runs \ {r}, NEW d \in Days \ lagging,
         Recomputed(r, d), Recomputed(u, d), d \notin run[r].late, d \notin run[u].late,
         NEW p, Modifies(r, d, p), Modifies(u, d, p)
  PROVE  FALSE
<1>1. ASSUME NEW v \in {r, u}
      PROVE  \E y \in rollups : /\ y.day = d /\ y.page = p
                                /\ (y.from = v /\ y.dead # v) \/ (y.from = Committed /\ y.dead = v)
  <2>1. /\ Modifies(v, d, p) /\ Recomputed(v, d) /\ Prompt(v, d) /\ d \notin run[v].late
        /\ OwnFigureAt(v, d) /\ GoneFigureAt(v, d)
    BY DEF Prompt, GscInv, OwnFigure, GoneFigure
  <2>2. PICK x \in rows \union rollups :
          x.day = d /\ x.page = p /\ ((x.from = v /\ x.dead # v) \/ (x.from = Committed /\ x.dead = v))
    BY <2>1 DEF Modifies
  <2>3. CASE x \in rows /\ x.from = v /\ x.dead # v
    BY <2>1, <2>2, <2>3 DEF OwnFigureAt
  <2>4. CASE x \in rows /\ x.from = Committed /\ x.dead = v
    BY <2>1, <2>2, <2>4 DEF GoneFigureAt
  <2>. QED
    BY <2>2, <2>3, <2>4
<1>2. PICK x \in rollups : /\ x.day = d /\ x.page = p
                           /\ (x.from = r /\ x.dead # r) \/ (x.from = Committed /\ x.dead = r)
  BY <1>1
<1>3. PICK y \in rollups : /\ y.day = d /\ y.page = p
                           /\ (y.from = u /\ y.dead # u) \/ (y.from = Committed /\ y.dead = u)
  BY <1>1
<1>4. Tidy(x) /\ Tidy(y) /\ (x = y \/ Replaces(y, x) \/ Replaces(x, y))
  BY <1>2, <1>3 DEF GscInv, TablesInv, KeyInv
<1>. QED
  BY <1>2, <1>3, <1>4, GscConstants DEF Tidy, Replaces

\* A commit: what r saw of a day is what a reader sees of it from now on, and
\* what any other pull sees that had touched nothing of it.
LEMMA FinishKeeps ==
  ASSUME GscInv, NEW r \in Runs, Finish(r)
  PROVE  GscInv'
<1>0. /\ RunsInv /\ SumsInv /\ TablesInv /\ OverlapsInv /\ KeyInv /\ CommittedMatch /\ OwnMatch
      /\ run[r].pc = "next"
  BY DEF GscInv, Finish
<1>1. /\ rows'    = {PublishRow(x, r) : x \in {y \in rows : y.dead # r}}
      /\ rollups' = {PublishRow(x, r) : x \in {y \in rollups : y.dead # r}}
      /\ run' = [run EXCEPT ![r] = NoRun]
      /\ lagging' = (lagging \ (DOMAIN run[r].logs \ run[r].overlap)) \union run[r].late
  BY DEF Finish, PublishRow
<1>2. /\ \A u \in Runs \ {r} : run'[u] = run[u]
      /\ run' = [u \in Runs |-> run'[u]]
      /\ run'[r] = NoRun
  BY <1>0, <1>1 DEF RunsInv
<1>3. /\ \A x \in rows : RowFields \subseteq DOMAIN x /\ DOMAIN x = RowFields
      /\ \A x \in rollups : RowFields \subseteq DOMAIN x /\ DOMAIN x = RollupFields
                            /\ "clicks" \in DOMAIN x
  BY <1>0 DEF TablesInv, RowFields, RollupFields
<1>4. /\ \A y \in rows' : \E x \in rows : x.dead # r /\ y = PublishRow(x, r)
      /\ \A x \in rows : x.dead # r => PublishRow(x, r) \in rows'
      /\ \A y \in rollups' : \E x \in rollups : x.dead # r /\ y = PublishRow(x, r)
      /\ \A x \in rollups : x.dead # r => PublishRow(x, r) \in rollups'
  BY <1>1
<1>5. \A x \in rows \union rollups :
        /\ Alike(PublishRow(x, r), x) /\ PublishRow(x, r).dead = x.dead
        /\ PublishRow(x, r).from = IF x.from = r THEN Committed ELSE x.from
        /\ Tidy(x)
  BY <1>0, <1>3, RowsEnd DEF TablesInv
<1>6. RunsInv' /\ SumsInv' /\ OverlapsInv'
  BY <1>0, <1>2 DEF RunsInv, SumsInv, OverlapsInv, Active, Touches
<1>7. \A u \in Runs \ {r}, d \in Days : Touches(u, d)' <=> Touches(u, d)
  BY <1>2 DEF Touches
<1>8. TablesInv'
  <2>1. ASSUME NEW x \in rows \union rollups, x.dead # r, Tidy(x), x.day \in Days => Held(x),
               NEW z, z = PublishRow(x, r)
        PROVE  Tidy(z) /\ (x.day \in Days => Held(z)')
    <3>1. /\ z.day = x.day /\ z.page = x.page /\ z.dead = x.dead
          /\ z.from = IF x.from = r THEN Committed ELSE x.from
      BY <1>5, <2>1 DEF Alike
    <3>2. Tidy(z)
      BY <2>1, <3>1, GscConstants DEF Tidy
    <3>3. z.from \in Runs => z.from = x.from /\ z.from # r
      BY <3>1, GscConstants
    <3>. QED
      BY <1>7, <2>1, <3>1, <3>2, <3>3 DEF Held
  <2>2. \A x : Tidy(x)' <=> Tidy(x)
    BY DEF Tidy
  <2>. QED
    BY <1>0, <1>3, <1>4, <1>5, <2>1, <2>2 DEF TablesInv, Alike, Tidy, Held
<1>9. KeyInv'
  <2>. SUFFICES ASSUME NEW x2 \in rollups', NEW y2 \in rollups', x2.day = y2.day, x2.page = y2.page
                PROVE  x2 = y2 \/ Replaces(y2, x2) \/ Replaces(x2, y2)
    BY DEF KeyInv, Replaces
  <2>1. PICK x \in rollups : x.dead # r /\ x2 = PublishRow(x, r)
    BY <1>4
  <2>2. PICK y \in rollups : y.dead # r /\ y2 = PublishRow(y, r)
    BY <1>4
  <2>3. x = y \/ Replaces(y, x) \/ Replaces(x, y)
    BY <1>0, <1>5, <2>1, <2>2 DEF KeyInv, Alike
  <2>. QED
    BY <1>5, <2>1, <2>2, <2>3 DEF Replaces
\* The days r has touched are recomputed and logged.
<1>10. ASSUME NEW d \in Days, Touches(r, d)
       PROVE  d \in DOMAIN run[r].logs /\ Recomputed(r, d)
  BY <1>0, <1>10, GscConstants DEF Touches, Recomputed, AtDay, RunsInv, Active
<1>11. ASSUME NEW d \in Days, d \notin lagging'
       PROVE  /\ Touches(r, d) => Match(r, d)
              /\ ~Touches(r, d) => d \notin lagging
  <2>1. Touches(r, d) => Recomputed(r, d) /\ Prompt(r, d)
    BY <1>1, <1>10, <1>11 DEF Prompt
  <2>2. d \in DOMAIN run[r].logs => Touches(r, d)
    BY <1>0 DEF Touches, NoRun
  <2>. QED
    BY <1>0, <1>1, <1>11, <2>1, <2>2 DEF OwnMatch, OwnMatchAt
\* Where r has touched nothing, nothing has changed.
<1>12. ASSUME NEW v \in (Runs \ {r}) \union {Committed}, NEW d, NEW p, ~Modifies(r, d, p),
              MatchAt(v, d, p)
       PROVE  MatchAt(v, d, p)'
  <2>1. v # r /\ Committed # r
    BY GscConstants
  <2>2. /\ \A x \in Seen(v, d, p, rows)' : \E y \in Seen(v, d, p, rows) : y.id = x.id
        /\ \A x \in Seen(v, d, p, rows) : \E y \in Seen(v, d, p, rows)' : y.id = x.id
    BY <1>4, <1>5, <1>12, <2>1 DEF Seen, Alike, Modifies, Tidy
  <2>3. /\ \A x \in Seen(v, d, p, rollups)' : \E y \in Seen(v, d, p, rollups) : y.clicks = x.clicks
        /\ \A x \in Seen(v, d, p, rollups) : \E y \in Seen(v, d, p, rollups)' : y.clicks = x.clicks
    BY <1>3, <1>4, <1>5, <1>12, <2>1 DEF Seen, Alike, Modifies, Tidy
  <2>. QED
    BY <1>12, <2>2, <2>3, SameView
\* Where another has touched nothing, it now sees what r saw.
<1>13. ASSUME NEW v \in (Runs \ {r}) \union {Committed}, NEW d, NEW p,
              v = Committed \/ ~Modifies(v, d, p), MatchAt(r, d, p)
       PROVE  MatchAt(v, d, p)'
  <2>1. v # r /\ Committed # r /\ \A x \in rows \union rollups : x.dead # Committed
    BY <1>5, GscConstants DEF Tidy
  <2>2. /\ \A x \in Seen(v, d, p, rows)' : \E y \in Seen(r, d, p, rows) : y.id = x.id
        /\ \A x \in Seen(r, d, p, rows) : \E y \in Seen(v, d, p, rows)' : y.id = x.id
    BY <1>4, <1>5, <1>13, <2>1 DEF Seen, Alike, Modifies, Tidy
  <2>3. /\ \A x \in Seen(v, d, p, rollups)' : \E y \in Seen(r, d, p, rollups) : y.clicks = x.clicks
        /\ \A x \in Seen(r, d, p, rollups) : \E y \in Seen(v, d, p, rollups)' : y.clicks = x.clicks
    BY <1>3, <1>4, <1>5, <1>13, <2>1 DEF Seen, Alike, Modifies, Tidy
  <2>. QED
    BY <1>13, <2>2, <2>3, SameView
<1>14. ASSUME NEW d \in Days, ~Touches(r, d), NEW p
       PROVE  ~Modifies(r, d, p)
  BY <1>0, <1>14 DEF Modifies, TablesInv, Held
<1>15. CommittedMatch'
  <2>. SUFFICES ASSUME NEW d \in Days, d \notin lagging', NEW p \in Pages
                PROVE  MatchAt(Committed, d, p)'
    BY DEF CommittedMatch, Match
  <2>1. CASE Touches(r, d)
    BY <1>11, <1>13, <2>1 DEF Match
  <2>2. CASE ~Touches(r, d)
    BY <1>0, <1>11, <1>12, <1>14, <2>2 DEF CommittedMatch, Match
  <2>. QED
    BY <2>1, <2>2
<1>16. ASSUME NEW u \in Runs \ {r}, NEW d \in Days, Touches(u, d), d \in lagging
       PROVE  d \in lagging'
  <2>1. d \in DOMAIN run[r].logs => Touches(r, d)
    BY <1>0 DEF Touches, NoRun
  <2>. QED
    BY <1>0, <1>1, <1>16, <2>1 DEF OverlapsInv
<1>17. OthersAlike(rows, rows', r) /\ OthersAlike(rollups, rollups', r)
  BY <1>4, <1>5, GscConstants DEF OthersAlike, Alike, Tidy
<1>18. ASSUME NEW u \in Runs \ {r}, NEW d \in Days
       PROVE  OwnFigureAt(u, d)' /\ GoneFigureAt(u, d)' /\ ClearedAt(u, d)' /\ OwnMatchAt(u, d)'
  <2>1. /\ OwnFigureAt(u, d)' /\ GoneFigureAt(u, d)' /\ ClearedAt(u, d)'
        /\ Recomputed(u, d)' /\ Prompt(u, d)' => Recomputed(u, d) /\ Prompt(u, d)
    BY <1>2, <1>16, <1>17, OthersKeep
  <2>2. Recomputed(u, d) /\ Prompt(u, d) => Match(u, d)
    BY <1>0 DEF OwnMatch, OwnMatchAt
  <2>3. ASSUME Recomputed(u, d)', Prompt(u, d)', NEW p \in Pages
        PROVE  MatchAt(u, d, p)'
    <3>1. Recomputed(u, d) /\ Prompt(u, d) /\ MatchAt(u, d, p) /\ Touches(u, d)
      BY <2>1, <2>2, <2>3 DEF Match, Recomputed
    <3>2. CASE ~Modifies(r, d, p)
      BY <1>12, <3>1, <3>2
    <3>3. CASE ~Modifies(u, d, p) /\ Touches(r, d)
      <4>1. d \in run[u].overlap
        BY <1>0, <3>1, <3>3 DEF OverlapsInv
      <4>2. d \notin lagging'
        BY <1>2, <2>3, <4>1 DEF Prompt
      <4>. QED
        BY <1>11, <1>13, <3>3, <4>2 DEF Match
    <3>4. CASE Modifies(r, d, p) /\ Modifies(u, d, p)
      <4>1. Touches(r, d)
        BY <1>14, <3>4
      <4>2. d \in run[u].overlap /\ d \in run[r].overlap
        BY <1>0, <3>1, <4>1 DEF OverlapsInv
      <4>3. d \notin lagging' /\ d \notin run[u].late
        BY <1>2, <2>3, <3>1, <4>2 DEF Prompt
      <4>4. d \notin lagging /\ d \notin run[r].late
        BY <1>1, <4>2, <4>3
      <4>. QED
        BY <1>10, <3>1, <3>4, <4>1, <4>3, <4>4, OneWriter
    <3>. QED
      BY <1>14, <3>2, <3>3, <3>4
  <2>. QED
    BY <2>1, <2>3 DEF OwnMatchAt, Match
<1>19. \A d \in Days : ~Touches(r, d)' /\ ~Recomputed(r, d)' /\ ~AtDay(r, d, {"sum"})'
  BY <1>2 DEF Touches, Recomputed, AtDay, Active
<1>20. ASSUME NEW d \in Days
       PROVE  OwnFigureAt(r, d)' /\ GoneFigureAt(r, d)' /\ ClearedAt(r, d)' /\ OwnMatchAt(r, d)'
  BY <1>19 DEF OwnFigureAt, GoneFigureAt, ClearedAt, OwnMatchAt
<1>21. OwnFigure' /\ GoneFigure' /\ ClearedInv' /\ OwnMatch'
  BY <1>18, <1>20 DEF OwnFigure, GoneFigure, ClearedInv, OwnMatch
<1>. QED
  BY <1>6, <1>8, <1>9, <1>15, <1>21 DEF GscInv

-----------------------------------------------------------------------------
(* The statements that write a table *)

\* y is x, or x as r deletes it.
Carries(y, x, r) ==
  /\ Alike(y, x) /\ y.from = x.from
  /\ \/ y.dead = x.dead
     \/ y.dead = r /\ x.dead = Nobody /\ x.day = run[r].day /\ x.from \in {Committed, r}

\* A table before and after a statement of r, which deletes and adds at its day.
Carried(t, t2, fields, r) ==
  /\ \A y \in t2 :
       \/ \E x \in t : Carries(y, x, r)
       \/ /\ DOMAIN y = fields /\ y.day = run[r].day /\ y.page \in Pages
          /\ y.from = r /\ y.dead = Nobody
  /\ \A x \in t : \E y \in t2 : Carries(y, x, r)

\* What a statement that has run changes of its transaction.
LEMMA ProceedEffect ==
  ASSUME RunsInv, NEW r \in Runs, Active(r), NEW pc, Proceed(r, pc)
  PROVE  /\ \A u \in Runs \ {r} : run'[u] = run[u]
         /\ run' = [u \in Runs |-> run'[u]]
         /\ DOMAIN run'[r] = RunFields
         /\ run'[r].pc = pc /\ run'[r].waits = FALSE
         /\ run'[r].day = run[r].day /\ run'[r].got = run[r].got /\ run'[r].logs = run[r].logs
         /\ run'[r].overlap = run[r].overlap
         /\ run'[r].late = IF run[r].waits /\ run[r].pc # "slice"
                           THEN run[r].late \union {run[r].day} ELSE run[r].late
BY DEF Proceed, RunsInv, RunFields

\* A statement of r that writes a table leaves all as it was but at the day of r.
LEMMA StatementKeeps ==
  ASSUME GscInv, NEW r \in Runs, Active(r), run[r].pc \in {"slice", "clear", "sum"},
         NEW pc \in {"clear", "sum", "log"}, Proceed(r, pc), UNCHANGED lagging,
         Carried(rows, rows', RowFields, r), Carried(rollups, rollups', RollupFields, r)
  PROVE  /\ RunsInv' /\ SumsInv' /\ OverlapsInv' /\ TablesInv' /\ CommittedMatch'
         /\ \A u \in Runs, d \in Days : u # r \/ d # run[r].day =>
              OwnMatchAt(u, d)' /\ OwnFigureAt(u, d)' /\ GoneFigureAt(u, d)' /\ ClearedAt(u, d)'
<1>0. RunsInv /\ SumsInv /\ TablesInv /\ OverlapsInv /\ CommittedMatch /\ OwnMatch
  BY DEF GscInv
<1>1. /\ \A u \in Runs \ {r} : run'[u] = run[u]
      /\ run' = [u \in Runs |-> run'[u]]
      /\ DOMAIN run'[r] = RunFields
      /\ run'[r].pc = pc /\ run'[r].waits = FALSE
      /\ run'[r].day = run[r].day /\ run'[r].got = run[r].got /\ run'[r].logs = run[r].logs
      /\ run'[r].overlap = run[r].overlap
      /\ run'[r].late = IF run[r].waits /\ run[r].pc # "slice"
                        THEN run[r].late \union {run[r].day} ELSE run[r].late
  BY <1>0, ProceedEffect
<1>2. Active(r)' /\ \A u \in Runs : \A d : Touches(u, d)' <=> Touches(u, d)
  BY <1>1 DEF Touches, Active, NoRun, RunFields
<1>3. RunsInv'
  BY <1>0, <1>1, <1>2 DEF RunsInv, Active, Steps
<1>4. SumsInv'
  BY <1>0, <1>1 DEF SumsInv, Active
<1>5. OverlapsInv'
  BY <1>0, <1>1, <1>2 DEF OverlapsInv
<1>6. /\ \A x \in rows : DOMAIN x = RowFields
      /\ \A x \in rollups : DOMAIN x = RollupFields /\ "clicks" \in DOMAIN x
      /\ \A x \in rows \union rollups : Tidy(x) /\ (x.day \in Days => Held(x))
  BY <1>0 DEF TablesInv, RollupFields
<1>7. TablesInv'
  <2>1. ASSUME NEW x \in rows \union rollups, NEW y, Carries(y, x, r)
        PROVE  DOMAIN y = DOMAIN x /\ Tidy(y) /\ (y.day \in Days => Held(y)')
    <3>1. DOMAIN y = DOMAIN x /\ Tidy(y)
      BY <1>6, <2>1, GscConstants DEF Carries, Alike, Tidy
    <3>2. y.day \in Days => Held(y)'
      BY <1>2, <1>6, <2>1, GscConstants DEF Carries, Alike, Held, Touches, Active
    <3>. QED
      BY <3>1, <3>2
  <2>2. ASSUME NEW y, y.day = run[r].day, y.page \in Pages, y.from = r, y.dead = Nobody
        PROVE  Tidy(y) /\ (y.day \in Days => Held(y)')
    BY <1>2, <2>2, GscConstants DEF Tidy, Held, Touches, Active
  <2>3. \A y : Tidy(y)' <=> Tidy(y)
    BY DEF Tidy
  <2>. QED
    BY <1>6, <2>1, <2>2, <2>3 DEF TablesInv, Carried
<1>8. ASSUME NEW v \in Runs \union {Committed}, NEW d, v # r \/ d # run[r].day, Match(v, d)
      PROVE  Match(v, d)'
  <2>. SUFFICES ASSUME NEW p \in Pages PROVE MatchAt(v, d, p)'
    BY DEF Match
  <2>1. Nobody # v /\ Committed # r
    BY GscConstants
  <2>2. /\ \A x \in Seen(v, d, p, rows)' : \E y \in Seen(v, d, p, rows) : y.id = x.id
        /\ \A x \in Seen(v, d, p, rows) : \E y \in Seen(v, d, p, rows)' : y.id = x.id
    BY <1>8, <2>1 DEF Seen, Carried, Carries, Alike
  <2>3. /\ \A x \in Seen(v, d, p, rollups)' : \E y \in Seen(v, d, p, rollups) : y.clicks = x.clicks
        /\ \A x \in Seen(v, d, p, rollups) : \E y \in Seen(v, d, p, rollups)' : y.clicks = x.clicks
    BY <1>6, <1>8, <2>1 DEF Seen, Carried, Carries, Alike
  <2>. QED
    BY <1>8, <2>2, <2>3, SameView DEF Match
<1>9. CommittedMatch'
  BY <1>0, <1>8, GscConstants DEF CommittedMatch
<1>10. OthersAlike(rows, rows', r) /\ OthersAlike(rollups, rollups', r)
  <2>1. ASSUME NEW t, NEW t2, NEW fields, Carried(t, t2, fields, r)
        PROVE  OthersAlike(t, t2, r)
    BY <2>1, GscConstants DEF OthersAlike, Carried, Carries, Alike, Touches, Active
  <2>. QED
    BY <2>1
<1>11. ASSUME NEW u \in Runs \ {r}, NEW d \in Days
       PROVE  OwnMatchAt(u, d)' /\ OwnFigureAt(u, d)' /\ GoneFigureAt(u, d)' /\ ClearedAt(u, d)'
  <2>1. /\ OwnFigureAt(u, d)' /\ GoneFigureAt(u, d)' /\ ClearedAt(u, d)'
        /\ Recomputed(u, d)' /\ Prompt(u, d)' => Recomputed(u, d) /\ Prompt(u, d)
    BY <1>1, <1>10, OthersKeep
  <2>2. Recomputed(u, d) /\ Prompt(u, d) => Match(u, d)
    BY <1>0 DEF OwnMatch, OwnMatchAt
  <2>. QED
    BY <1>8, <2>1, <2>2 DEF OwnMatchAt
<1>12. ASSUME NEW d \in Days, d # run[r].day
       PROVE  OwnMatchAt(r, d)' /\ OwnFigureAt(r, d)' /\ GoneFigureAt(r, d)' /\ ClearedAt(r, d)'
  <2>1. /\ Recomputed(r, d)' <=> Recomputed(r, d)
        /\ ~AtDay(r, d, {"sum"})' /\ ~AtDay(r, d, {"sum"})
        /\ Prompt(r, d)' <=> Prompt(r, d)
        /\ d \in run'[r].late <=> d \in run[r].late
    BY <1>1, <1>2, <1>12 DEF Recomputed, AtDay, Prompt
  <2>2. OwnMatchAt(r, d) /\ OwnFigureAt(r, d) /\ GoneFigureAt(r, d)
    BY DEF GscInv, OwnMatch, OwnFigure, GoneFigure
  <2>3. OwnMatchAt(r, d)'
    BY <1>8, <1>12, <2>1, <2>2 DEF OwnMatchAt
  <2>4. /\ \A y \in rows' : y.day = d =>
             \E x \in rows : x.day = d /\ x.page = y.page /\ x.from = y.from /\ x.dead = y.dead
        /\ \A x \in rollups : x.day = d =>
             \E y \in rollups' : y.day = d /\ x.page = y.page /\ x.from = y.from /\ x.dead = y.dead
    BY <1>12 DEF Carried, Carries, Alike
  <2>5. OwnFigureAt(r, d)'
    <3>. SUFFICES ASSUME Recomputed(r, d), Prompt(r, d), NEW x \in rows',
                         x.day = d, x.from = r, x.dead # r
                  PROVE  \E y \in rollups' : y.day = d /\ y.page = x.page /\ y.from = r /\ y.dead # r
      BY <2>1 DEF OwnFigureAt
    <3>1. PICK z \in rows : z.day = d /\ z.page = x.page /\ z.from = r /\ z.dead # r
      BY <2>4
    <3>. QED
      BY <2>2, <2>4, <3>1 DEF OwnFigureAt
  <2>6. GoneFigureAt(r, d)'
    <3>. SUFFICES ASSUME Recomputed(r, d), d \notin run[r].late, d \notin lagging, NEW x \in rows',
                         x.day = d, x.from = Committed, x.dead = r
                  PROVE  \E y \in rollups' : y.day = d /\ y.page = x.page /\ y.from = Committed /\ y.dead = r
      BY <2>1 DEF GoneFigureAt
    <3>1. PICK z \in rows : z.day = d /\ z.page = x.page /\ z.from = Committed /\ z.dead = r
      BY <2>4
    <3>. QED
      BY <2>2, <2>4, <3>1 DEF GoneFigureAt
  <2>7. ClearedAt(r, d)'
    BY <2>1 DEF ClearedAt
  <2>. QED
    BY <2>3, <2>5, <2>6, <2>7
<1>. QED
  BY <1>3, <1>4, <1>5, <1>7, <1>9, <1>11, <1>12

\* A table that is not written.
LEMMA CarriedAsIs ==
  ASSUME NEW r, NEW t, NEW fields
  PROVE  Carried(t, t, fields, r)
BY DEF Carried, Carries, Alike

\* A row as a statement of r that deletes T leaves it.
DeleteRow(x, r, T) == IF x \in T THEN [x EXCEPT !.dead = r] ELSE x

\* A DELETE takes rows that nobody else has deleted.
LEMMA DeletedRow ==
  ASSUME NEW r \in Runs, NEW x, RowFields \subseteq DOMAIN x, x.dead \in Runs \union {Nobody},
         NEW T, x \in T => /\ x.day = run[r].day /\ x.from \in {Committed, r}
                           /\ Holders(T) \subseteq {r}
  PROVE  /\ Carries(DeleteRow(x, r, T), x, r)
         /\ x \in T => DeleteRow(x, r, T).dead = r
<1>1. CASE x \notin T
  BY <1>1 DEF Carries, Alike, DeleteRow
<1>2. CASE x \in T
  <2>1. x.dead \in {Nobody, r}
    BY <1>2 DEF Holders
  <2>2. DeleteRow(x, r, T) = [x EXCEPT !.dead = r]
    BY <1>2 DEF DeleteRow
  <2>3. /\ DOMAIN DeleteRow(x, r, T) = DOMAIN x
        /\ DeleteRow(x, r, T).day = x.day /\ DeleteRow(x, r, T).page = x.page
        /\ DeleteRow(x, r, T).id = x.id /\ DeleteRow(x, r, T).from = x.from
        /\ DeleteRow(x, r, T).dead = r
        /\ "clicks" \in DOMAIN x => DeleteRow(x, r, T).clicks = x.clicks
    BY <2>2 DEF RowFields
  <2>. QED
    BY <1>2, <2>1, <2>3 DEF Carries, Alike
<1>. QED
  BY <1>1, <1>2

\* The rows of the day are replaced: its roll-up is to follow.
LEMMA ReplaceSliceKeeps ==
  ASSUME GscInv, NEW r \in Runs, ReplaceSlice(r)
  PROVE  GscInv'
<1>0. RunsInv /\ TablesInv /\ KeyInv
  BY DEF GscInv
<1>1. /\ run[r].pc = "slice" /\ Holders(Targeted(r, rows)) \subseteq {r}
      /\ rows' = SliceReplaced(r) /\ Proceed(r, "clear") /\ rollups' = rollups /\ lagging' = lagging
  BY DEF ReplaceSlice, history
<1>2. Active(r) /\ run[r].got \subseteq Pages
  BY <1>0, <1>1 DEF RunsInv, Active, NoRun
<1>3. ASSUME NEW y \in rows', y \notin Deleted(r, rows)
      PROVE  /\ DOMAIN y = RowFields /\ y.day = run[r].day /\ y.page \in Pages
             /\ y.from = r /\ y.dead = Nobody
  <2>1. PICK p \in run[r].got :
          y = [day |-> run[r].day, page |-> p, id |-> FreshId(rows), from |-> r, dead |-> Nobody]
    BY <1>1, <1>3 DEF SliceReplaced
  <2>. QED
    BY <1>2, <2>1 DEF RowFields
<1>4. Deleted(r, rows) \subseteq rows'
  BY <1>1 DEF SliceReplaced
<1>5. /\ \A y \in Deleted(r, rows) : \E x \in rows : Carries(y, x, r)
      /\ \A x \in rows : \E y \in Deleted(r, rows) : Carries(y, x, r)
  <2>1. \A x \in rows : RowFields \subseteq DOMAIN x /\ x.dead \in Runs \union {Nobody}
    BY <1>0 DEF TablesInv, Tidy
  <2>2. \A x \in Targeted(r, rows) : x.day = run[r].day /\ x.from \in {Committed, r}
    BY DEF Targeted
  <2>3. \A x \in rows : Carries(DeleteRow(x, r, Targeted(r, rows)), x, r)
    BY <1>1, <2>1, <2>2, DeletedRow
  <2>4. Deleted(r, rows) = {DeleteRow(x, r, Targeted(r, rows)) : x \in rows}
    BY DEF Deleted, DeleteRow
  <2>. QED
    BY <2>3, <2>4
<1>6. Carried(rows, rows', RowFields, r)
  BY <1>3, <1>4, <1>5 DEF Carried
<1>7. Carried(rollups, rollups', RollupFields, r)
  BY <1>1, CarriedAsIs
<1>8. /\ RunsInv' /\ SumsInv' /\ OverlapsInv' /\ TablesInv' /\ CommittedMatch'
      /\ \A u \in Runs, d \in Days : u # r \/ d # run[r].day =>
           OwnMatchAt(u, d)' /\ OwnFigureAt(u, d)' /\ GoneFigureAt(u, d)' /\ ClearedAt(u, d)'
  BY <1>1, <1>2, <1>6, <1>7, StatementKeeps
<1>9. KeyInv'
  BY <1>0, <1>1 DEF KeyInv
<1>10. ASSUME NEW d \in Days, d = run[r].day
       PROVE  OwnMatchAt(r, d)' /\ OwnFigureAt(r, d)' /\ GoneFigureAt(r, d)' /\ ClearedAt(r, d)'
  <2>1. run'[r].pc = "clear" /\ run'[r].day = d /\ DOMAIN run'[r] = RunFields
    BY <1>0, <1>1, <1>2, <1>10, ProceedEffect
  <2>2. Active(r)'
    BY <2>1 DEF Active, NoRun, RunFields
  <2>3. ~Recomputed(r, d)' /\ ~AtDay(r, d, {"sum"})'
    BY <2>1, <2>2 DEF Recomputed, AtDay
  <2>. QED
    BY <2>3 DEF OwnMatchAt, OwnFigureAt, GoneFigureAt, ClearedAt
<1>. QED
  BY <1>8, <1>9, <1>10 DEF GscInv, OwnMatch, OwnFigure, GoneFigure, ClearedInv

\* The old roll-up goes: unless the statement waited, all of it that r sees.
LEMMA ClearRollupKeeps ==
  ASSUME GscInv, NEW r \in Runs, ClearRollup(r)
  PROVE  GscInv'
<1>0. RunsInv /\ TablesInv /\ KeyInv /\ OverlapsInv /\ CommittedMatch
  BY DEF GscInv
<1>1. /\ run[r].pc = "clear" /\ Holders(Targeted(r, rollups)) \subseteq {r}
      /\ rollups' = Deleted(r, rollups) /\ Proceed(r, "sum") /\ rows' = rows /\ lagging' = lagging
  BY DEF ClearRollup, history
<1>2. Active(r)
  BY <1>1 DEF Active, NoRun
<1>3. /\ \A y \in rollups' : \E x \in rollups : /\ Carries(y, x, r)
                                                /\ x \in Targeted(r, rollups) => y.dead = r
      /\ \A x \in rollups : \E y \in rollups' : /\ Carries(y, x, r)
                                                /\ x \in Targeted(r, rollups) => y.dead = r
      /\ \A x, y \in rollups' :
           \E x0, y0 \in rollups : /\ Carries(x, x0, r) /\ Carries(y, y0, r)
                                   /\ x0 = y0 => x = y
  <2>1. \A x \in rollups : RowFields \subseteq DOMAIN x /\ x.dead \in Runs \union {Nobody}
    BY <1>0 DEF TablesInv, Tidy, RollupFields
  <2>2. \A x \in Targeted(r, rollups) : x.day = run[r].day /\ x.from \in {Committed, r}
    BY DEF Targeted
  <2>3. \A x \in rollups : LET z == DeleteRow(x, r, Targeted(r, rollups))
                           IN  Carries(z, x, r) /\ (x \in Targeted(r, rollups) => z.dead = r)
    BY <1>1, <2>1, <2>2, DeletedRow
  <2>4. rollups' = {DeleteRow(x, r, Targeted(r, rollups)) : x \in rollups}
    BY <1>1 DEF Deleted, DeleteRow
  <2>. QED
    BY <2>3, <2>4
<1>4. Carried(rollups, rollups', RollupFields, r)
  BY <1>3 DEF Carried
<1>5. Carried(rows, rows', RowFields, r)
  BY <1>1, CarriedAsIs
<1>6. /\ RunsInv' /\ SumsInv' /\ OverlapsInv' /\ TablesInv' /\ CommittedMatch'
      /\ \A u \in Runs, d \in Days : u # r \/ d # run[r].day =>
           OwnMatchAt(u, d)' /\ OwnFigureAt(u, d)' /\ GoneFigureAt(u, d)' /\ ClearedAt(u, d)'
  BY <1>1, <1>2, <1>4, <1>5, StatementKeeps
<1>7. KeyInv'
  <2>. SUFFICES ASSUME NEW x2 \in rollups', NEW y2 \in rollups', x2.day = y2.day, x2.page = y2.page
                PROVE  x2 = y2 \/ Replaces(y2, x2) \/ Replaces(x2, y2)
    BY DEF KeyInv, Replaces
  <2>1. PICK x \in rollups, y \in rollups :
          Carries(x2, x, r) /\ Carries(y2, y, r) /\ (x = y => x2 = y2)
    BY <1>3
  <2>2. x = y \/ Replaces(y, x) \/ Replaces(x, y)
    BY <1>0, <2>1 DEF KeyInv, Carries, Alike
  <2>. QED
    BY <2>1, <2>2, GscConstants DEF Replaces, Carries
\* Unless it waited, r has deleted the whole roll-up it sees.
<1>8. ASSUME NEW x \in rollups, x.day = run[r].day, x.from \in {Committed, r}, ~run[r].waits
      PROVE  x.dead = r \/ x \in Targeted(r, rollups)
  BY <1>8 DEF Targeted, Targets, Visible
<1>9. ASSUME NEW d \in Days, d = run[r].day
      PROVE  OwnMatchAt(r, d)' /\ OwnFigureAt(r, d)' /\ GoneFigureAt(r, d)' /\ ClearedAt(r, d)'
  <2>1. /\ run'[r].pc = "sum" /\ run'[r].day = d /\ DOMAIN run'[r] = RunFields
        /\ run'[r].overlap = run[r].overlap
        /\ d \notin run'[r].late => run[r].waits # TRUE
    BY <1>0, <1>1, <1>2, <1>9, ProceedEffect
  <2>2. Active(r)'
    BY <2>1 DEF Active, NoRun, RunFields
  <2>3. ~Recomputed(r, d)'
    BY <2>1, <2>2 DEF Recomputed, AtDay
  <2>4. d \notin run'[r].late => ~run[r].waits
    BY <1>0, <1>2, <2>1 DEF RunsInv
  <2>5. GoneFigureAt(r, d)'
    <3>. SUFFICES ASSUME d \notin run'[r].late, d \notin lagging, NEW x \in rows,
                         x.day = d, x.from = Committed, x.dead = r
                  PROVE  \E y \in rollups' : y.day = d /\ y.page = x.page /\ y.from = Committed /\ y.dead = r
      BY <1>1 DEF GoneFigureAt
    <3>1. x.page \in Pages /\ x.dead # Committed
      BY <1>0, GscConstants DEF TablesInv, Tidy
    <3>2. MatchAt(Committed, d, x.page)
      BY <1>0, <3>1 DEF CommittedMatch, Match
    <3>3. x \in Seen(Committed, d, x.page, rows)
      BY <3>1 DEF Seen
    <3>4. Ids(Committed, d, x.page) # {}
      BY <3>3 DEF Ids
    <3>5. PICK z \in Seen(Committed, d, x.page, rollups) : TRUE
      BY <3>2, <3>4 DEF MatchAt, ClicksOf
    <3>6. z \in rollups /\ z.day = d /\ z.page = x.page /\ z.from = Committed
      BY <3>5 DEF Seen
    <3>7. z.dead = r \/ z \in Targeted(r, rollups)
      BY <1>8, <1>9, <2>4, <3>6
    <3>8. PICK y \in rollups' : Carries(y, z, r) /\ (z \in Targeted(r, rollups) => y.dead = r)
      BY <1>3, <3>6
    <3>. QED
      BY <3>6, <3>7, <3>8 DEF Carries, Alike
  <2>6. ClearedAt(r, d)'
    <3>. SUFFICES ASSUME d \notin run'[r].late, NEW y \in rollups', y.day = d,
                         y.from = r \/ d \notin run[r].overlap
                  PROVE  y.dead = r
      BY <2>1 DEF ClearedAt
    <3>1. PICK x \in rollups : Carries(y, x, r) /\ (x \in Targeted(r, rollups) => y.dead = r)
      BY <1>3
    <3>2. x.day = d /\ x.from = y.from /\ Tidy(x) /\ Held(x)
      BY <1>0, <3>1 DEF Carries, Alike, TablesInv
    <3>3. x.from \in {Committed, r}
      <4>1. Touches(r, d)
        BY <1>2, <1>9 DEF Touches, Active
      <4>. QED
        BY <1>0, <3>2, <4>1 DEF Tidy, Held, OverlapsInv
    <3>4. x.dead = r \/ x \in Targeted(r, rollups)
      BY <1>8, <1>9, <2>4, <3>2, <3>3
    <3>. QED
      BY <3>1, <3>4 DEF Carries
  <2>. QED
    BY <2>3, <2>5, <2>6 DEF OwnMatchAt, OwnFigureAt
<1>. QED
  BY <1>6, <1>7, <1>9 DEF GscInv, OwnMatch, OwnFigure, GoneFigure, ClearedInv

\* The new roll-up is summed from what r sees by then.
LEMMA InsertRollupKeeps ==
  ASSUME GscInv, NEW r \in Runs, InsertRollup(r)
  PROVE  GscInv'
<1>0. /\ RunsInv /\ TablesInv /\ KeyInv /\ SumsInv /\ CommittedMatch /\ ClearedInv /\ GoneFigure
      /\ run[r].pc = "sum"
  BY DEF GscInv, InsertRollup
<1>1. /\ Rivals(r) = {} /\ rollups' = rollups \union Summed(r) /\ Proceed(r, "log")
      /\ rows' = rows /\ lagging' = lagging
  BY DEF InsertRollup, history
<1>2. Active(r)
  BY <1>0 DEF Active, NoRun
<1>. DEFINE S == {y \in Visible(r, rows) : y.day = run[r].day}
<1>3. ~run[r].waits => Summed(r) = RollupOf(r, S)
  BY DEF Summed
<1>4. \A x \in S : x.page \in Pages
  BY <1>0 DEF Visible, TablesInv, Tidy
<1>5. /\ \A y \in Summed(r) : /\ DOMAIN y = RollupFields /\ y.page \in Pages
                              /\ y.day = run[r].day /\ y.from = r /\ y.dead = Nobody
      /\ \A y, z \in Summed(r) : y.page = z.page => y = z
  <2>1. CASE run[r].waits
    <3>1. Summed(r) = run[r].sums
      BY <2>1 DEF Summed
    <3>. QED
      BY <1>0, <1>2, <2>1, <3>1 DEF SumsInv
  <2>2. CASE ~run[r].waits
    <3>. HIDE DEF S
    <3>. QED
      BY <1>3, <1>4, <2>2, RollupOfShape
  <2>. QED
    BY <2>1, <2>2
<1>6. Carried(rollups, rollups', RollupFields, r)
  <2>1. \A x : Carries(x, x, r)
    BY DEF Carries, Alike
  <2>. QED
    BY <1>1, <1>5, <2>1 DEF Carried
<1>7. Carried(rows, rows', RowFields, r)
  BY <1>1, CarriedAsIs
<1>8. /\ RunsInv' /\ SumsInv' /\ OverlapsInv' /\ TablesInv' /\ CommittedMatch'
      /\ \A u \in Runs, d \in Days : u # r \/ d # run[r].day =>
           OwnMatchAt(u, d)' /\ OwnFigureAt(u, d)' /\ GoneFigureAt(u, d)' /\ ClearedAt(u, d)'
  BY <1>0, <1>1, <1>2, <1>6, <1>7, StatementKeeps
<1>9. ASSUME NEW x \in rollups, NEW y \in Summed(r), x.day = y.day, x.page = y.page
      PROVE  x.dead = r
  BY <1>1, <1>9 DEF Rivals
<1>10. KeyInv'
  <2>. SUFFICES ASSUME NEW x \in rollups', NEW y \in rollups', x.day = y.day, x.page = y.page
                PROVE  x = y \/ Replaces(y, x) \/ Replaces(x, y)
    BY DEF KeyInv, Replaces
  <2>1. CASE x \in rollups /\ y \in rollups
    BY <1>0, <2>1 DEF KeyInv
  <2>2. CASE x \in rollups /\ y \in Summed(r)
    BY <1>5, <1>9, <2>2 DEF Replaces
  <2>3. CASE x \in Summed(r) /\ y \in rollups
    BY <1>5, <1>9, <2>3 DEF Replaces
  <2>4. CASE x \in Summed(r) /\ y \in Summed(r)
    BY <1>5, <2>4
  <2>. QED
    BY <1>1, <2>1, <2>2, <2>3, <2>4
<1>11. ASSUME NEW d \in Days, d = run[r].day
       PROVE  OwnMatchAt(r, d)' /\ OwnFigureAt(r, d)' /\ GoneFigureAt(r, d)' /\ ClearedAt(r, d)'
  <2>1. /\ run'[r].pc = "log" /\ run'[r].day = d /\ DOMAIN run'[r] = RunFields
        /\ run'[r].overlap = run[r].overlap
        /\ d \notin run'[r].late => run[r].waits # TRUE /\ d \notin run[r].late
    BY <1>0, <1>1, <1>2, <1>11, ProceedEffect
  <2>2. d \notin run'[r].late => ~run[r].waits /\ d \notin run[r].late
    BY <1>0, <1>2, <2>1 DEF RunsInv
  <2>3. AtDay(r, d, {"sum"}) /\ ~AtDay(r, d, {"sum"})'
    BY <1>0, <1>2, <1>11, <2>1 DEF AtDay
  <2>4. ClearedAt(r, d) /\ GoneFigureAt(r, d)
    BY <1>0 DEF ClearedInv, GoneFigure
  <2>5. ASSUME d \notin run'[r].late
        PROVE  /\ \A x \in S : \E y \in Summed(r) : y.page = x.page
               /\ \A y \in Summed(r) : y.clicks = Count(S, y.page) /\ \E x \in S : x.page = y.page
    <3>1. Summed(r) = RollupOf(r, S)
      BY <1>3, <2>2, <2>5
    <3>. HIDE DEF S
    <3>2. \A x \in S : \E y \in RollupOf(r, S) : y.page = x.page
      BY <1>4, RollupOfShape
    <3>3. \A y \in RollupOf(r, S) : y.clicks = Count(S, y.page) /\ \E x \in S : x.page = y.page
      BY <1>4, RollupOfShape
    <3>. QED
      BY <3>1, <3>2, <3>3
  <2>6. OwnFigureAt(r, d)'
    <3>. SUFFICES ASSUME d \notin run'[r].late, NEW x \in rows, x.day = d, x.from = r, x.dead # r
                  PROVE  \E y \in rollups' : y.day = d /\ y.page = x.page /\ y.from = r /\ y.dead # r
      BY <1>1 DEF OwnFigureAt, Prompt
    <3>1. x \in S
      BY <1>11 DEF Visible
    <3>2. PICK y \in Summed(r) : y.page = x.page
      BY <2>5, <3>1
    <3>. QED
      BY <1>1, <1>5, <1>11, <3>2, GscConstants
  <2>7. GoneFigureAt(r, d)'
    <3>. SUFFICES ASSUME d \notin run'[r].late, d \notin lagging, NEW x \in rows,
                         x.day = d, x.from = Committed, x.dead = r
                  PROVE  \E y \in rollups' : y.day = d /\ y.page = x.page /\ y.from = Committed /\ y.dead = r
      BY <1>1 DEF GoneFigureAt
    <3>. QED
      BY <1>1, <2>2, <2>3, <2>4 DEF GoneFigureAt
  <2>8. ClearedAt(r, d)'
    BY <2>3 DEF ClearedAt
  <2>9. OwnMatchAt(r, d)'
    <3>. SUFFICES ASSUME Prompt(r, d)', NEW p \in Pages
                  PROVE  MatchAt(r, d, p)'
      BY DEF OwnMatchAt, Match
    <3>1. /\ d \notin run'[r].late /\ d \notin run[r].late
          /\ d \notin lagging \/ d \notin run[r].overlap
      BY <1>1, <2>1, <2>2 DEF Prompt
    \* Nothing of the old roll-up is left to r.
    <3>2. ASSUME NEW x \in rollups, x.day = d, x.page = p, x.from \in {Committed, r}, x.dead # r
          PROVE  FALSE
      <4>1. d \in run[r].overlap /\ x.from = Committed
        BY <2>3, <2>4, <3>1, <3>2 DEF ClearedAt
      <4>2. d \notin lagging /\ x.dead # Committed
        BY <1>0, <3>1, <4>1, GscConstants DEF TablesInv, Tidy
      <4>3. MatchAt(Committed, d, p)
        BY <1>0, <4>2 DEF CommittedMatch, Match
      <4>4. x \in Seen(Committed, d, p, rollups)
        BY <3>2, <4>1, <4>2 DEF Seen
      <4>5. ClicksOf(Committed, d, p) # {}
        BY <4>4 DEF ClicksOf
      <4>6. PICK z \in Seen(Committed, d, p, rows) : TRUE
        BY <4>3, <4>5 DEF MatchAt, Ids
      <4>7. z \in rows /\ z.day = d /\ z.page = p /\ z.from = Committed
        BY <4>6 DEF Seen
      <4>8. z.dead = r
        <5>1. SUFFICES ASSUME z.dead # r PROVE FALSE
          OBVIOUS
        <5>2. z \in S
          BY <1>11, <4>7, <5>1 DEF Visible
        <5>3. PICK y \in Summed(r) : y.page = z.page
          BY <2>5, <3>1, <5>2
        <5>. QED
          BY <1>5, <1>9, <1>11, <3>2, <4>7, <5>3
      <4>9. PICK e \in rollups : e.day = d /\ e.page = p /\ e.from = Committed /\ e.dead = r
        BY <2>3, <2>4, <3>1, <4>2, <4>7, <4>8 DEF GoneFigureAt
      <4>10. x = e \/ Replaces(e, x) \/ Replaces(x, e)
        BY <1>0, <3>2, <4>9 DEF KeyInv
      <4>. QED
        BY <3>2, <4>1, <4>9, <4>10, GscConstants DEF Replaces
    <3>3. Seen(r, d, p, rollups)' = {y \in Summed(r) : y.page = p}
      BY <1>1, <1>5, <1>11, <3>2, GscConstants DEF Seen
    <3>4. Ids(r, d, p)' = {x.id : x \in {z \in S : z.page = p}}
      BY <1>1, <1>11 DEF Ids, Seen, Visible
    <3>. HIDE DEF S
    <3>5. CASE \E x \in S : x.page = p
      <4>1. PICK x \in S : x.page = p
        BY <3>5
      <4>2. PICK y \in Summed(r) : y.page = p
        BY <2>5, <3>1, <4>1
      <4>3. y.clicks = Cardinality(Ids(r, d, p)')
        BY <2>5, <3>1, <3>4, <4>2 DEF Count
      <4>4. ClicksOf(r, d, p)' = {y.clicks}
        BY <1>5, <3>3, <4>2 DEF ClicksOf
      <4>5. Ids(r, d, p)' # {}
        BY <3>4, <4>1
      <4>. QED
        BY <4>3, <4>4, <4>5 DEF MatchAt
    <3>6. CASE ~\E x \in S : x.page = p
      <4>1. Ids(r, d, p)' = {}
        BY <3>4, <3>6
      <4>2. {y \in Summed(r) : y.page = p} = {}
        BY <2>5, <3>1, <3>6
      <4>3. ClicksOf(r, d, p)' = {}
        BY <3>3, <4>2 DEF ClicksOf
      <4>. QED
        BY <4>1, <4>3 DEF MatchAt
    <3>. QED
      BY <3>5, <3>6
  <2>. QED
    BY <2>6, <2>7, <2>8, <2>9
<1>. QED
  BY <1>8, <1>10, <1>11 DEF GscInv, OwnMatch, OwnFigure, GoneFigure, ClearedInv

-----------------------------------------------------------------------------
(* The invariant, and the roll-ups *)

\* The steps that write no table keep the invariant.
LEMMA BenignStep ==
  ASSUME GscInv, RunsInv', SumsInv', OverlapsInv', Benign
  PROVE  GscInv'
BY BenignKeeps DEF GscInv

\* Every step of a transaction keeps the invariant.
LEMMA StepKeeps ==
  ASSUME GscInv, NEW r \in Runs, Step(r)
  PROVE  GscInv'
<1>1. ASSUME Abort(r), run[r].pc # "idle" \/ Active(r)
      PROVE  GscInv'
  <2>1. Active(r)
    BY <1>1 DEF Active, NoRun
  <2>. QED
    BY <1>1, <2>1, AbortKeeps
<1>2. ASSUME NEW key \in DOMAIN jobs, Claim(r, key)
      PROVE  GscInv'
  BY <1>2, ClaimKeeps, BenignStep
<1>3. CASE JobFails(r)
  BY <1>1, <1>3 DEF JobFails, Active
<1>4. CASE AuthFails(r)
  BY <1>1, <1>4 DEF AuthFails
<1>5. CASE InitialPull(r)
  BY <1>5, InitialPullKeeps, BenignStep
<1>6. CASE StopEarly(r)
  BY <1>6, StopEarlyKeeps, BenignStep
<1>7. CASE PullDay(r)
  BY <1>7, PullDayKeeps, BenignStep
<1>8. CASE ReplaceSlice(r)
  BY <1>8, ReplaceSliceKeeps
<1>9. CASE ClearRollup(r)
  BY <1>9, ClearRollupKeeps
<1>10. CASE InsertRollup(r)
  BY <1>10, InsertRollupKeeps
<1>11. CASE Wait(r)
  BY <1>11, WaitKeeps, BenignStep
<1>12. CASE UniqueViolation(r)
  BY <1>1, <1>12 DEF UniqueViolation
<1>13. CASE UpsertLog(r)
  BY <1>13, UpsertLogKeeps, BenignStep
<1>14. CASE BumpQuota(r)
  BY <1>14, BumpQuotaKeeps, BenignStep
<1>15. CASE DeadlockVictim(r)
  <2>1. WaitsFor(r) # {}
    BY <1>15 DEF DeadlockVictim
  <2>2. run[r].pc # "idle"
    BY <2>1 DEF WaitsFor
  <2>. QED
    BY <1>1, <1>15, <2>2 DEF DeadlockVictim
<1>16. CASE Finish(r)
  BY <1>16, FinishKeeps
<1>. QED
  BY <1>2, <1>3, <1>4, <1>5, <1>6, <1>7, <1>8, <1>9, <1>10, <1>11, <1>12, <1>13, <1>14,
     <1>15, <1>16 DEF Step

\* Every table, transaction and overlap of the Search Console pulls is as the
\* parts of GscInv say, in every state.
THEOREM GscInvariant == GscSpec => []GscInv
<1>1. GscInit => GscInv
  <2>. SUFFICES ASSUME GscInit PROVE GscInv
    OBVIOUS
  <2>1. rows = {} /\ rollups = {} /\ run = [r \in Runs |-> NoRun] /\ \A r \in Runs : run[r] = NoRun
    BY DEF GscInit
  <2>2. \A r \in Runs : ~Active(r) /\ \A d : ~Touches(r, d)
    BY <2>1 DEF Active, Touches
  <2>3. \A r \in Runs, d \in Days : ~Recomputed(r, d) /\ ~AtDay(r, d, {"sum"})
    BY <2>2 DEF Recomputed, AtDay
  <2>4. ASSUME NEW d, NEW p
        PROVE  MatchAt(Committed, d, p)
    <3>1. Seen(Committed, d, p, rows) = {} /\ Seen(Committed, d, p, rollups) = {}
      BY <2>1 DEF Seen
    <3>. QED
      BY <3>1 DEF MatchAt, Ids, ClicksOf
  <2>5. RunsInv /\ SumsInv /\ TablesInv /\ OverlapsInv /\ KeyInv
    BY <2>1, <2>2 DEF RunsInv, SumsInv, TablesInv, OverlapsInv, KeyInv
  <2>6. CommittedMatch
    BY <2>4 DEF CommittedMatch, Match
  <2>7. OwnMatch /\ OwnFigure /\ GoneFigure /\ ClearedInv
    BY <2>3 DEF OwnMatch, OwnMatchAt, OwnFigure, OwnFigureAt, GoneFigure, GoneFigureAt,
                ClearedInv, ClearedAt
  <2>. QED
    BY <2>5, <2>6, <2>7 DEF GscInv
<1>2. ASSUME GscInv, GscNext \/ UNCHANGED gscVars
      PROVE  GscInv'
  <2>1. ASSUME UNCHANGED <<rows, rollups, run, lagging>>
        PROVE  GscInv'
    <3>1. RunsInv' /\ SumsInv' /\ OverlapsInv'
      BY <1>2, <2>1 DEF GscInv, RunsInv, SumsInv, OverlapsInv, Active, Touches
    <3>2. Benign
      BY <2>1 DEF Benign, Active, Touches, Recomputed, AtDay
    <3>. QED
      BY <1>2, <3>1, <3>2, BenignStep
  <2>2. CASE UNCHANGED gscVars
    BY <2>1, <2>2 DEF gscVars, tables, history
  <2>3. CASE PullVerb
    BY <2>1, <2>3 DEF PullVerb, tables, history
  <2>4. CASE ScheduleDaily
    BY <2>1, <2>4 DEF ScheduleDaily, tables, history
  <2>5. CASE DayPasses
    BY <2>1, <2>5 DEF DayPasses, tables, history
  <2>6. CASE \E r \in Runs : Step(r)
    BY <1>2, <2>6, StepKeeps
  <2>. QED
    BY <1>2, <2>2, <2>3, <2>4, <2>5, <2>6 DEF GscNext
<1>. QED
  BY <1>1, <1>2, PTL DEF GscSpec

\* The roll-up of a day is the sum of the day's committed rows, whatever pulls
\* of the day overlap, unless a roll-up statement of them had to wait: the
\* recomputation _rollup_page_daily promises.
THEOREM RollupsMatchTheirSlices == GscSpec => []RollupMatchesSlice
<1>1. GscInv => RollupMatchesSlice
  <2>. SUFFICES ASSUME GscInv, NEW d \in Days \ lagging
                PROVE  {[page |-> x.page, clicks |-> x.clicks] :
                          x \in {y \in rollups : y.day = d /\ y.from = Committed}}
                       = {[page |-> p,
                           clicks |-> Cardinality({x.id : x \in {y \in RowsOf(d) : y.page = p}})] :
                           p \in {x.page : x \in RowsOf(d)}}
    BY DEF RollupMatchesSlice
  <2>. DEFINE Entries == {y \in rollups : y.day = d /\ y.from = Committed}
              N(p)    == Cardinality({x.id : x \in {y \in RowsOf(d) : y.page = p}})
  <2>1. /\ \A x \in rows \union rollups : x.page \in Pages /\ x.dead # Committed
        /\ \A p \in Pages : MatchAt(Committed, d, p)
    BY GscConstants DEF GscInv, TablesInv, Tidy, CommittedMatch, Match
  <2>2. ASSUME NEW p \in Pages
        PROVE  /\ Seen(Committed, d, p, rows) = {y \in RowsOf(d) : y.page = p}
               /\ Seen(Committed, d, p, rollups) = {y \in Entries : y.page = p}
    BY <2>1 DEF Seen, RowsOf
  <2>3. ASSUME NEW p \in Pages
        PROVE  N(p) = Cardinality(Ids(Committed, d, p))
               /\ (Ids(Committed, d, p) = {} <=> {y \in RowsOf(d) : y.page = p} = {})
               /\ ClicksOf(Committed, d, p) = {y.clicks : y \in {z \in Entries : z.page = p}}
    <3>1. Ids(Committed, d, p) = {x.id : x \in {y \in RowsOf(d) : y.page = p}}
      BY <2>2 DEF Ids
    <3>2. N(p) = Cardinality(Ids(Committed, d, p))
      BY <3>1
    <3>3. Ids(Committed, d, p) = {} <=> {y \in RowsOf(d) : y.page = p} = {}
      BY <3>1
    <3>. HIDE DEF N, Entries
    <3>4. ClicksOf(Committed, d, p) = {y.clicks : y \in {z \in Entries : z.page = p}}
      BY <2>2 DEF ClicksOf
    <3>. QED
      BY <3>2, <3>3, <3>4
  <2>. HIDE DEF Entries, N
  <2>4. ASSUME NEW x \in Entries
        PROVE  x.page \in Pages /\ x.clicks = N(x.page) /\ \E y \in RowsOf(d) : y.page = x.page
    <3>1. x.page \in Pages
      BY <2>1 DEF Entries
    <3>2. x.clicks \in ClicksOf(Committed, d, x.page)
      BY <2>3, <3>1
    <3>. QED
      BY <2>1, <2>3, <3>1, <3>2 DEF MatchAt
  <2>5. ASSUME NEW y \in RowsOf(d)
        PROVE  \E x \in Entries : x.page = y.page
    <3>1. y.page \in Pages
      BY <2>1 DEF RowsOf
    <3>2. ClicksOf(Committed, d, y.page) # {}
      BY <2>1, <2>3, <3>1 DEF MatchAt
    <3>. QED
      BY <2>3, <3>1, <3>2
  <2>6. {[page |-> x.page, clicks |-> x.clicks] : x \in Entries}
        = {[page |-> p, clicks |-> N(p)] : p \in {x.page : x \in RowsOf(d)}}
    BY <2>4, <2>5
  <2>. QED
    BY <2>6 DEF Entries, N
<1>. QED
  BY <1>1, GscInvariant, PTL

-----------------------------------------------------------------------------
(* One pull behind a day's slice *)

DayRows(v, d) == {x \in rows : x.day = d /\ x.from \in {Committed, v} /\ x.dead # v}

\* The rows of a day v sees came with one COPY, n of them.
SliceAt(v, d, n) ==
  /\ \A x, y \in DayRows(v, d) : x.id = y.id /\ (x.page = y.page => x = y)
  /\ n = Cardinality({x.page : x \in DayRows(v, d)})

\* What a transaction has pulled of a day, and what the log tells of it.
RowsTold(r, d) ==
  IF AtDay(r, d, {"clear", "sum", "log"}) THEN Cardinality(run[r].got) ELSE run[r].logs[d].rows
LoggedRows(d) == IF d \in DOMAIN log THEN log[d].rows ELSE 0

OwnSliceAt(r, d) ==
  Touches(r, d) /\ ~AtDay(r, d, {"slice"}) /\ d \notin run[r].overlap => SliceAt(r, d, RowsTold(r, d))

\* Only a statement of these waits, and a DELETE for another pull of the day.
WaitAt(r) ==
  Active(r) /\ run[r].waits = TRUE =>
    /\ run[r].pc \in {"slice", "clear", "sum"}
    /\ run[r].pc = "slice" /\ run[r].day \in Days => run[r].day \in run[r].overlap

CommittedSlice == \A d \in Days \ overlapped : SliceAt(Committed, d, LoggedRows(d))
OwnSlice == \A r \in Runs, d \in Days : OwnSliceAt(r, d)
WaitInv  == \A r \in Runs : WaitAt(r)

OnePullInv == CommittedSlice /\ OwnSlice /\ WaitInv

\* A step of r that leaves the rows and the log alone.
LEMMA SliceStays ==
  ASSUME OnePullInv, UNCHANGED <<rows, log, overlapped>>, NEW u \in Runs, NEW d \in Days,
         Touches(u, d)' /\ ~AtDay(u, d, {"slice"})' /\ d \notin run'[u].overlap =>
           /\ Touches(u, d) /\ ~AtDay(u, d, {"slice"}) /\ d \notin run[u].overlap
           /\ RowsTold(u, d)' = RowsTold(u, d)
  PROVE  OwnSliceAt(u, d)'
<1>1. \A n : SliceAt(u, d, n)' <=> SliceAt(u, d, n)
  BY DEF SliceAt, DayRows
<1>2. OwnSliceAt(u, d)
  BY DEF OnePullInv, OwnSlice
<1>3. SUFFICES ASSUME Touches(u, d)', ~AtDay(u, d, {"slice"})', d \notin run'[u].overlap
               PROVE  SliceAt(u, d, RowsTold(u, d))'
  BY DEF OwnSliceAt
<1>4. PICK n : n = RowsTold(u, d) /\ n = RowsTold(u, d)'
  BY <1>3
<1>5. SliceAt(u, d, n)'
  BY <1>1, <1>2, <1>3, <1>4 DEF OwnSliceAt
<1>. QED
  BY <1>4, <1>5 DEF SliceAt

\* A step that changes neither the rows nor the log.
LEMMA CommittedSliceStays ==
  ASSUME OnePullInv, UNCHANGED <<rows, log, overlapped>>
  PROVE  CommittedSlice'
BY DEF OnePullInv, CommittedSlice, SliceAt, DayRows, LoggedRows

\* The steps of a transaction that write no row of gsc_daily.
LEMMA RowlessKeeps ==
  ASSUME GscInv, GscInv', OnePullInv, NEW r \in Runs,
         \/ \E key \in DOMAIN jobs : Claim(r, key)
         \/ InitialPull(r) \/ StopEarly(r) \/ BumpQuota(r) \/ ClearRollup(r) \/ InsertRollup(r)
         \/ UpsertLog(r) \/ Wait(r)
  PROVE  OnePullInv'
<1>0. RunsInv /\ TablesInv /\ OverlapsInv /\ RunsInv'
  BY DEF GscInv
<1>1. UNCHANGED <<rows, log, overlapped>> /\ \A u \in Runs \ {r} : run'[u] = run[u]
  <2>1. CASE \E key \in DOMAIN jobs : Claim(r, key)
    BY <1>0, <2>1 DEF Claim, tables, history, RunsInv
  <2>2. CASE InitialPull(r)
    BY <1>0, <2>2 DEF InitialPull, tables, RunsInv
  <2>3. CASE StopEarly(r)
    BY <1>0, <2>3 DEF StopEarly, tables, history, RunsInv
  <2>4. CASE BumpQuota(r)
    BY <1>0, <2>4 DEF BumpQuota, tables, history, RunsInv
  <2>5. CASE ClearRollup(r)
    BY <1>0, <2>5 DEF ClearRollup, Proceed, history, RunsInv
  <2>6. CASE InsertRollup(r)
    BY <1>0, <2>6 DEF InsertRollup, Proceed, history, RunsInv
  <2>7. CASE UpsertLog(r)
    BY <1>0, <2>7 DEF UpsertLog, tables, history, RunsInv
  <2>8. CASE Wait(r)
    BY <1>0, <2>8 DEF Wait, tables, history, RunsInv
  <2>. QED
    BY <2>1, <2>2, <2>3, <2>4, <2>5, <2>6, <2>7, <2>8
<1>2. ASSUME NEW u \in Runs \ {r}, NEW d \in Days
      PROVE  OwnSliceAt(u, d)' /\ WaitAt(u)'
  <2>1. run'[u] = run[u] /\ WaitAt(u)
    BY <1>1 DEF OnePullInv, WaitInv
  <2>2. /\ Touches(u, d)' <=> Touches(u, d)
        /\ \A pcs : AtDay(u, d, pcs)' <=> AtDay(u, d, pcs)
    BY <2>1 DEF Touches, AtDay, Active
  <2>3. RowsTold(u, d)' = RowsTold(u, d)
    BY <2>1, <2>2 DEF RowsTold
  <2>4. WaitAt(u)'
    BY <2>1 DEF WaitAt, Active
  <2>. QED
    BY <1>1, <2>1, <2>2, <2>3, <2>4, SliceStays
<1>3. ASSUME NEW d \in Days
      PROVE  OwnSliceAt(r, d)' /\ WaitAt(r)'
  <2>0. WaitAt(r)
    BY DEF OnePullInv, WaitInv
  \* One that touches no day of the site's.
  <2>1. ASSUME ~Touches(r, d)', run'[r].waits # TRUE \/ ~Active(r)'
        PROVE  OwnSliceAt(r, d)' /\ WaitAt(r)'
    BY <2>1 DEF OwnSliceAt, WaitAt
  \* One that stays at its day.
  <2>2. ASSUME Active(r), run[r].pc # "slice", run'[r].pc # "slice",
               run'[r].waits = FALSE \/ (run[r].pc = run'[r].pc /\ run'[r].waits = run[r].waits)
                                     \/ (run[r].pc = "ledger" /\ run'[r].waits = run[r].waits),
               run'[r].day = run[r].day, run'[r].overlap = run[r].overlap,
               run'[r].got = run[r].got, run'[r].logs = run[r].logs,
               run[r].pc \in {"clear", "sum", "log"} <=> run'[r].pc \in {"clear", "sum", "log"}
        PROVE  OwnSliceAt(r, d)' /\ WaitAt(r)'
    <3>1. Touches(r, d)' => Touches(r, d)
      BY <2>2 DEF Touches, Active
    <3>2. Touches(r, d)' =>
            \A pcs : AtDay(r, d, pcs)' <=> Active(r)' /\ run[r].day = d /\ run'[r].pc \in pcs
      BY <2>2 DEF AtDay
    <3>3. Touches(r, d)' => Active(r)'
      BY DEF Touches, Active
    <3>4. Touches(r, d)' => RowsTold(r, d)' = RowsTold(r, d)
      BY <2>2, <3>2, <3>3 DEF RowsTold, AtDay
    <3>5. ~AtDay(r, d, {"slice"})
      BY <2>2 DEF AtDay
    <3>6. WaitAt(r)'
      BY <2>0, <2>2 DEF WaitAt
    <3>. QED
      BY <1>1, <2>2, <3>1, <3>4, <3>5, <3>6, SliceStays
  <2>3. CASE \E key \in DOMAIN jobs : Claim(r, key)
    <3>0. PICK key \in DOMAIN jobs : Claim(r, key)
      BY <2>3
    <3>1. run'[r].day = 0 /\ run'[r].logs = << >> /\ run'[r].waits = FALSE
      BY <1>0, <3>0 DEF Claim, RunsInv
    <3>2. DOMAIN run'[r].logs = {}
      BY <3>1
    <3>3. ~Touches(r, d)'
      BY <3>1, <3>2, GscConstants DEF Touches
    <3>. QED
      BY <2>1, <3>1, <3>3
  <2>4. CASE InitialPull(r)
    <3>1. run'[r] = NoRun
      BY <1>0, <2>4 DEF InitialPull, RunsInv
    <3>. QED
      BY <2>1, <3>1 DEF Touches, Active
  <2>5. CASE StopEarly(r)
    <3>1. Active(r) /\ DOMAIN run[r] = RunFields /\ run[r].pc = "next"
      BY <1>0, <2>5 DEF StopEarly, RunsInv, Active, NoRun
    <3>2. /\ run'[r].pc = "next" /\ run'[r].waits = run[r].waits
          /\ run'[r].day = run[r].day /\ run'[r].overlap = run[r].overlap
          /\ run'[r].got = run[r].got /\ run'[r].logs = run[r].logs
      BY <1>0, <2>5, <3>1 DEF StopEarly, RunsInv, RunFields
    <3>. QED
      BY <2>2, <3>1, <3>2
  <2>6. CASE BumpQuota(r)
    <3>1. Active(r) /\ DOMAIN run[r] = RunFields /\ run[r].pc = "ledger"
      BY <1>0, <2>6 DEF BumpQuota, RunsInv, Active, NoRun
    <3>2. /\ run'[r].pc = "next" /\ run'[r].waits = run[r].waits
          /\ run'[r].day = run[r].day /\ run'[r].overlap = run[r].overlap
          /\ run'[r].got = run[r].got /\ run'[r].logs = run[r].logs
      BY <1>0, <2>6, <3>1 DEF BumpQuota, RunsInv, RunFields
    <3>. QED
      BY <2>2, <3>1, <3>2
  <2>7. CASE ClearRollup(r)
    <3>1. Active(r) /\ run[r].pc = "clear" /\ Proceed(r, "sum")
      BY <2>7 DEF ClearRollup, Active, NoRun
    <3>2. /\ run'[r].pc = "sum" /\ run'[r].waits = FALSE
          /\ run'[r].day = run[r].day /\ run'[r].overlap = run[r].overlap
          /\ run'[r].got = run[r].got /\ run'[r].logs = run[r].logs
      BY <1>0, <3>1, ProceedEffect
    <3>. QED
      BY <2>2, <3>1, <3>2
  <2>8. CASE InsertRollup(r)
    <3>1. Active(r) /\ run[r].pc = "sum" /\ Proceed(r, "log")
      BY <2>8 DEF InsertRollup, Active, NoRun
    <3>2. /\ run'[r].pc = "log" /\ run'[r].waits = FALSE
          /\ run'[r].day = run[r].day /\ run'[r].overlap = run[r].overlap
          /\ run'[r].got = run[r].got /\ run'[r].logs = run[r].logs
      BY <1>0, <3>1, ProceedEffect
    <3>. QED
      BY <2>2, <3>1, <3>2
  <2>9. CASE UpsertLog(r)
    <3>0. run[r].pc = "log"
      BY <2>9 DEF UpsertLog
    <3>1. Active(r) /\ DOMAIN run[r] = RunFields
      BY <1>0, <3>0 DEF RunsInv, Active, NoRun
    <3>2. /\ run'[r].pc = "ledger" /\ run'[r].waits # TRUE
          /\ run'[r].day = run[r].day /\ run'[r].overlap = run[r].overlap
          /\ run'[r].logs = [k \in DOMAIN run[r].logs \union {run[r].day} |->
                               IF k = run[r].day
                               THEN [rows |-> Cardinality(run[r].got), final |-> run[r].final]
                               ELSE run[r].logs[k]]
      <4>1. run[r].waits # TRUE
        BY <2>0, <3>0, <3>1 DEF WaitAt
      <4>. QED
        BY <1>0, <2>9, <3>1, <4>1 DEF UpsertLog, RunsInv, RunFields
    <3>3. Touches(r, d)' => Touches(r, d)
      BY <3>1, <3>2 DEF Touches, Active
    <3>4. ~AtDay(r, d, {"slice"}) /\ ~AtDay(r, d, {"clear", "sum", "log"})'
      BY <3>0, <3>2 DEF AtDay
    <3>5. WaitAt(r)'
      BY <3>2 DEF WaitAt
    <3>6. CASE d = run[r].day
      <4>1. RowsTold(r, d) = Cardinality(run[r].got)
        BY <3>0, <3>1, <3>6 DEF RowsTold, AtDay
      <4>2. RowsTold(r, d)' = run'[r].logs[d].rows
        BY <3>4 DEF RowsTold
      <4>3. run'[r].logs[d].rows = Cardinality(run[r].got)
        BY <3>2, <3>6
      <4>. QED
        BY <1>1, <3>2, <3>3, <3>4, <3>5, <4>1, <4>2, <4>3, SliceStays
    <3>7. CASE d # run[r].day
      <4>1. RowsTold(r, d) = run[r].logs[d].rows
        BY <3>7 DEF RowsTold, AtDay
      <4>2. RowsTold(r, d)' = run'[r].logs[d].rows
        BY <3>4 DEF RowsTold
      <4>3. Touches(r, d)' => d \in DOMAIN run[r].logs
        BY <3>2, <3>7 DEF Touches
      <4>4. Touches(r, d)' => RowsTold(r, d)' = RowsTold(r, d)
        BY <3>2, <3>7, <4>1, <4>2, <4>3
      <4>. QED
        BY <1>1, <3>2, <3>3, <3>4, <3>5, <4>4, SliceStays
    <3>. QED
      BY <3>6, <3>7
  <2>10. CASE Wait(r)
    <3>0. run[r].pc \in {"slice", "clear", "sum"} /\ WaitsFor(r) # {}
      BY <2>10 DEF Wait
    <3>1. Active(r) /\ DOMAIN run[r] = RunFields
      BY <1>0, <3>0 DEF RunsInv, Active, NoRun
    <3>2. /\ run'[r].pc = run[r].pc /\ run'[r].day = run[r].day /\ run'[r].overlap = run[r].overlap
          /\ run'[r].got = run[r].got /\ run'[r].logs = run[r].logs /\ DOMAIN run'[r] = RunFields
      BY <1>0, <2>10, <3>1 DEF Wait, RunsInv, RunFields
    <3>3. Active(r)'
      BY <3>2 DEF Active, NoRun, RunFields
    <3>4. /\ Touches(r, d)' <=> Touches(r, d)
          /\ \A pcs : AtDay(r, d, pcs)' <=> AtDay(r, d, pcs)
      BY <3>1, <3>2, <3>3 DEF Touches, AtDay, Active
    <3>5. RowsTold(r, d)' = RowsTold(r, d)
      BY <3>2, <3>4 DEF RowsTold
    <3>6. OwnSliceAt(r, d)'
      BY <1>1, <3>2, <3>4, <3>5, SliceStays
    <3>7. ASSUME run[r].pc = "slice", run[r].day \in Days
          PROVE  run[r].day \in run[r].overlap
      <4>1. PICK u \in Holders(Targeted(r, rows)) : u # r
        BY <3>0, <3>7 DEF WaitsFor
      <4>2. PICK x \in Targeted(r, rows) : x.dead = u /\ u # Nobody
        BY <4>1 DEF Holders
      <4>3. x \in rows /\ x.day = run[r].day
        BY <4>2 DEF Targeted
      <4>4. u \in Runs /\ Touches(u, run[r].day)
        BY <1>0, <3>7, <4>2, <4>3 DEF TablesInv, Tidy, Held
      <4>5. Touches(r, run[r].day)
        BY <3>1 DEF Touches, Active
      <4>. QED
        BY <1>0, <3>7, <4>1, <4>4, <4>5 DEF OverlapsInv
    <3>8. WaitAt(r)'
      BY <3>0, <3>2, <3>7 DEF WaitAt
    <3>. QED
      BY <3>6, <3>8
  <2>. QED
    BY <2>3, <2>4, <2>5, <2>6, <2>7, <2>8, <2>9, <2>10
<1>4. CommittedSlice'
  BY <1>1, CommittedSliceStays
<1>5. ASSUME NEW u \in Runs
      PROVE  WaitAt(u)' /\ \A d \in Days : OwnSliceAt(u, d)'
  <2>1. \A d \in Days : OwnSliceAt(u, d)' /\ WaitAt(u)'
    BY <1>2, <1>3
  <2>2. PICK d \in Days : TRUE
    BY GscAssumption DEF Days
  <2>. QED
    BY <2>1, <2>2
<1>. QED
  BY <1>4, <1>5 DEF OnePullInv, OwnSlice, WaitInv

\* A pull turns to its next day: one that overlaps another is promised nothing.
LEMMA PullDayKeepsSlices ==
  ASSUME GscInv, OnePullInv, NEW r \in Runs, PullDay(r)
  PROVE  OnePullInv'
<1>0. RunsInv /\ UNCHANGED <<rows, log, overlapped>> /\ run[r].pc = "next"
  BY DEF GscInv, PullDay, tables, history
<1>. DEFINE d0     == Head(run[r].todo)
            others == {u \in Runs \ {r} : Touches(u, d0)}
<1>1. Active(r) /\ DOMAIN run[r] = RunFields
  BY <1>0 DEF RunsInv, Active, NoRun
<1>2. PICK got \in SUBSET Pages :
        run' = [u \in Runs |->
             CASE u = r -> [run[r] EXCEPT !.pc = "slice", !.todo = Tail(@), !.day = d0,
                              !.got = got, !.final = IsFinal(d0),
                              !.overlap = IF others = {} THEN @ ELSE @ \union {d0}]
               [] u \in others -> [run[u] EXCEPT !.overlap = @ \union {d0}]
               [] OTHER -> run[u]]
  BY DEF PullDay, QueryAll
<1>3. /\ run'[r] = [run[r] EXCEPT !.pc = "slice", !.todo = Tail(@), !.day = d0,
                              !.got = got, !.final = IsFinal(d0),
                              !.overlap = IF others = {} THEN @ ELSE @ \union {d0}]
      /\ \A u \in others : Active(u) /\ run'[u] = [run[u] EXCEPT !.overlap = @ \union {d0}]
      /\ \A u \in Runs \ {r} : u \notin others => run'[u] = run[u]
  BY <1>2 DEF Touches, Active
<1>4. /\ run'[r].pc = "slice" /\ run'[r].day = d0 /\ run'[r].logs = run[r].logs
      /\ run[r].overlap \subseteq run'[r].overlap /\ run'[r].waits = run[r].waits
  BY <1>1, <1>3 DEF RunFields
<1>. HIDE DEF d0, others
<1>5. ASSUME NEW d \in Days
      PROVE  OwnSliceAt(r, d)'
  <2>1. Touches(r, d)' /\ ~AtDay(r, d, {"slice"})' => d \in DOMAIN run[r].logs /\ d # d0
    BY <1>4 DEF Touches, AtDay, Active
  <2>2. ~AtDay(r, d, {"slice"}) /\ ~AtDay(r, d, {"clear", "sum", "log"})
        /\ ~AtDay(r, d, {"clear", "sum", "log"})'
    BY <1>0, <1>4 DEF AtDay
  <2>3. RowsTold(r, d)' = RowsTold(r, d)
    BY <1>4, <2>2 DEF RowsTold
  <2>4. d \in DOMAIN run[r].logs => Touches(r, d)
    BY <1>1 DEF Touches, Active
  <2>. QED
    BY <1>0, <1>4, <2>1, <2>2, <2>3, <2>4, SliceStays
<1>6. ASSUME NEW u \in Runs \ {r}, Active(u)
      PROVE  /\ DOMAIN run'[u] = RunFields /\ run'[u].pc = run[u].pc /\ run'[u].day = run[u].day
             /\ run'[u].logs = run[u].logs /\ run'[u].got = run[u].got
             /\ run'[u].waits = run[u].waits /\ run[u].overlap \subseteq run'[u].overlap
  <2>1. DOMAIN run[u] = RunFields
    BY <1>0, <1>6 DEF RunsInv
  <2>2. CASE u \in others
    <3>1. run'[u] = [run[u] EXCEPT !.overlap = @ \union {d0}]
      BY <1>3, <2>2
    <3>2. run[u].overlap \subseteq run'[u].overlap
      BY <2>1, <3>1 DEF RunFields
    <3>. QED
      BY <2>1, <3>1, <3>2 DEF RunFields
  <2>3. CASE u \notin others
    BY <1>3, <2>1, <2>3
  <2>. QED
    BY <2>2, <2>3
<1>7. ASSUME NEW u \in Runs \ {r}, ~Active(u)
      PROVE  ~Active(u)'
  BY <1>3, <1>7 DEF Active
<1>8. ASSUME NEW u \in Runs \ {r}, NEW d \in Days
      PROVE  OwnSliceAt(u, d)'
  <2>1. CASE ~Active(u)
    BY <1>7, <2>1 DEF OwnSliceAt, Touches, Active
  <2>2. CASE Active(u)
    <3>1. Active(u)'
      BY <1>6, <2>2 DEF Active, NoRun, RunFields
    <3>2. /\ Touches(u, d)' <=> Touches(u, d)
          /\ \A pcs : AtDay(u, d, pcs)' <=> AtDay(u, d, pcs)
      BY <1>6, <2>2, <3>1 DEF Touches, AtDay, Active
    <3>3. RowsTold(u, d)' = RowsTold(u, d)
      BY <1>6, <2>2, <3>2 DEF RowsTold
    <3>. QED
      BY <1>0, <1>6, <2>2, <3>2, <3>3, SliceStays
  <2>. QED
    BY <2>1, <2>2
<1>9. ASSUME NEW u \in Runs \ {r}
      PROVE  WaitAt(u)'
  BY <1>6, <1>7, <1>9 DEF OnePullInv, WaitInv, WaitAt
\* r had nothing to wait for where it was.
<1>10. run[r].waits # TRUE
  BY <1>0, <1>1 DEF OnePullInv, WaitInv, WaitAt
<1>11. WaitAt(r)'
  BY <1>4, <1>10 DEF WaitAt
<1>12. CommittedSlice'
  BY <1>0, CommittedSliceStays
<1>. QED
  BY <1>5, <1>8, <1>9, <1>11, <1>12 DEF OnePullInv, OwnSlice, WaitInv

\* The rows of a day, one by one under another writer or deleter.
LEMMA OneByOne ==
  ASSUME NEW v, NEW w, NEW d, NEW n, NEW f,
         DayRows(v, d)' = {f[x] : x \in DayRows(w, d)},
         \A x \in DayRows(w, d) : f[x].id = x.id /\ f[x].page = x.page,
         SliceAt(w, d, n)
  PROVE  SliceAt(v, d, n)'
<1>1. ASSUME NEW y \in DayRows(v, d)'
      PROVE  \E x \in DayRows(w, d) : y = f[x] /\ y.id = x.id /\ y.page = x.page
  OBVIOUS
<1>2. \A x \in DayRows(w, d) : \E y \in DayRows(v, d)' : y.page = x.page
  OBVIOUS
<1>3. {y.page : y \in DayRows(v, d)'} = {x.page : x \in DayRows(w, d)}
  BY <1>1, <1>2
<1>4. \A x, y \in DayRows(v, d)' : x.id = y.id /\ (x.page = y.page => x = y)
  BY <1>1 DEF SliceAt
<1>. QED
  BY <1>3, <1>4 DEF SliceAt

\* What a transaction does not touch keeps it.
LEMMA OthersToldSame ==
  ASSUME OnePullInv, NEW u \in Runs, run'[u] = run[u], NEW d \in Days,
         Touches(u, d) /\ d \notin run[u].overlap => \A n : SliceAt(u, d, n) => SliceAt(u, d, n)'
  PROVE  OwnSliceAt(u, d)' /\ WaitAt(u)'
<1>1. OwnSliceAt(u, d) /\ WaitAt(u)
  BY DEF OnePullInv, OwnSlice, WaitInv
<1>2. /\ Touches(u, d)' <=> Touches(u, d)
      /\ \A pcs : AtDay(u, d, pcs)' <=> AtDay(u, d, pcs)
  BY DEF Touches, AtDay, Active
<1>3. PICK n : n = RowsTold(u, d) /\ n = RowsTold(u, d)'
  BY <1>2 DEF RowsTold
<1>4. Touches(u, d)' /\ ~AtDay(u, d, {"slice"})' /\ d \notin run'[u].overlap => SliceAt(u, d, n)'
  BY <1>1, <1>2, <1>3 DEF OwnSliceAt
<1>5. OwnSliceAt(u, d)'
  BY <1>3, <1>4 DEF OwnSliceAt, SliceAt
<1>6. WaitAt(u)'
  BY <1>1 DEF WaitAt, Active
<1>. QED
  BY <1>5, <1>6

\* A rollback leaves the slices of all others as they were.
LEMMA AbortKeepsSlices ==
  ASSUME GscInv, OnePullInv, NEW r \in Runs, Active(r), Abort(r)
  PROVE  OnePullInv'
<1>0. RunsInv /\ TablesInv
  BY DEF GscInv
<1>1. /\ rows' = {UndoRow(x, r) : x \in {y \in rows : y.from # r}}
      /\ run' = [run EXCEPT ![r] = NoRun] /\ UNCHANGED <<log, overlapped>>
  BY DEF Abort, UndoRow, history
<1>2. (\A u \in Runs \ {r} : run'[u] = run[u]) /\ run'[r] = NoRun
  BY <1>0, <1>1 DEF RunsInv
<1>3. \A x \in rows :
        /\ Alike(UndoRow(x, r), x) /\ UndoRow(x, r).from = x.from
        /\ UndoRow(x, r).dead = IF x.dead = r THEN Nobody ELSE x.dead
  BY <1>0, RowsEnd DEF TablesInv
<1>4. ASSUME NEW v \in (Runs \ {r}) \union {Committed}, NEW d, NEW n, SliceAt(v, d, n)
      PROVE  SliceAt(v, d, n)'
  <2>1. v # r /\ Committed # r /\ Nobody # v
    BY GscConstants
  <2>. DEFINE f == [x \in DayRows(v, d) |-> UndoRow(x, r)]
  <2>2. DayRows(v, d)' = {UndoRow(x, r) : x \in DayRows(v, d)}
    BY <1>1, <1>3, <2>1 DEF DayRows, Alike
  <2>3. \A x \in DayRows(v, d) : f[x] = UndoRow(x, r) /\ f[x].id = x.id /\ f[x].page = x.page
    BY <1>3 DEF DayRows, Alike
  <2>. HIDE DEF f
  <2>4. DayRows(v, d)' = {f[x] : x \in DayRows(v, d)}
    BY <2>2, <2>3
  <2>. QED
    BY <1>4, <2>3, <2>4, OneByOne
<1>5. ASSUME NEW u \in Runs \ {r}, NEW d \in Days
      PROVE  OwnSliceAt(u, d)' /\ WaitAt(u)'
  BY <1>2, <1>4, OthersToldSame
<1>6. \A d : OwnSliceAt(r, d)' /\ WaitAt(r)'
  BY <1>2 DEF OwnSliceAt, WaitAt, Touches, Active
<1>7. CommittedSlice'
  <2>. SUFFICES ASSUME NEW d \in Days \ overlapped
                PROVE  SliceAt(Committed, d, LoggedRows(d))'
    BY <1>1 DEF CommittedSlice
  <2>1. PICK n : n = LoggedRows(d) /\ n = LoggedRows(d)'
    BY <1>1 DEF LoggedRows
  <2>2. SliceAt(Committed, d, n)'
    BY <1>4, <2>1 DEF OnePullInv, CommittedSlice
  <2>. QED
    BY <2>1, <2>2 DEF SliceAt
<1>8. PICK d \in Days : TRUE
  BY GscAssumption DEF Days
<1>. QED
  BY <1>5, <1>6, <1>7, <1>8 DEF OnePullInv, OwnSlice, WaitInv

\* A commit makes the slice of r the one on record, and the log tells its rows.
LEMMA FinishKeepsSlices ==
  ASSUME GscInv, OnePullInv, NEW r \in Runs, Finish(r)
  PROVE  OnePullInv'
<1>0. RunsInv /\ TablesInv /\ OverlapsInv /\ run[r].pc = "next"
  BY DEF GscInv, Finish
<1>. DEFINE logs == run[r].logs
<1>1. /\ rows' = {PublishRow(x, r) : x \in {y \in rows : y.dead # r}}
      /\ run' = [run EXCEPT ![r] = NoRun]
      /\ log' = [d \in DOMAIN logs \union DOMAIN log |-> IF d \in DOMAIN logs THEN logs[d] ELSE log[d]]
      /\ overlapped' = (overlapped \ DOMAIN logs) \union run[r].overlap
  BY DEF Finish, PublishRow, VisibleLog
<1>2. (\A u \in Runs \ {r} : run'[u] = run[u]) /\ run'[r] = NoRun
  BY <1>0, <1>1 DEF RunsInv
<1>3. \A x \in rows :
        /\ Alike(PublishRow(x, r), x) /\ PublishRow(x, r).dead = x.dead
        /\ PublishRow(x, r).from = IF x.from = r THEN Committed ELSE x.from
        /\ Tidy(x) /\ (x.day \in Days => Held(x))
  BY <1>0, RowsEnd DEF TablesInv
<1>4. ASSUME NEW v \in (Runs \ {r}) \union {Committed}, NEW w \in Runs \union {Committed},
             NEW d \in Days, NEW n, SliceAt(w, d, n),
             (v = w /\ ~Touches(r, d)) \/ (v = Committed /\ w = r)
      PROVE  SliceAt(v, d, n)'
  <2>1. v # r /\ Committed # r /\ Nobody # v /\ \A x \in rows : x.dead # Committed
    BY <1>3, GscConstants DEF Tidy
  <2>. DEFINE f == [x \in DayRows(w, d) |-> PublishRow(x, r)]
  <2>2. DayRows(v, d)' = {PublishRow(x, r) : x \in DayRows(w, d)}
    <3>1. CASE v = w /\ ~Touches(r, d)
      <4>1. \A x \in rows : x.day = d => x.from # r /\ x.dead # r
        BY <1>3, <3>1 DEF Held
      <4>. QED
        BY <1>1, <1>3, <2>1, <3>1, <4>1 DEF DayRows, Alike
    <3>2. CASE v = Committed /\ w = r
      BY <1>1, <1>3, <2>1, <3>2 DEF DayRows, Alike
    <3>. QED
      BY <1>4, <3>1, <3>2
  <2>3. \A x \in DayRows(w, d) : f[x] = PublishRow(x, r) /\ f[x].id = x.id /\ f[x].page = x.page
    BY <1>3 DEF DayRows, Alike
  <2>. HIDE DEF f
  <2>4. DayRows(v, d)' = {f[x] : x \in DayRows(w, d)}
    BY <2>2, <2>3
  <2>. QED
    BY <1>4, <2>3, <2>4, OneByOne
<1>5. ASSUME NEW u \in Runs \ {r}, NEW d \in Days
      PROVE  OwnSliceAt(u, d)' /\ WaitAt(u)'
  <2>1. Touches(u, d) /\ d \notin run[u].overlap => ~Touches(r, d)
    BY <1>0 DEF OverlapsInv
  <2>2. Touches(u, d) /\ d \notin run[u].overlap => \A n : SliceAt(u, d, n) => SliceAt(u, d, n)'
    BY <1>4, <2>1
  <2>. QED
    BY <1>2, <2>2, OthersToldSame
<1>6. \A d : OwnSliceAt(r, d)' /\ WaitAt(r)'
  BY <1>2 DEF OwnSliceAt, WaitAt, Touches, Active
<1>7. CommittedSlice'
  <2>. SUFFICES ASSUME NEW d \in Days, d \notin overlapped'
                PROVE  SliceAt(Committed, d, LoggedRows(d))'
    BY DEF CommittedSlice
  <2>1. CASE Touches(r, d)
    <3>1. Active(r) /\ d \in DOMAIN logs /\ ~AtDay(r, d, {"slice"})
          /\ ~AtDay(r, d, {"clear", "sum", "log"})
      BY <1>0, <2>1, GscConstants DEF Touches, RunsInv, Active, AtDay
    <3>2. d \notin run[r].overlap
      BY <1>1
    <3>3. PICK n : n = logs[d].rows
      OBVIOUS
    <3>4. SliceAt(r, d, n)
      BY <2>1, <3>1, <3>2, <3>3 DEF OnePullInv, OwnSlice, OwnSliceAt, RowsTold
    <3>5. SliceAt(Committed, d, n)'
      BY <1>4, <3>4
    <3>6. LoggedRows(d)' = n
      BY <1>1, <3>1, <3>3 DEF LoggedRows
    <3>. QED
      BY <3>5, <3>6 DEF SliceAt
  <2>2. CASE ~Touches(r, d)
    <3>1. d \notin DOMAIN logs
      BY <1>0, <2>2 DEF Touches, NoRun
    <3>2. d \notin overlapped
      BY <1>1, <3>1
    <3>3. PICK n : n = LoggedRows(d) /\ n = LoggedRows(d)'
      BY <1>1, <3>1 DEF LoggedRows
    <3>4. SliceAt(Committed, d, n)'
      BY <1>4, <2>2, <3>2, <3>3 DEF OnePullInv, CommittedSlice
    <3>. QED
      BY <3>3, <3>4 DEF SliceAt
  <2>. QED
    BY <2>1, <2>2
<1>8. PICK d \in Days : TRUE
  BY GscAssumption DEF Days
<1>. QED
  BY <1>5, <1>6, <1>7, <1>8 DEF OnePullInv, OwnSlice, WaitInv

\* Alone at its day, a pull deletes all there was and writes what it got.
LEMMA ReplaceSliceKeepsSlices ==
  ASSUME GscInv, OnePullInv, NEW r \in Runs, ReplaceSlice(r)
  PROVE  OnePullInv'
<1>0. RunsInv /\ TablesInv /\ OverlapsInv
  BY DEF GscInv
<1>1. /\ run[r].pc = "slice" /\ Holders(Targeted(r, rows)) \subseteq {r}
      /\ rows' = SliceReplaced(r) /\ Proceed(r, "clear") /\ UNCHANGED <<log, overlapped>>
  BY DEF ReplaceSlice, history
<1>2. Active(r) /\ run[r].got \subseteq Pages
  BY <1>0, <1>1 DEF RunsInv, Active, NoRun
<1>3. /\ \A u \in Runs \ {r} : run'[u] = run[u]
      /\ DOMAIN run'[r] = RunFields /\ run'[r].pc = "clear" /\ run'[r].waits = FALSE
      /\ run'[r].day = run[r].day /\ run'[r].got = run[r].got /\ run'[r].logs = run[r].logs
      /\ run'[r].overlap = run[r].overlap
  BY <1>0, <1>1, <1>2, ProceedEffect
<1>. DEFINE T      == Targeted(r, rows)
            New(p) == [day |-> run[r].day, page |-> p, id |-> FreshId(rows), from |-> r, dead |-> Nobody]
<1>4. rows' = {DeleteRow(x, r, T) : x \in rows} \union {New(p) : p \in run[r].got}
  BY <1>1 DEF SliceReplaced, Deleted, DeleteRow
<1>5. \A p : /\ New(p).day = run[r].day /\ New(p).page = p /\ New(p).id = FreshId(rows)
             /\ New(p).from = r /\ New(p).dead = Nobody
  OBVIOUS
<1>6. \A x \in rows : /\ Carries(DeleteRow(x, r, T), x, r)
                      /\ x \in T => DeleteRow(x, r, T).dead = r
  <2>1. \A x \in rows : RowFields \subseteq DOMAIN x /\ x.dead \in Runs \union {Nobody}
    BY <1>0 DEF TablesInv, Tidy
  <2>2. \A x \in T : x.day = run[r].day /\ x.from \in {Committed, r}
    BY DEF Targeted
  <2>. QED
    BY <1>1, <2>1, <2>2, DeletedRow
<1>. HIDE DEF New, T
<1>7. ASSUME NEW v \in Runs \union {Committed}, NEW d, v # r \/ d # run[r].day, NEW n, SliceAt(v, d, n)
      PROVE  SliceAt(v, d, n)'
  <2>1. Committed # r /\ Nobody # v
    BY GscConstants
  <2>. DEFINE f == [x \in DayRows(v, d) |-> DeleteRow(x, r, T)]
  <2>2. DayRows(v, d)' = {DeleteRow(x, r, T) : x \in DayRows(v, d)}
    BY <1>4, <1>5, <1>6, <1>7, <2>1 DEF DayRows, Carries, Alike
  <2>3. \A x \in DayRows(v, d) : f[x] = DeleteRow(x, r, T) /\ f[x].id = x.id /\ f[x].page = x.page
    BY <1>6 DEF DayRows, Carries, Alike
  <2>. HIDE DEF f
  <2>4. DayRows(v, d)' = {f[x] : x \in DayRows(v, d)}
    BY <2>2, <2>3
  <2>. QED
    BY <1>7, <2>3, <2>4, OneByOne
<1>8. ASSUME NEW u \in Runs \ {r}, NEW d \in Days
      PROVE  OwnSliceAt(u, d)' /\ WaitAt(u)'
  BY <1>3, <1>7, OthersToldSame
<1>9. WaitAt(r)'
  BY <1>3 DEF WaitAt
<1>10. ASSUME NEW d \in Days
       PROVE  OwnSliceAt(r, d)'
  <2>1. Active(r)' /\ (Touches(r, d)' <=> Touches(r, d))
    BY <1>2, <1>3 DEF Active, NoRun, RunFields, Touches
  <2>2. CASE d # run[r].day
    <3>1. RowsTold(r, d)' = run'[r].logs[d].rows /\ RowsTold(r, d) = run[r].logs[d].rows
          /\ ~AtDay(r, d, {"slice"})
      BY <1>3, <2>2 DEF RowsTold, AtDay
    <3>2. PICK n : n = RowsTold(r, d) /\ n = RowsTold(r, d)'
      BY <1>3, <3>1
    <3>3. Touches(r, d)' /\ d \notin run'[r].overlap => SliceAt(r, d, n)'
      BY <1>3, <1>7, <2>1, <2>2, <3>1, <3>2 DEF OnePullInv, OwnSlice, OwnSliceAt
    <3>. QED
      BY <3>2, <3>3 DEF OwnSliceAt, SliceAt
  <2>3. CASE d = run[r].day
    <3>1. SUFFICES ASSUME d \notin run[r].overlap
                   PROVE  SliceAt(r, d, RowsTold(r, d))'
      BY <1>3 DEF OwnSliceAt
    <3>2. RowsTold(r, d)' = Cardinality(run[r].got)
      BY <1>3, <2>1, <2>3 DEF RowsTold, AtDay
    \* Alone at the day, r deletes all there is of it.
    <3>3. ASSUME NEW x \in rows, x.day = d
          PROVE  DeleteRow(x, r, T).dead = r
      <4>1. run[r].waits # TRUE /\ run[r].waits \in BOOLEAN
        BY <1>0, <1>1, <1>2, <2>3, <3>1 DEF OnePullInv, WaitInv, WaitAt, RunsInv
      <4>2. Touches(r, d)
        BY <1>2, <2>3 DEF Touches, Active
      <4>3. x.from \in {Committed, r}
        BY <1>0, <3>1, <3>3, <4>2 DEF TablesInv, Tidy, Held, OverlapsInv
      <4>4. x.dead = r \/ x \in T
        BY <2>3, <3>3, <4>1, <4>3 DEF T, Targeted, Targets, Visible
      <4>. QED
        BY <1>6, <4>4 DEF Carries
    <3>4. DayRows(r, d)' = {New(p) : p \in run[r].got}
      <4>1. Nobody # r
        BY GscConstants
      <4>2. ASSUME NEW y \in rows', y.day = d, y.dead # r
            PROVE  \E p \in run[r].got : y = New(p)
        <5>1. SUFFICES ASSUME NEW x \in rows, y = DeleteRow(x, r, T) PROVE FALSE
          BY <1>4
        <5>2. x.day = d
          BY <1>6, <4>2, <5>1 DEF Carries, Alike
        <5>. QED
          BY <3>3, <4>2, <5>1, <5>2
      <4>3. \A p \in run[r].got : New(p) \in DayRows(r, d)'
        BY <1>4, <1>5, <2>3, <4>1 DEF DayRows
      <4>4. \A y \in DayRows(r, d)' : \E p \in run[r].got : y = New(p)
        BY <4>2 DEF DayRows
      <4>. QED
        BY <4>3, <4>4
    <3>5. \A x, y \in DayRows(r, d)' : x.id = y.id /\ (x.page = y.page => x = y)
      BY <1>5, <3>4
    <3>6. {x.page : x \in DayRows(r, d)'} = run[r].got
      BY <1>5, <3>4
    <3>. QED
      BY <3>2, <3>5, <3>6 DEF SliceAt
  <2>. QED
    BY <2>2, <2>3
<1>11. CommittedSlice'
  <2>. SUFFICES ASSUME NEW d \in Days \ overlapped
                PROVE  SliceAt(Committed, d, LoggedRows(d))'
    BY <1>1 DEF CommittedSlice
  <2>1. PICK n : n = LoggedRows(d) /\ n = LoggedRows(d)'
    BY <1>1 DEF LoggedRows
  <2>2. SliceAt(Committed, d, n)'
    BY <1>7, <2>1, GscConstants DEF OnePullInv, CommittedSlice
  <2>. QED
    BY <2>1, <2>2 DEF SliceAt
<1>12. PICK d \in Days : TRUE
  BY GscAssumption DEF Days
<1>. QED
  BY <1>8, <1>9, <1>10, <1>11, <1>12 DEF OnePullInv, OwnSlice, WaitInv

\* Every step of a transaction keeps the slices.
LEMMA StepKeepsSlices ==
  ASSUME GscInv, GscInv', OnePullInv, NEW r \in Runs, Step(r)
  PROVE  OnePullInv'
<1>1. ASSUME Abort(r), run[r].pc # "idle" \/ Active(r)
      PROVE  OnePullInv'
  <2>1. Active(r)
    BY <1>1 DEF Active, NoRun
  <2>. QED
    BY <1>1, <2>1, AbortKeepsSlices
<1>2. CASE \/ \E key \in DOMAIN jobs : Claim(r, key)
           \/ InitialPull(r) \/ StopEarly(r) \/ BumpQuota(r) \/ ClearRollup(r) \/ InsertRollup(r)
           \/ UpsertLog(r) \/ Wait(r)
  BY <1>2, RowlessKeeps
<1>3. CASE JobFails(r)
  BY <1>1, <1>3 DEF JobFails, Active
<1>4. CASE AuthFails(r)
  BY <1>1, <1>4 DEF AuthFails
<1>5. CASE UniqueViolation(r)
  BY <1>1, <1>5 DEF UniqueViolation
<1>6. CASE DeadlockVictim(r)
  <2>1. WaitsFor(r) # {}
    BY <1>6 DEF DeadlockVictim
  <2>2. run[r].pc # "idle"
    BY <2>1 DEF WaitsFor
  <2>. QED
    BY <1>1, <1>6, <2>2 DEF DeadlockVictim
<1>7. CASE PullDay(r)
  BY <1>7, PullDayKeepsSlices
<1>8. CASE ReplaceSlice(r)
  BY <1>8, ReplaceSliceKeepsSlices
<1>9. CASE Finish(r)
  BY <1>9, FinishKeepsSlices
<1>. QED
  BY <1>2, <1>3, <1>4, <1>5, <1>6, <1>7, <1>8, <1>9 DEF Step

\* As many rows as pages, as each page has one.
LEMMA RowsAsPages ==
  ASSUME NEW S, \A x \in S : x.page \in Pages, \A x, y \in S : x.page = y.page => x = y
  PROVE  Cardinality(S) = Cardinality({x.page : x \in S})
<1>. DEFINE P == {x.page : x \in S}
            f == [x \in S |-> x.page]
<1>1. f \in Injection(S, P) /\ f \in Surjection(S, P)
  BY DEF Injection, Surjection, IsInjective
<1>2. P \subseteq Pages /\ IsFiniteSet(P)
  <2>1. P \in SUBSET Pages
    OBVIOUS
  <2>. QED
    BY <2>1, GscAssumption, FS_Subset
<1>. HIDE DEF P, f
<1>3. Cardinality(S) = Cardinality(P)
  BY <1>1, <1>2, FS_Injection
<1>. QED
  BY <1>3 DEF P

\* The rows of a day come from one COPY and the log tells how many they are,
\* for every day no two pulls overlapped on: pull_day's delete, write and log
\* belong to one transaction.
THEOREM SlicesAreOnePull == GscSpec => []SliceIsOnePull
<1>1. GscInit => OnePullInv
  <2>. SUFFICES ASSUME GscInit PROVE OnePullInv
    OBVIOUS
  <2>1. rows = {} /\ log = << >> /\ \A r \in Runs : run[r] = NoRun
    BY DEF GscInit
  <2>2. DOMAIN log = {}
    BY <2>1
  <2>3. \A d : LoggedRows(d) = 0
    BY <2>2 DEF LoggedRows
  <2>4. \A d : DayRows(Committed, d) = {}
    BY <2>1 DEF DayRows
  <2>5. \A d : {x.page : x \in DayRows(Committed, d)} = {}
    BY <2>4
  <2>6. CommittedSlice
    BY <2>3, <2>4, <2>5, FS_EmptySet DEF CommittedSlice, SliceAt
  <2>7. OwnSlice /\ WaitInv
    BY <2>1 DEF OwnSlice, OwnSliceAt, WaitInv, WaitAt, Touches, Active
  <2>. QED
    BY <2>6, <2>7 DEF OnePullInv
<1>2. ASSUME GscInv, GscInv', OnePullInv, GscNext \/ UNCHANGED gscVars
      PROVE  OnePullInv'
  <2>1. ASSUME UNCHANGED <<rows, run, log, overlapped>>
        PROVE  OnePullInv'
    <3>1. ASSUME NEW u \in Runs, NEW d \in Days
          PROVE  OwnSliceAt(u, d)' /\ WaitAt(u)'
      <4>1. \A n : SliceAt(u, d, n) => SliceAt(u, d, n)'
        BY <2>1 DEF SliceAt, DayRows
      <4>. QED
        BY <1>2, <2>1, <4>1, OthersToldSame
    <3>2. CommittedSlice'
      BY <1>2, <2>1, CommittedSliceStays
    <3>3. PICK d \in Days : TRUE
      BY GscAssumption DEF Days
    <3>. QED
      BY <3>1, <3>2, <3>3 DEF OnePullInv, OwnSlice, WaitInv
  <2>2. CASE UNCHANGED gscVars
    BY <2>1, <2>2 DEF gscVars, tables, history
  <2>3. CASE PullVerb
    BY <2>1, <2>3 DEF PullVerb, tables, history
  <2>4. CASE ScheduleDaily
    BY <2>1, <2>4 DEF ScheduleDaily, tables, history
  <2>5. CASE DayPasses
    BY <2>1, <2>5 DEF DayPasses, tables, history
  <2>6. CASE \E r \in Runs : Step(r)
    BY <1>2, <2>6, StepKeepsSlices
  <2>. QED
    BY <1>2, <2>2, <2>3, <2>4, <2>5, <2>6 DEF GscNext
<1>3. GscInv /\ OnePullInv => SliceIsOnePull
  <2>. SUFFICES ASSUME GscInv, OnePullInv, NEW d \in Days \ overlapped
                PROVE  /\ \A x, y \in RowsOf(d) : x.id = y.id
                       /\ Cardinality(RowsOf(d)) = LoggedRows(d)
    BY DEF SliceIsOnePull, LoggedRows
  <2>1. \A x \in rows : x.page \in Pages /\ x.dead # Committed
    BY GscConstants DEF GscInv, TablesInv, Tidy
  <2>2. RowsOf(d) = DayRows(Committed, d)
    BY <2>1 DEF RowsOf, DayRows
  <2>3. /\ \A x, y \in RowsOf(d) : x.id = y.id /\ (x.page = y.page => x = y)
        /\ LoggedRows(d) = Cardinality({x.page : x \in RowsOf(d)})
    BY <2>2 DEF OnePullInv, CommittedSlice, SliceAt
  <2>4. \A x \in RowsOf(d) : x.page \in Pages
    BY <2>1 DEF RowsOf
  <2>5. Cardinality(RowsOf(d)) = Cardinality({x.page : x \in RowsOf(d)})
    BY <2>3, <2>4, RowsAsPages
  <2>. QED
    BY <2>3, <2>5
<1>. QED
  BY <1>1, <1>2, <1>3, GscInvariant, PTL DEF GscSpec

-----------------------------------------------------------------------------
(* The chain of backfill batches *)

\* The job of a key: its days, the first of which the key of a batch names, and
\* what its run waits for.
JobOK(k, j) ==
  /\ DOMAIN j = {"days", "after", "status", "attempts"}
  /\ k[3] \in Nat /\ j.after = k[3] /\ (k[3] > today => j.status = "queued")
  /\ j.days \in Seq(Int)
  /\ k[1] = "backfill" => k[2] \in Int /\ j.days # <<>> /\ Head(j.days) = k[2]

KeysOK(queue) == \A k \in DOMAIN queue : JobOK(k, queue[k])

\* A transaction is in the middle of pulling a day.
AtPull(r) == run[r].pc \in {"slice", "clear", "sum", "log"}

\* An entry is final only of a day that is past the lag, and if it was made
\* today of every day that is.
EntryOK(d, final, began) ==
  /\ final \in BOOLEAN
  /\ final => IsFinal(d)
  /\ began = today /\ IsFinal(d) => final

\* A batch starts with the day its key names, unless the quota stops it.
RunOK(r) ==
  /\ run[r].key \in DOMAIN jobs /\ run[r].began \in Nat
  /\ run[r].key[3] <= run[r].began /\ run[r].began <= today
  /\ run[r].pc = "window" => run[r].key[1] = "initial"
  /\ run[r].todo \in Seq(Int) /\ run[r].day \in Int /\ run[r].throttled \in BOOLEAN
  /\ AtPull(r) => EntryOK(run[r].day, run[r].final, run[r].began)
  /\ DOMAIN run[r].logs \subseteq Int
  /\ \A d \in DOMAIN run[r].logs : EntryOK(d, run[r].logs[d].final, run[r].began)
  /\ run[r].key[1] = "backfill" =>
       \/ run[r].throttled = TRUE
       \/ run[r].todo # <<>> /\ Head(run[r].todo) = run[r].key[2]
       \/ AtPull(r) /\ run[r].day = run[r].key[2]
       \/ run[r].key[2] \in DOMAIN run[r].logs

\* r has pulled the day before it was past the lag.
Stale(r, d) ==
  /\ Active(r)
  /\ \/ AtPull(r) /\ run[r].day = d /\ run[r].final = FALSE
     \/ d \in DOMAIN run[r].logs /\ run[r].logs[d].final = FALSE

\* The day was pulled finally, and who pulled it too early knows of another.
Settled(d) ==
  /\ d \in DOMAIN log
  /\ log[d].final = TRUE \/ d \in overlapped
  /\ \A r \in Runs : Stale(r, d) => d \in run[r].overlap

LogInv ==
  /\ DOMAIN log \subseteq Int
  /\ \A d \in DOMAIN log :
       /\ log[d].final \in BOOLEAN /\ (log[d].final => IsFinal(d))
       /\ log[d].final /\ d \in Days => Settled(d)

\* A batch of today that is done has pulled its first day for good, or will go
\* on tomorrow.
Tomorrow(queue) == \E k \in DOMAIN queue : k[1] = "backfill" /\ k[3] > today
InWindow(d) == d \in today - Window .. today - 2
PulledToday(d) == d \in DOMAIN log /\ (IsFinal(d) => Settled(d))
DoneInv ==
  Tomorrow(jobs) \/
  \A k \in DOMAIN jobs :
    k[1] = "backfill" /\ k[3] = today /\ jobs[k].status = "done" /\ InWindow(k[2])
      => PulledToday(k[2])

CoverInv ==
  /\ chainEnd \in Nat
  /\ chainEnd # 0 =>
       /\ FirstDay <= chainEnd /\ chainEnd <= today
       /\ \A d \in chainEnd - Window .. chainEnd - 2 :
            d \in DOMAIN log /\ (d < chainEnd - FinalLag => Settled(d))

AllDone(queue) == \A k \in DOMAIN queue : k[1] = "backfill" => queue[k].status = "done"
GoesOnInv == aggregates # 0 /\ AllDone(jobs) => chainEnd # 0 \/ chainCut = TRUE

TodayInv == today \in Nat /\ FirstDay <= today /\ today <= LastDay

ChainInv ==
  /\ TodayInv /\ KeysOK(jobs) /\ \A r \in Runs : Active(r) => RunOK(r)
  /\ LogInv /\ DoneInv /\ CoverInv /\ GoesOnInv

-----------------------------------------------------------------------------

\* Day by day, the plan can be made.
Plans(f, known) ==
  f = [n \in 0 .. Window - 1 |->
         IF n = 0 THEN <<>>
         ELSE IF Needed(known, today - 1 - n) THEN Append(f[n-1], today - 1 - n) ELSE f[n-1]]

\* There is such a function: a shortest one that is missing would not be.
LEMMA PlanExists ==
  ASSUME NEW known
  PROVE  \E f : Plans(f, known)
<1>. DEFINE N == Window - 1
            Longer(s, n) == IF Needed(known, today - 1 - n) THEN Append(s, today - 1 - n) ELSE s
            Upto(f, k) == f = [n \in 0 .. k |-> IF n = 0 THEN <<>> ELSE Longer(f[n-1], n)]
            Wrong == {k \in 0 .. N : ~ \E f : Upto(f, k)}
<1>0. N \in Nat
  BY GscAssumption
<1>. HIDE DEF Longer, N
<1>1. Wrong = {}
  <2>. SUFFICES ASSUME Wrong # {} PROVE FALSE
    OBVIOUS
  <2>1. Wrong \subseteq Nat
    BY <1>0
  <2>2. PICK m \in Wrong : \A k \in Wrong : m <= k
    <3>. HIDE DEF Wrong
    <3>. QED
      BY <2>1, LeastNumber
  <2>3. m # 0
    <3>. DEFINE z == [n \in 0 .. 0 |-> <<>>]
    <3>1. Upto(z, 0)
      OBVIOUS
    <3>. QED
      BY <3>1
  <2>. HIDE DEF Upto
  <2>4. m \in 0 .. N
    OBVIOUS
  <2>5. m - 1 \in 0 .. N /\ m \in Nat /\ ~(m <= m - 1)
    BY <1>0, <2>3, <2>4
  <2>6. m - 1 \notin Wrong
    <3>. HIDE DEF Wrong
    <3>. QED
      BY <2>2, <2>5
  <2>7. PICK f : Upto(f, m - 1)
    BY <2>5, <2>6
  <2>. USE DEF Upto
  <2>. DEFINE g == [n \in 0 .. m |-> IF n = m THEN Longer(f[m-1], m) ELSE f[n]]
  <2>8. \A n \in 0 .. m : g[n] = IF n = 0 THEN <<>> ELSE Longer(g[n-1], n)
    <3>. SUFFICES ASSUME NEW n \in 0 .. m
                  PROVE  g[n] = IF n = 0 THEN <<>> ELSE Longer(g[n-1], n)
      OBVIOUS
    <3>1. CASE n = m
      BY <2>3, <2>5, <3>1
    <3>2. CASE n # m
      BY <2>3, <2>5, <2>7, <3>2
    <3>. QED
      BY <3>1, <3>2
  <2>9. Upto(g, m)
    <3>1. g = [n \in 0 .. m |-> g[n]]
      OBVIOUS
    <3>2. [n \in 0 .. m |-> g[n]] = [n \in 0 .. m |-> IF n = 0 THEN <<>> ELSE Longer(g[n-1], n)]
      <4>. HIDE DEF g
      <4>. QED
        BY <2>8
    <3>. QED
      BY <3>1, <3>2
  <2>. QED
    BY <2>2, <2>9
<1>2. PICK f : Upto(f, N)
  BY <1>0, <1>1
<1>. QED
  BY <1>2 DEF Longer, Plans, N

\* The plan holds days of the window that need a pull, and one if there is any.
LEMMA PlanIs ==
  ASSUME today \in Nat, NEW known
  PROVE  /\ BackfillPlan(known) \in Seq({d \in today - Window .. today - 2 : Needed(known, d)})
         /\ BackfillPlan(known) = <<>> => \A d \in today - Window .. today - 2 : ~Needed(known, d)
<1>. DEFINE W == {d \in today - Window .. today - 2 : Needed(known, d)}
            f == CHOOSE g : Plans(g, known)
            Good(n) == /\ f[n] \in Seq(W)
                       /\ f[n] = <<>> => \A k \in 1 .. n : ~Needed(known, today - 1 - k)
            Wrong == {n \in 0 .. Window - 1 : ~Good(n)}
<1>1. Plans(f, known)
  BY PlanExists
<1>. HIDE DEF f
<1>2. Window \in Nat \ {0}
  BY GscAssumption
<1>3. \A n \in 0 .. Window - 1 :
        f[n] = IF n = 0 THEN <<>>
               ELSE IF Needed(known, today - 1 - n) THEN Append(f[n-1], today - 1 - n) ELSE f[n-1]
  BY <1>1 DEF Plans
<1>4. f[0] = <<>>
  BY <1>2, <1>3
<1>5. \A n \in 1 .. Window - 1 :
        f[n] = IF Needed(known, today - 1 - n) THEN Append(f[n-1], today - 1 - n) ELSE f[n-1]
  <2>. SUFFICES ASSUME NEW n \in 1 .. Window - 1
                PROVE f[n] = IF Needed(known, today - 1 - n) THEN Append(f[n-1], today - 1 - n) ELSE f[n-1]
    OBVIOUS
  <2>1. n \in 0 .. Window - 1 /\ n # 0
    BY <1>2
  <2>. QED
    BY <1>3, <2>1
<1>6. Wrong = {}
  <2>. SUFFICES ASSUME Wrong # {} PROVE FALSE
    OBVIOUS
  <2>. HIDE DEF Good, W
  <2>1. Wrong \subseteq Nat
    BY <1>2
  <2>2. PICK m \in Wrong : \A k \in Wrong : m <= k
    <3>. HIDE DEF Wrong
    <3>. QED
      BY <2>1, LeastNumber
  <2>3. m \in 0 .. Window - 1 /\ ~Good(m)
    OBVIOUS
  <2>4. m # 0
    <3>1. Good(0)
      <4>1. <<>> \in Seq(W)
        OBVIOUS
      <4>. QED
        BY <1>4, <4>1 DEF Good
    <3>. QED
      BY <2>3, <3>1
  <2>5. m - 1 \in 0 .. Window - 1 /\ m \in 1 .. Window - 1 /\ ~(m <= m - 1)
    BY <1>2, <2>3, <2>4
  <2>6. Good(m - 1)
    <3>1. m - 1 \notin Wrong
      <4>. HIDE DEF Wrong
      <4>. QED
        BY <2>2, <2>5
    <3>. QED
      BY <2>5, <3>1
  <2>7. CASE Needed(known, today - 1 - m)
    <3>1. today - 1 - m \in W
      BY <1>2, <2>5, <2>7 DEF W
    <3>2. f[m] = Append(f[m-1], today - 1 - m)
      BY <1>5, <2>5, <2>7
    <3>3. f[m-1] \in Seq(W)
      BY <2>6 DEF Good
    <3>4. f[m] \in Seq(W) /\ f[m] # <<>>
      BY <3>1, <3>2, <3>3
    <3>. QED
      BY <2>3, <3>4 DEF Good
  <2>8. CASE ~Needed(known, today - 1 - m)
    <3>1. f[m] = f[m-1]
      BY <1>5, <2>5, <2>8
    <3>2. \A k \in 1 .. m : k \in 1 .. m - 1 \/ k = m
      BY <2>5
    <3>. QED
      BY <2>3, <2>6, <2>8, <3>1, <3>2 DEF Good
  <2>. QED
    BY <2>7, <2>8
<1>10. Window - 1 \in 0 .. Window - 1
  BY <1>2
<1>7. Good(Window - 1)
  <2>. HIDE DEF Good
  <2>. QED
    BY <1>6, <1>10
<1>8. BackfillPlan(known) = f[Window - 1]
  BY DEF BackfillPlan, f, Plans
<1>9. \A d \in today - Window .. today - 2 :
        today - 1 - d \in 1 .. Window - 1 /\ today - 1 - (today - 1 - d) = d
  BY <1>2
<1>. QED
  BY <1>7, <1>8, <1>9

\* A job that is enqueued leaves the others as they are.
LEMMA EnqueueIs ==
  ASSUME NEW queue, NEW key, NEW job, KeysOK(queue), JobOK(key, job), job.status = "queued",
         NEW after, after = Enqueue(queue, key, job)
  PROVE  /\ KeysOK(after) /\ DOMAIN after = DOMAIN queue \union {key}
         /\ \A k \in DOMAIN queue : after[k] = queue[k]
         /\ key \notin DOMAIN queue => after[key].status = "queued"
<1>1. CASE key \in DOMAIN queue
  <2>1. after = queue
    BY <1>1 DEF Enqueue
  <2>. QED
    BY <1>1, <2>1
<1>2. CASE key \notin DOMAIN queue
  <2>1. after = [k \in DOMAIN queue \union {key} |-> IF k = key THEN job ELSE queue[k]]
    BY <1>2 DEF Enqueue
  <2>2. DOMAIN after = DOMAIN queue \union {key} /\ after[key] = job
    BY <2>1
  <2>3. \A k \in DOMAIN queue : after[k] = queue[k]
    BY <1>2, <2>1
  <2>4. KeysOK(after)
    BY <2>2, <2>3 DEF KeysOK
  <2>. QED
    BY <2>1, <2>2, <2>3, <2>4
<1>. QED
  BY <1>1, <1>2

\* The next batch: a day of the window that needs a pull is its first, and it
\* is there, queued, or was there already.
NextBatch(queue, known, throttled) ==
  LET after == EnqueueBackfill(queue, known, throttled)
      plan  == BackfillPlan(known)
      from  == IF throttled THEN today + 1 ELSE today
      key   == <<"backfill", plan[1], from>>
  IN  /\ KeysOK(after) /\ DOMAIN queue \subseteq DOMAIN after
      /\ \A k \in DOMAIN queue : after[k] = queue[k]
      /\ \A k \in DOMAIN after : k \notin DOMAIN queue => after[k].status = "queued"
      /\ plan = <<>> => \A d \in today - Window .. today - 2 : ~Needed(known, d)
      /\ plan # <<>> => /\ plan[1] \in today - Window .. today - 2 /\ Needed(known, plan[1])
                        /\ key \in DOMAIN after
                        /\ key \in DOMAIN queue => after = queue

\* EnqueueBackfill does so.
LEMMA NextBatchIs ==
  ASSUME TodayInv, NEW queue, NEW known, NEW throttled, KeysOK(queue)
  PROVE  NextBatch(queue, known, throttled)
<1>. DEFINE after == EnqueueBackfill(queue, known, throttled)
            plan  == BackfillPlan(known)
            W     == {d \in today - Window .. today - 2 : Needed(known, d)}
            from  == IF throttled THEN today + 1 ELSE today
            key   == <<"backfill", plan[1], from>>
<1>0. today \in Nat /\ Window \in Nat /\ Batch \in Nat \ {0}
  BY GscAssumption DEF TodayInv
<1>1. plan \in Seq(W) /\ (plan = <<>> => \A d \in today - Window .. today - 2 : ~Needed(known, d))
  BY <1>0, PlanIs
<1>2. CASE plan = <<>>
  <2>1. after = queue
    BY <1>2 DEF EnqueueBackfill
  <2>. QED
    BY <1>1, <1>2, <2>1 DEF NextBatch
<1>3. CASE plan # <<>>
  <2>. DEFINE n == Min({Batch, Len(plan)})
              days == SubSeq(plan, 1, n)
              job == NewJob(days, from)
  <2>1. Len(plan) \in Nat \ {0} /\ plan[1] \in W /\ W \subseteq Int
    BY <1>0, <1>1, <1>3
  <2>2. n \in Nat \ {0} /\ n <= Len(plan)
    <3>1. \E x \in {Batch, Len(plan)} : \A y \in {Batch, Len(plan)} : x <= y
      BY <1>0, <2>1
    <3>2. n \in {Batch, Len(plan)} /\ \A y \in {Batch, Len(plan)} : n <= y
      BY <3>1 DEF Min
    <3>. QED
      BY <1>0, <2>1, <3>2
  <2>. HIDE DEF n, W, plan
  <2>3. days \in Seq(Int) /\ days # <<>> /\ Head(days) = plan[1]
    <3>3. plan = [i \in 1 .. Len(plan) |-> plan[i]] /\ \A i \in 1 .. Len(plan) : plan[i] \in W
      BY <1>1
    <3>4. \A i \in 1 .. Len(plan) : plan[i] \in Int
      BY <2>1, <3>3
    <3>1. plan \in Seq(Int)
      BY <2>1, <3>3, <3>4
    <3>2. /\ days \in Seq(Int) /\ Len(days) = n /\ days[1] = plan[1]
      BY <2>1, <2>2, <3>1
    <3>. QED
      BY <2>2, <3>2
  <2>13. from \in Nat
    BY <1>0
  <2>4. from \in Nat /\ plan[1] \in Int
    BY <2>1, <2>13
  <2>. HIDE DEF days, from
  <2>5. key[1] = "backfill" /\ key[2] = plan[1] /\ key[3] = from
    OBVIOUS
  <2>6. /\ DOMAIN job = {"days", "after", "status", "attempts"}
        /\ job.days = days /\ job.after = from /\ job.status = "queued"
    BY DEF NewJob
  <2>. HIDE DEF job, key
  <2>7. JobOK(key, job)
    BY <2>3, <2>4, <2>5, <2>6 DEF JobOK
  <2>8. after = Enqueue(queue, key, job)
    BY <1>3 DEF EnqueueBackfill, BackfillKey, NextBackfillRun, plan, n, days, job, key, from
  <2>. HIDE DEF after
  <2>9. /\ KeysOK(after) /\ DOMAIN after = DOMAIN queue \union {key}
        /\ \A k \in DOMAIN queue : after[k] = queue[k]
        /\ key \notin DOMAIN queue => after[key].status = "queued"
    <3>1. job.status = "queued"
      BY <2>6
    <3>2. KeysOK(after)
      BY <2>7, <2>8, <3>1, EnqueueIs
    <3>3. DOMAIN after = DOMAIN queue \union {key}
      BY <2>8 DEF Enqueue
    <3>4. \A k \in DOMAIN queue : after[k] = queue[k]
      BY <2>8 DEF Enqueue
    <3>5. key \notin DOMAIN queue => after[key].status = "queued"
      BY <2>8, <3>1 DEF Enqueue
    <3>. QED
      BY <3>2, <3>3, <3>4, <3>5
  <2>10. key \in DOMAIN queue => after = queue
    BY <2>8 DEF Enqueue
  <2>11. plan[1] \in today - Window .. today - 2 /\ Needed(known, plan[1])
    BY <2>1 DEF W
  <2>12. \A k \in DOMAIN after : k \notin DOMAIN queue => after[k].status = "queued"
    BY <2>9
  <2>. QED
    BY <1>3, <2>9, <2>10, <2>11, <2>12 DEF after, plan, from, key, NextBatch
<1>. QED
  BY <1>2, <1>3

-----------------------------------------------------------------------------

\* A step that ends no transaction with entries: who is stale was so before.
Calmly ==
  /\ UNCHANGED <<log, overlapped>>
  /\ \A u \in Runs : \A d : IsFinal(d) /\ Stale(u, d)' =>
       Stale(u, d) /\ run[u].overlap \subseteq run'[u].overlap

\* What is settled stays so.
LEMMA CalmSettles ==
  ASSUME Calmly, NEW d, Settled(d), IsFinal(d)
  PROVE  Settled(d)'
BY DEF Calmly, Settled

\* It keeps what is said of the entries, of the chain's end and of today's jobs.
LEMMA CalmKeeps ==
  ASSUME ChainInv, Calmly, UNCHANGED today
  PROVE  LogInv' /\ \A d : PulledToday(d) => PulledToday(d)'
<1>1. \A d : IsFinal(d)' <=> IsFinal(d)
  BY DEF IsFinal
<1>2. LogInv'
  <2>1. \A d \in DOMAIN log : log[d].final => IsFinal(d)
    BY DEF ChainInv, LogInv
  <2>2. \A d \in DOMAIN log : log[d].final /\ d \in Days => Settled(d)'
    BY <2>1, CalmSettles DEF ChainInv, LogInv
  <2>. QED
    BY <1>1, <2>2 DEF ChainInv, LogInv, Calmly, Days
<1>3. ASSUME NEW d, PulledToday(d)
      PROVE  PulledToday(d)'
  BY <1>1, <1>3, CalmSettles DEF PulledToday, Calmly
<1>. QED
  BY <1>2, <1>3

\* The chain's end stays covered.
LEMMA CalmCovers ==
  ASSUME ChainInv, Calmly, TodayInv', today <= today', chainEnd' = chainEnd
  PROVE  CoverInv'
<1>1. CASE chainEnd = 0
  BY <1>1 DEF ChainInv, CoverInv
<1>2. CASE chainEnd # 0
  <2>1. /\ chainEnd \in Nat /\ FirstDay <= chainEnd /\ chainEnd <= today
        /\ today \in Nat /\ today' \in Nat /\ FinalLag \in Nat /\ Window \in Nat
    BY <1>2, GscAssumption DEF ChainInv, CoverInv, TodayInv
  <2>2. ASSUME NEW d \in chainEnd - Window .. chainEnd - 2
        PROVE  d \in DOMAIN log' /\ (d < chainEnd - FinalLag => Settled(d)')
    <3>1. d \in DOMAIN log /\ (d < chainEnd - FinalLag => Settled(d))
      BY <1>2, <2>2 DEF ChainInv, CoverInv
    <3>2. d < chainEnd - FinalLag => IsFinal(d)
      BY <2>1, <2>2 DEF IsFinal
    <3>. QED
      BY <3>1, <3>2, CalmSettles DEF Calmly
  <2>3. chainEnd <= today'
    BY <2>1
  <2>. QED
    BY <1>2, <2>1, <2>2, <2>3 DEF CoverInv
<1>. QED
  BY <1>1, <1>2

\* So a calm step that leaves the jobs and the chain keeps the invariant, if
\* each transaction that goes on is as it should be.
LEMMA CalmStep ==
  ASSUME ChainInv, Calmly, UNCHANGED <<today, jobs, aggregates, chainEnd, chainCut>>,
         \A u \in Runs : Active(u)' => RunOK(u)'
  PROVE  ChainInv'
<1>1. TodayInv' /\ KeysOK(jobs)' /\ GoesOnInv'
  BY DEF ChainInv, TodayInv, KeysOK, JobOK, GoesOnInv, AllDone
<1>2. LogInv' /\ \A d : PulledToday(d) => PulledToday(d)'
  BY CalmKeeps
<1>3. DoneInv'
  BY <1>2 DEF ChainInv, DoneInv, Tomorrow, InWindow
<1>4. CoverInv'
  <2>1. today <= today'
    BY DEF ChainInv, TodayInv
  <2>. QED
    BY <1>1, <2>1, CalmCovers
<1>. QED
  BY <1>1, <1>2, <1>3, <1>4 DEF ChainInv

\* A transaction whose pull goes on: nothing is new but the overlaps it knows.
Unmoved(u) ==
  Active(u)' =>
    /\ Active(u)
    /\ run'[u].key = run[u].key /\ run'[u].began = run[u].began /\ run'[u].todo = run[u].todo
    /\ run'[u].throttled = run[u].throttled /\ run'[u].day = run[u].day
    /\ run'[u].final = run[u].final /\ run'[u].logs = run[u].logs
    /\ AtPull(u)' <=> AtPull(u)
    /\ run'[u].pc = "window" => run[u].pc = "window"
    /\ run[u].overlap \subseteq run'[u].overlap

\* It stays as it should be, and no staler than it was.
LEMMA UnmovedKeeps ==
  ASSUME ChainInv, NEW u \in Runs, Unmoved(u), today' = today, DOMAIN jobs \subseteq DOMAIN jobs'
  PROVE  /\ Active(u)' => RunOK(u)'
         /\ \A d : Stale(u, d)' => Stale(u, d) /\ run[u].overlap \subseteq run'[u].overlap
<1>2. Active(u)' => RunOK(u)'
  <2>. SUFFICES ASSUME Active(u)' PROVE RunOK(u)'
    OBVIOUS
  <2>1. RunOK(u)
    BY DEF ChainInv, Unmoved
  <2>2. AtPull(u)' => EntryOK(run[u].day, run[u].final, run[u].began)'
    BY <2>1 DEF Unmoved, RunOK, EntryOK, IsFinal
  <2>3. (\A d \in DOMAIN run[u].logs : EntryOK(d, run[u].logs[d].final, run[u].began))'
    BY <2>1 DEF Unmoved, RunOK, EntryOK, IsFinal
  <2>. QED
    BY <2>1, <2>2, <2>3 DEF Unmoved, RunOK
<1>3. \A d : Stale(u, d)' => Stale(u, d) /\ run[u].overlap \subseteq run'[u].overlap
  BY DEF Unmoved, Stale
<1>. QED
  BY <1>2, <1>3

\* A transaction that the step leaves alone.
LEMMA AloneUnmoved ==
  ASSUME NEW u, run'[u] = run[u]
  PROVE  Unmoved(u)
BY DEF Unmoved, Active, AtPull

-----------------------------------------------------------------------------
(* The steps of a transaction *)

\* The statements that pull a day.
LEMMA StatementChain ==
  ASSUME GscInv, ChainInv, NEW r \in Runs,
         ReplaceSlice(r) \/ ClearRollup(r) \/ InsertRollup(r) \/ BumpQuota(r) \/ Wait(r)
  PROVE  ChainInv'
<1>1. /\ UNCHANGED <<today, jobs, aggregates, chainEnd, chainCut, log, overlapped>>
  BY DEF ReplaceSlice, ClearRollup, InsertRollup, BumpQuota, Wait, history, tables
<1>2. Active(r) /\ run = [u \in Runs |-> run[u]] /\ DOMAIN run[r] = RunFields
  BY DEF GscInv, RunsInv, Active, NoRun, ReplaceSlice, ClearRollup, InsertRollup, BumpQuota, Wait
<1>3. \A u \in Runs \ {r} : run'[u] = run[u]
  BY <1>2 DEF ReplaceSlice, ClearRollup, InsertRollup, BumpQuota, Wait, Proceed
<1>4. Unmoved(r)
  <2>1. CASE ReplaceSlice(r) \/ ClearRollup(r) \/ InsertRollup(r)
    BY <1>2, <2>1 DEF Unmoved, AtPull, Active, RunFields, ReplaceSlice, ClearRollup, InsertRollup, Proceed
  <2>2. CASE BumpQuota(r)
    BY <1>2, <2>2 DEF Unmoved, AtPull, Active, RunFields, BumpQuota
  <2>3. CASE Wait(r)
    BY <1>2, <2>3 DEF Unmoved, AtPull, Active, RunFields, Wait
  <2>. QED
    BY <2>1, <2>2, <2>3
<1>5. \A u \in Runs : Unmoved(u)
  BY <1>3, <1>4, AloneUnmoved
<1>6. (\A u \in Runs : Active(u)' => RunOK(u)') /\ Calmly
  BY <1>1, <1>5, UnmovedKeeps DEF Calmly
<1>. QED
  BY <1>1, <1>6, CalmStep

-----------------------------------------------------------------------------

\* A batch that sees the quota spent leaves its days.
LEMMA StopEarlyChain ==
  ASSUME GscInv, ChainInv, NEW r \in Runs, StopEarly(r)
  PROVE  ChainInv'
<1>1. /\ UNCHANGED <<today, jobs, aggregates, chainEnd, chainCut, log, overlapped>>
      /\ run[r].pc = "next"
  BY DEF StopEarly, history, tables
<1>2. Active(r) /\ run = [u \in Runs |-> run[u]] /\ DOMAIN run[r] = RunFields
  BY DEF GscInv, RunsInv, Active, NoRun, StopEarly
<1>3. \A u \in Runs \ {r} : run'[u] = run[u]
  BY <1>2 DEF StopEarly
<1>4. run'[r] = [run[r] EXCEPT !.todo = <<>>, !.throttled = TRUE]
  BY <1>2 DEF StopEarly
<1>5. \A u \in Runs \ {r} :
        /\ Active(u)' => RunOK(u)'
        /\ \A d : Stale(u, d)' => Stale(u, d) /\ run[u].overlap \subseteq run'[u].overlap
  BY <1>1, <1>3, AloneUnmoved, UnmovedKeeps
<1>6. RunOK(r)'
  <2>1. RunOK(r)
    BY <1>2 DEF ChainInv
  <2>2. /\ run'[r].key = run[r].key /\ run'[r].began = run[r].began /\ run'[r].pc = run[r].pc
        /\ run'[r].todo = <<>> /\ run'[r].throttled = TRUE /\ run'[r].day = run[r].day
        /\ run'[r].logs = run[r].logs /\ run'[r].final = run[r].final
    BY <1>2, <1>4 DEF RunFields
  <2>3. ~AtPull(r)' /\ <<>> \in Seq(Int)
    BY <1>1, <2>2 DEF AtPull
  <2>. QED
    BY <1>1, <2>1, <2>2, <2>3 DEF RunOK, EntryOK, IsFinal
<1>7. \A d : Stale(r, d)' => Stale(r, d) /\ run[r].overlap \subseteq run'[r].overlap
  BY <1>2, <1>4 DEF RunFields, Stale, Active, AtPull
<1>8. (\A u \in Runs : Active(u)' => RunOK(u)') /\ Calmly
  BY <1>1, <1>5, <1>6, <1>7 DEF Calmly
<1>. QED
  BY <1>1, <1>8, CalmStep

\* The pull of a day begins: of a day past the lag it is final, and those that
\* touch the day already learn of it.
LEMMA PullDayChain ==
  ASSUME GscInv, ChainInv, NEW r \in Runs, PullDay(r)
  PROVE  ChainInv'
<1>. DEFINE first == Head(run[r].todo)
            others == {u \in Runs \ {r} : Touches(u, first)}
<1>1. /\ UNCHANGED <<today, jobs, aggregates, chainEnd, chainCut, log, overlapped>>
      /\ run[r].pc = "next" /\ run[r].todo # <<>>
  BY DEF PullDay, history, tables
<1>2. Active(r) /\ run = [u \in Runs |-> run[u]] /\ \A u \in Runs : Active(u) => DOMAIN run[u] = RunFields
  BY <1>1 DEF GscInv, RunsInv, Active, NoRun
<1>3. PICK got \in QueryAll :
        run' = [u \in Runs |->
             CASE u = r -> [run[r] EXCEPT !.pc = "slice", !.todo = Tail(@), !.day = first,
                              !.got = got, !.final = IsFinal(first),
                              !.overlap = IF others = {} THEN @ ELSE @ \union {first}]
               [] u \in others -> [run[u] EXCEPT !.overlap = @ \union {first}]
               [] OTHER -> run[u]]
  BY DEF PullDay
<1>4. \A u \in Runs \ {r} : Unmoved(u)
  <2>. SUFFICES ASSUME NEW u \in Runs \ {r} PROVE Unmoved(u)
    OBVIOUS
  <2>1. CASE u \in others
    <3>1. run'[u] = [run[u] EXCEPT !.overlap = @ \union {first}] /\ Active(u)
      BY <1>3, <2>1 DEF Touches, Active
    <3>. HIDE DEF first
    <3>. QED
      BY <1>2, <3>1 DEF Unmoved, AtPull, RunFields
  <2>2. CASE u \notin others
    <3>1. run'[u] = run[u]
      BY <1>3, <2>2
    <3>. QED
      BY <3>1, AloneUnmoved
  <2>. QED
    BY <2>1, <2>2
<1>5. \A u \in Runs \ {r} :
        /\ Active(u)' => RunOK(u)'
        /\ \A d : Stale(u, d)' => Stale(u, d) /\ run[u].overlap \subseteq run'[u].overlap
  BY <1>1, <1>4, UnmovedKeeps
<1>6. RunOK(r)
  BY <1>2 DEF ChainInv
<1>7. first \in Int /\ Tail(run[r].todo) \in Seq(Int) /\ IsFinal(first) \in BOOLEAN
  <2>1. run[r].todo \in Seq(Int) /\ run[r].todo # <<>>
    BY <1>1, <1>6 DEF RunOK
  <2>. QED
    BY <2>1 DEF IsFinal
<1>8. run'[r] = [run[r] EXCEPT !.pc = "slice", !.todo = Tail(@), !.day = first,
                              !.got = got, !.final = IsFinal(first),
                              !.overlap = IF others = {} THEN @ ELSE @ \union {first}]
  BY <1>3
<1>. HIDE DEF others
<1>9. /\ run'[r].key = run[r].key /\ run'[r].began = run[r].began /\ run'[r].pc = "slice"
      /\ run'[r].todo = Tail(run[r].todo) /\ run'[r].throttled = run[r].throttled
      /\ run'[r].day = first /\ run'[r].logs = run[r].logs /\ run'[r].final = IsFinal(first)
      /\ run[r].overlap \subseteq run'[r].overlap
  BY <1>2, <1>8 DEF RunFields
<1>10. RunOK(r)'
  <2>1. AtPull(r)' /\ ~AtPull(r)
    BY <1>1, <1>9 DEF AtPull
  <2>2. EntryOK(run[r].day, run[r].final, run[r].began)'
    BY <1>1, <1>7, <1>9 DEF EntryOK, IsFinal
  <2>3. (\A d \in DOMAIN run[r].logs : EntryOK(d, run[r].logs[d].final, run[r].began))'
    BY <1>1, <1>6, <1>9 DEF RunOK, EntryOK, IsFinal
  <2>4. run'[r].key[1] = "backfill" =>
          \/ run'[r].throttled = TRUE
          \/ run'[r].day = run'[r].key[2]
          \/ run'[r].key[2] \in DOMAIN run'[r].logs
    BY <1>6, <1>9, <2>1 DEF RunOK
  <2>. QED
    BY <1>1, <1>6, <1>7, <1>9, <2>1, <2>2, <2>3, <2>4 DEF RunOK
<1>11. \A d : IsFinal(d) /\ Stale(r, d)' => Stale(r, d) /\ run[r].overlap \subseteq run'[r].overlap
  BY <1>2, <1>9 DEF Stale
<1>12. (\A u \in Runs : Active(u)' => RunOK(u)') /\ Calmly
  BY <1>1, <1>5, <1>10, <1>11 DEF Calmly
<1>. QED
  BY <1>1, <1>12, CalmStep

\* The entry of the day pulled is what its pull was.
LEMMA UpsertLogChain ==
  ASSUME GscInv, ChainInv, NEW r \in Runs, UpsertLog(r)
  PROVE  ChainInv'
<1>1. /\ UNCHANGED <<today, jobs, aggregates, chainEnd, chainCut, log, overlapped>>
      /\ run[r].pc = "log"
  BY DEF UpsertLog, history, tables
<1>2. Active(r) /\ run = [u \in Runs |-> run[u]] /\ DOMAIN run[r] = RunFields
  BY <1>1 DEF GscInv, RunsInv, Active, NoRun
<1>. DEFINE logs == [d \in DOMAIN run[r].logs \union {run[r].day} |->
                      IF d = run[r].day
                      THEN [rows |-> Cardinality(run[r].got), final |-> run[r].final]
                      ELSE run[r].logs[d]]
<1>3. run'[r] = [run[r] EXCEPT !.pc = "ledger", !.logs = logs] /\ \A u \in Runs \ {r} : run'[u] = run[u]
  BY <1>2 DEF UpsertLog
<1>5. \A u \in Runs \ {r} :
        /\ Active(u)' => RunOK(u)'
        /\ \A d : Stale(u, d)' => Stale(u, d) /\ run[u].overlap \subseteq run'[u].overlap
  BY <1>1, <1>3, AloneUnmoved, UnmovedKeeps
<1>6. RunOK(r) /\ AtPull(r)
  BY <1>1, <1>2 DEF ChainInv, AtPull
<1>7. /\ DOMAIN logs = DOMAIN run[r].logs \union {run[r].day}
      /\ \A d \in DOMAIN logs :
           \/ d = run[r].day /\ logs[d].final = run[r].final
           \/ d # run[r].day /\ d \in DOMAIN run[r].logs /\ logs[d].final = run[r].logs[d].final
  OBVIOUS
<1>. HIDE DEF logs
<1>8. /\ run'[r].key = run[r].key /\ run'[r].began = run[r].began /\ run'[r].pc = "ledger"
      /\ run'[r].todo = run[r].todo /\ run'[r].throttled = run[r].throttled
      /\ run'[r].day = run[r].day /\ run'[r].logs = logs /\ run'[r].final = run[r].final
      /\ run'[r].overlap = run[r].overlap
  BY <1>2, <1>3 DEF RunFields
<1>9. RunOK(r)'
  <2>1. ~AtPull(r)'
    BY <1>8 DEF AtPull
  <2>2. (\A d \in DOMAIN run[r].logs : EntryOK(d, run[r].logs[d].final, run[r].began))'
    BY <1>1, <1>6, <1>7, <1>8 DEF RunOK, EntryOK, IsFinal
  <2>3. DOMAIN logs \subseteq Int
    BY <1>6, <1>7 DEF RunOK
  <2>4. run'[r].key[1] = "backfill" =>
          \/ run'[r].throttled = TRUE
          \/ run'[r].todo # <<>> /\ Head(run'[r].todo) = run'[r].key[2]
          \/ run'[r].key[2] \in DOMAIN run'[r].logs
    BY <1>6, <1>7, <1>8 DEF RunOK
  <2>. QED
    BY <1>1, <1>6, <1>8, <2>1, <2>2, <2>3, <2>4 DEF RunOK
<1>10. \A d : Stale(r, d)' => Stale(r, d) /\ run[r].overlap \subseteq run'[r].overlap
  <2>1. ~AtPull(r)'
    BY <1>8 DEF AtPull
  <2>. QED
    BY <1>2, <1>6, <1>7, <1>8, <2>1 DEF Stale
<1>11. (\A u \in Runs : Active(u)' => RunOK(u)') /\ Calmly
  BY <1>1, <1>5, <1>9, <1>10 DEF Calmly
<1>. QED
  BY <1>1, <1>11, CalmStep

-----------------------------------------------------------------------------
(* The jobs *)

\* A calm step that finishes no batch.
LEMMA CalmQueue ==
  ASSUME ChainInv, Calmly, UNCHANGED <<today, aggregates, chainEnd, chainCut>>,
         KeysOK(jobs)', DOMAIN jobs \subseteq DOMAIN jobs',
         \A k \in DOMAIN jobs' : k[1] = "backfill" /\ jobs'[k].status = "done" =>
           k \in DOMAIN jobs /\ jobs[k].status = "done",
         \A u \in Runs : Active(u)' => RunOK(u)'
  PROVE  ChainInv'
<1>1. TodayInv' /\ GoesOnInv'
  BY DEF ChainInv, TodayInv, GoesOnInv, AllDone
<1>2. LogInv' /\ \A d : PulledToday(d) => PulledToday(d)'
  BY CalmKeeps
<1>3. DoneInv'
  <2>1. CASE Tomorrow(jobs)
    <3>1. Tomorrow(jobs)'
      BY <2>1 DEF Tomorrow
    <3>. QED
      BY <3>1 DEF DoneInv
  <2>2. CASE ~Tomorrow(jobs)
    <3>1. \A k \in DOMAIN jobs :
            k[1] = "backfill" /\ k[3] = today /\ jobs[k].status = "done" /\ InWindow(k[2])
              => PulledToday(k[2])
      BY <2>2 DEF ChainInv, DoneInv
    <3>2. \A k \in DOMAIN jobs' :
            k[1] = "backfill" /\ k[3] = today' /\ jobs'[k].status = "done" /\ InWindow(k[2])'
              => PulledToday(k[2])'
      BY <1>2, <3>1 DEF InWindow
    <3>. QED
      BY <3>2 DEF DoneInv
  <2>. QED
    BY <2>1, <2>2
<1>4. CoverInv'
  <2>1. today <= today'
    BY DEF ChainInv, TodayInv
  <2>. QED
    BY <1>1, <2>1, CalmCovers
<1>. QED
  BY <1>1, <1>2, <1>3, <1>4 DEF ChainInv

\* A job of another kind is enqueued.
LEMMA OtherJobChain ==
  ASSUME GscInv, ChainInv, PullVerb \/ ScheduleDaily
  PROVE  ChainInv'
<1>. DEFINE kind == IF PullVerb THEN "initial" ELSE "daily"
            key == <<kind, 0, today>>
            job == NewJob(<<>>, today)
<1>1. /\ UNCHANGED <<today, run, aggregates, chainEnd, chainCut, log, overlapped>>
      /\ jobs' = Enqueue(jobs, key, job)
  BY DEF PullVerb, ScheduleDaily, history, tables
<1>2. JobOK(key, job) /\ job.status = "queued" /\ key[1] # "backfill"
  <2>1. today \in Nat /\ <<>> \in Seq(Int) /\ kind \in {"initial", "daily"}
    BY DEF ChainInv, TodayInv
  <2>2. key[1] # "backfill" /\ key[3] = today
    BY <2>1
  <2>3. /\ DOMAIN job = {"days", "after", "status", "attempts"}
        /\ job.days = <<>> /\ job.after = today /\ job.status = "queued"
    BY DEF NewJob
  <2>. HIDE DEF key, job
  <2>. QED
    BY <2>1, <2>2, <2>3 DEF JobOK
<1>. HIDE DEF key, job
<1>3. KeysOK(jobs)
  BY DEF ChainInv
<1>4. /\ KeysOK(jobs') /\ DOMAIN jobs' = DOMAIN jobs \union {key}
      /\ \A k \in DOMAIN jobs : jobs'[k] = jobs[k]
  <2>1. KeysOK(jobs')
    BY <1>1, <1>2, <1>3, EnqueueIs
  <2>. QED
    BY <1>1, <2>1 DEF Enqueue
<1>5. KeysOK(jobs)'
  BY <1>1, <1>4 DEF KeysOK, JobOK
<1>6. \A k \in DOMAIN jobs' : k[1] = "backfill" /\ jobs'[k].status = "done" =>
           k \in DOMAIN jobs /\ jobs[k].status = "done"
  BY <1>2, <1>4
<1>7. \A u \in Runs :
        /\ Active(u)' => RunOK(u)'
        /\ \A d : Stale(u, d)' => Stale(u, d) /\ run[u].overlap \subseteq run'[u].overlap
  BY <1>1, <1>4, AloneUnmoved, UnmovedKeeps
<1>. QED
  BY <1>1, <1>4, <1>5, <1>6, <1>7, CalmQueue DEF Calmly

\* A job is claimed not before its day.
LEMMA ClaimChain ==
  ASSUME GscInv, ChainInv, NEW r \in Runs, NEW key \in DOMAIN jobs, Claim(r, key)
  PROVE  ChainInv'
<1>1. /\ UNCHANGED <<today, aggregates, chainEnd, chainCut, log, overlapped>>
      /\ jobs[key].after <= today
  BY DEF Claim, history, tables
<1>2. run = [u \in Runs |-> run[u]] /\ today \in Nat
  BY DEF GscInv, RunsInv, ChainInv, TodayInv
<1>3. JobOK(key, jobs[key])
  BY DEF ChainInv, KeysOK
<1>4. /\ DOMAIN jobs' = DOMAIN jobs /\ \A k \in DOMAIN jobs \ {key} : jobs'[k] = jobs[k]
      /\ jobs'[key] = [jobs[key] EXCEPT !.status = "running", !.attempts = @ + 1]
  BY DEF Claim
<1>5. /\ DOMAIN jobs'[key] = {"days", "after", "status", "attempts"}
      /\ jobs'[key].status = "running" /\ jobs'[key].days = jobs[key].days
      /\ jobs'[key].after = jobs[key].after
  BY <1>3, <1>4 DEF JobOK
<1>6. KeysOK(jobs)'
  <2>1. \A k \in DOMAIN jobs \ {key} : JobOK(k, jobs[k])'
    BY <1>1, <1>4 DEF ChainInv, KeysOK, JobOK
  <2>2. JobOK(key, jobs[key])'
    BY <1>1, <1>2, <1>3, <1>5 DEF JobOK
  <2>. QED
    BY <1>4, <2>1, <2>2 DEF KeysOK
<1>7. \A k \in DOMAIN jobs' : k[1] = "backfill" /\ jobs'[k].status = "done" =>
           k \in DOMAIN jobs /\ jobs[k].status = "done"
  BY <1>4, <1>5
<1>8. \A u \in Runs \ {r} : run'[u] = run[u]
  BY <1>2 DEF Claim
<1>. DEFINE daily == [i \in DOMAIN Trailing |-> today - Trailing[i]]
<1>9. /\ run'[r].pc = IF key[1] = "initial" THEN "window" ELSE "next"
      /\ run'[r].key = key /\ run'[r].began = today
      /\ run'[r].todo = IF key[1] = "daily" THEN daily ELSE jobs[key].days
      /\ run'[r].throttled = FALSE /\ run'[r].day = 0 /\ run'[r].logs = <<>>
  BY <1>2 DEF Claim
<1>10. daily \in Seq(Int)
  <2>1. Trailing \in Seq(Nat)
    BY GscAssumption
  <2>2. Len(Trailing) \in Nat /\ DOMAIN Trailing = 1 .. Len(Trailing)
        /\ \A i \in 1 .. Len(Trailing) : Trailing[i] \in Nat
    BY <2>1
  <2>3. daily = [i \in 1 .. Len(Trailing) |-> today - Trailing[i]]
    BY <2>2
  <2>4. \A i \in 1 .. Len(Trailing) : today - Trailing[i] \in Int
    BY <1>2, <2>2
  <2>. QED
    BY <2>2, <2>3, <2>4
<1>. HIDE DEF daily
<1>11. ~AtPull(r)' /\ DOMAIN run'[r].logs = {}
  BY <1>9 DEF AtPull
<1>12. RunOK(r)'
  <2>1. /\ key \in DOMAIN jobs' /\ key[3] \in Nat /\ key[3] <= today
        /\ jobs[key].days \in Seq(Int)
        /\ key[1] = "backfill" => jobs[key].days # <<>> /\ Head(jobs[key].days) = key[2]
    BY <1>1, <1>3, <1>4 DEF JobOK
  <2>2. run'[r].todo \in Seq(Int)
    BY <1>9, <1>10, <2>1
  <2>3. run'[r].key[1] = "backfill" => run'[r].todo # <<>> /\ Head(run'[r].todo) = run'[r].key[2]
    BY <1>9, <2>1
  <2>4. run'[r].pc = "window" => run'[r].key[1] = "initial"
    BY <1>9
  <2>5. /\ run'[r].key \in DOMAIN jobs' /\ run'[r].began \in Nat
        /\ run'[r].key[3] <= run'[r].began /\ run'[r].began <= today'
        /\ run'[r].day \in Int /\ run'[r].throttled \in BOOLEAN
    <3>1. run'[r].key = key /\ run'[r].began = today /\ today' = today
      BY <1>1, <1>9
    <3>2. run'[r].key \in DOMAIN jobs' /\ run'[r].began \in Nat /\ run'[r].day \in Int
      BY <1>2, <1>9, <2>1, <3>1
    <3>3. run'[r].key[3] <= run'[r].began /\ run'[r].began <= today'
      BY <1>2, <2>1, <3>1
    <3>4. run'[r].throttled \in BOOLEAN
      BY <1>9
    <3>. QED
      BY <3>2, <3>3, <3>4
  <2>6. /\ DOMAIN run'[r].logs \subseteq Int
        /\ (\A d \in DOMAIN run[r].logs : EntryOK(d, run[r].logs[d].final, run[r].began))'
    BY <1>11
  <2>. QED
    BY <1>11, <2>2, <2>3, <2>4, <2>5, <2>6 DEF RunOK
<1>13. \A u \in Runs \ {r} :
        /\ Active(u)' => RunOK(u)'
        /\ \A d : Stale(u, d)' => Stale(u, d) /\ run[u].overlap \subseteq run'[u].overlap
  BY <1>1, <1>4, <1>8, AloneUnmoved, UnmovedKeeps
<1>14. \A d : ~Stale(r, d)'
  BY <1>11 DEF Stale
<1>15. Calmly /\ \A u \in Runs : Active(u)' => RunOK(u)'
  BY <1>1, <1>12, <1>13, <1>14 DEF Calmly
<1>. QED
  BY <1>1, <1>4, <1>6, <1>7, <1>15, CalmQueue

\* A transaction that is rolled back leaves nothing, and its job is to run
\* again or dead.
LEMMA AbortChain ==
  ASSUME GscInv, ChainInv, NEW r \in Runs, Active(r), Abort(r)
  PROVE  ChainInv'
<1>0. PICK key : key = run[r].key
  OBVIOUS
<1>. DEFINE after == AfterFailure(jobs[key].attempts)
<1>1. /\ UNCHANGED <<today, aggregates, chainEnd, chainCut, log, overlapped>>
      /\ jobs' = [jobs EXCEPT ![key].status = after]
      /\ run' = [run EXCEPT ![r] = NoRun]
  BY <1>0 DEF Abort, history
<1>2. run = [u \in Runs |-> run[u]] /\ today \in Nat /\ RunOK(r) /\ key \in DOMAIN jobs
  BY <1>0 DEF GscInv, RunsInv, ChainInv, TodayInv, RunOK
<1>3. JobOK(key, jobs[key]) /\ after \in {"queued", "dead"}
  BY <1>2 DEF ChainInv, KeysOK, AfterFailure
<1>. HIDE DEF after
<1>4. /\ DOMAIN jobs' = DOMAIN jobs /\ \A k \in DOMAIN jobs \ {key} : jobs'[k] = jobs[k]
      /\ jobs'[key] = [jobs[key] EXCEPT !.status = after]
  BY <1>1, <1>2
<1>5. /\ DOMAIN jobs'[key] = {"days", "after", "status", "attempts"}
      /\ jobs'[key].status = after /\ jobs'[key].days = jobs[key].days
      /\ jobs'[key].after = jobs[key].after
  BY <1>3, <1>4 DEF JobOK
<1>6. KeysOK(jobs)'
  <2>1. \A k \in DOMAIN jobs \ {key} : JobOK(k, jobs[k])'
    BY <1>1, <1>4 DEF ChainInv, KeysOK, JobOK
  <2>2. key[3] \in Nat /\ ~(key[3] > today)
    BY <1>0, <1>2, <1>3 DEF RunOK, JobOK
  <2>3. JobOK(key, jobs[key])'
    BY <1>1, <1>3, <1>5, <2>2 DEF JobOK
  <2>. QED
    BY <1>4, <2>1, <2>3 DEF KeysOK
<1>7. \A k \in DOMAIN jobs' : k[1] = "backfill" /\ jobs'[k].status = "done" =>
           k \in DOMAIN jobs /\ jobs[k].status = "done"
  BY <1>3, <1>4, <1>5
<1>8. (\A u \in Runs \ {r} : run'[u] = run[u]) /\ ~Active(r)'
  BY <1>1, <1>2 DEF Active
<1>9. \A u \in Runs \ {r} :
        /\ Active(u)' => RunOK(u)'
        /\ \A d : Stale(u, d)' => Stale(u, d) /\ run[u].overlap \subseteq run'[u].overlap
  BY <1>1, <1>4, <1>8, AloneUnmoved, UnmovedKeeps
<1>10. Calmly /\ \A u \in Runs : Active(u)' => RunOK(u)'
  BY <1>1, <1>8, <1>9 DEF Calmly, Stale
<1>. QED
  BY <1>1, <1>4, <1>6, <1>7, <1>10, CalmQueue

-----------------------------------------------------------------------------
(* The next batch *)

\* The job of a transaction that commits is done.
LEMMA DoneJob ==
  ASSUME ChainInv, NEW r \in Runs, RunOK(r), NEW queue,
         queue = [jobs EXCEPT ![run[r].key].status = "done"]
  PROVE  /\ KeysOK(queue) /\ DOMAIN queue = DOMAIN jobs
         /\ \A k \in DOMAIN jobs : k # run[r].key => queue[k] = jobs[k]
<1>0. PICK key : key = run[r].key
  OBVIOUS
<1>1. key \in DOMAIN jobs /\ JobOK(key, jobs[key])
  BY <1>0 DEF ChainInv, KeysOK, RunOK
<1>2. /\ DOMAIN queue = DOMAIN jobs /\ \A k \in DOMAIN jobs \ {key} : queue[k] = jobs[k]
      /\ queue[key] = [jobs[key] EXCEPT !.status = "done"]
  BY <1>0, <1>1
<1>3. /\ DOMAIN queue[key] = {"days", "after", "status", "attempts"}
      /\ queue[key].status = "done" /\ queue[key].days = jobs[key].days
      /\ queue[key].after = jobs[key].after
  BY <1>1, <1>2 DEF JobOK
<1>4. key[3] \in Nat /\ today \in Nat /\ ~(key[3] > today)
  BY <1>0, <1>1 DEF RunOK, JobOK, ChainInv, TodayInv
<1>5. JobOK(key, queue[key])
  BY <1>1, <1>3, <1>4 DEF JobOK
<1>6. \A k \in DOMAIN jobs \ {key} : JobOK(k, queue[k])
  BY <1>2 DEF ChainInv, KeysOK
<1>. QED
  BY <1>0, <1>2, <1>5, <1>6 DEF KeysOK

\* What follows when a batch, or the whole-window pull, has enqueued the next:
\* the chain goes on, has come to its end, or is cut.
LEMMA ChainGoesOn ==
  ASSUME TodayInv, today' = today, NEW queue, KeysOK(queue), NEW known, NEW throttled,
         jobs' = EnqueueBackfill(queue, known, throttled), NoteChain(queue, known, throttled),
         known = log', LogInv', DoneInv'
  PROVE  KeysOK(jobs)' /\ CoverInv' /\ GoesOnInv'
<1>. DEFINE plan == BackfillPlan(known)
            from == IF throttled THEN today + 1 ELSE today
            key  == <<"backfill", plan[1], from>>
<1>1. /\ KeysOK(jobs')
      /\ \A k \in DOMAIN jobs' : k \notin DOMAIN queue => jobs'[k].status = "queued"
      /\ plan = <<>> => \A d \in today - Window .. today - 2 : ~Needed(known, d)
      /\ plan # <<>> => /\ plan[1] \in today - Window .. today - 2 /\ Needed(known, plan[1])
                        /\ key \in DOMAIN jobs'
                        /\ key \in DOMAIN queue => jobs' = queue
  <2>1. NextBatch(queue, known, throttled)
    BY NextBatchIs
  <2>. QED
    BY <2>1 DEF NextBatch
<1>2. /\ chainEnd' = IF plan = <<>> THEN today ELSE 0
      /\ chainCut' = (plan # <<>> /\ plan[1] \in overlapped' /\ jobs' = queue)
  BY DEF NoteChain
<1>3. /\ today \in Nat /\ FirstDay \in Nat /\ Window \in Nat \ {0} /\ Window < FirstDay /\ FinalLag \in Nat
      /\ FirstDay <= today /\ today <= LastDay /\ LastDay \in Nat
  BY GscAssumption DEF TodayInv
<1>4. \A d \in today - Window .. today - 2 : d \in Days
  BY <1>3 DEF Days
<1>. HIDE DEF plan, from
<1>5. KeysOK(jobs)'
  BY <1>1 DEF KeysOK, JobOK
<1>6. CoverInv'
  <2>1. CASE plan # <<>>
    BY <1>2, <2>1 DEF CoverInv
  <2>2. CASE plan = <<>>
    <3>1. chainEnd' = today
      BY <1>2, <2>2
    <3>2. ASSUME NEW d \in today - Window .. today - 2
          PROVE  d \in DOMAIN log' /\ (d < today - FinalLag => Settled(d)')
      <4>1. ~Needed(known, d)
        BY <1>1, <2>2
      <4>2. d \in DOMAIN log' /\ (log'[d].final \/ ~(d <= today - FinalLag - 1))
        BY <4>1 DEF Needed
      <4>3. d < today - FinalLag => log'[d].final
        BY <1>3, <3>2, <4>2
      <4>. QED
        BY <1>4, <4>2, <4>3 DEF LogInv, Days
    <3>. QED
      BY <1>3, <3>1, <3>2 DEF CoverInv
  <2>. QED
    BY <2>1, <2>2
<1>7. GoesOnInv'
  <2>. SUFFICES ASSUME AllDone(jobs)', plan # <<>>
                PROVE  chainCut' = TRUE
    <3>1. plan = <<>> => chainEnd' # 0
      BY <1>2, <1>3
    <3>. QED
      BY <3>1 DEF GoesOnInv
  <2>0. PICK k, first : k = key /\ first = plan[1]
    OBVIOUS
  <2>1. k[1] = "backfill" /\ k[2] = first /\ k[3] = from
    BY <2>0
  <2>2. /\ first \in today - Window .. today - 2 /\ Needed(known, first)
        /\ k \in DOMAIN jobs' /\ jobs'[k].status = "done"
    BY <1>1, <2>0, <2>1 DEF AllDone
  <2>3. k \in DOMAIN queue /\ jobs' = queue
    BY <1>1, <2>0, <2>2
  <2>4. k[3] = today
    <3>1. ~(k[3] > today)
      BY <2>2, <2>3 DEF KeysOK, JobOK
    <3>. QED
      BY <1>3, <2>1, <3>1 DEF from
  <2>5. ~Tomorrow(jobs)'
    BY <1>5 DEF Tomorrow, AllDone, KeysOK, JobOK
  <2>6. InWindow(k[2])'
    BY <2>1, <2>2 DEF InWindow
  <2>7. PulledToday(k[2])'
    BY <2>1, <2>2, <2>4, <2>5, <2>6 DEF DoneInv
  <2>8. first \in DOMAIN log' /\ (IsFinal(first)' => Settled(first)')
    BY <2>1, <2>7 DEF PulledToday
  <2>9. ~log'[first].final /\ first <= today - FinalLag - 1
    BY <2>2, <2>8 DEF Needed
  <2>10. IsFinal(first)'
    BY <1>3, <2>2, <2>9 DEF IsFinal
  <2>11. first \in overlapped'
    BY <2>8, <2>9, <2>10 DEF Settled
  <2>. QED
    BY <1>2, <2>0, <2>3, <2>11
<1>. QED
  BY <1>5, <1>6, <1>7

\* The whole-window pull enqueues the first batch.
LEMMA InitialPullChain ==
  ASSUME GscInv, ChainInv, NEW r \in Runs, InitialPull(r)
  PROVE  ChainInv'
<1>. DEFINE queue == [jobs EXCEPT ![run[r].key].status = "done"]
<1>1. /\ UNCHANGED <<today, log, overlapped>> /\ run[r].pc = "window"
      /\ run' = [run EXCEPT ![r] = NoRun]
      /\ jobs' = EnqueueBackfill(queue, log, FALSE) /\ NoteChain(queue, log, FALSE)
  BY DEF InitialPull, tables
<1>2. Active(r) /\ run = [u \in Runs |-> run[u]]
  BY <1>1 DEF GscInv, RunsInv, Active, NoRun
<1>3. RunOK(r) /\ run[r].key[1] = "initial" /\ TodayInv
  BY <1>1, <1>2 DEF ChainInv, RunOK
<1>4. /\ KeysOK(queue) /\ DOMAIN queue = DOMAIN jobs
      /\ \A k \in DOMAIN jobs : k # run[r].key => queue[k] = jobs[k]
  BY <1>3, DoneJob
<1>. HIDE DEF queue
<1>5. /\ DOMAIN queue \subseteq DOMAIN jobs' /\ \A k \in DOMAIN queue : jobs'[k] = queue[k]
      /\ \A k \in DOMAIN jobs' : k \notin DOMAIN queue => jobs'[k].status = "queued"
  <2>1. NextBatch(queue, log, FALSE)
    BY <1>3, <1>4, NextBatchIs
  <2>. QED
    BY <1>1, <2>1 DEF NextBatch
<1>6. (\A u \in Runs \ {r} : run'[u] = run[u]) /\ ~Active(r)'
  BY <1>1, <1>2 DEF Active
<1>7. \A u \in Runs \ {r} :
        /\ Active(u)' => RunOK(u)'
        /\ \A d : Stale(u, d)' => Stale(u, d) /\ run[u].overlap \subseteq run'[u].overlap
  BY <1>1, <1>4, <1>5, <1>6, AloneUnmoved, UnmovedKeeps
<1>8. Calmly /\ \A u \in Runs : Active(u)' => RunOK(u)'
  BY <1>1, <1>6, <1>7 DEF Calmly, Stale
<1>9. LogInv' /\ \A d : PulledToday(d) => PulledToday(d)'
  BY <1>1, <1>8, CalmKeeps
<1>10. DoneInv'
  <2>1. CASE Tomorrow(jobs)
    <3>1. Tomorrow(jobs)'
      BY <1>1, <1>4, <1>5, <2>1 DEF Tomorrow
    <3>. QED
      BY <3>1 DEF DoneInv
  <2>2. CASE ~Tomorrow(jobs)
    <3>1. \A k \in DOMAIN jobs' : k[1] = "backfill" /\ jobs'[k].status = "done" =>
            k \in DOMAIN jobs /\ jobs[k].status = "done"
      BY <1>3, <1>4, <1>5
    <3>2. \A k \in DOMAIN jobs' :
            k[1] = "backfill" /\ k[3] = today' /\ jobs'[k].status = "done" /\ InWindow(k[2])'
              => PulledToday(k[2])'
      BY <1>1, <1>9, <2>2, <3>1 DEF ChainInv, DoneInv, InWindow
    <3>. QED
      BY <3>2 DEF DoneInv
  <2>. QED
    BY <2>1, <2>2
<1>11. KeysOK(jobs)' /\ CoverInv' /\ GoesOnInv'
  BY <1>1, <1>3, <1>4, <1>9, <1>10, ChainGoesOn
<1>12. TodayInv'
  BY <1>1, <1>3 DEF TodayInv
<1>. QED
  BY <1>8, <1>9, <1>10, <1>11, <1>12 DEF ChainInv

-----------------------------------------------------------------------------
(* The commit of a batch or of the daily job *)

\* Its entries are the log's: what it pulled too early overlapped the pull of
\* another, or leaves nothing settled.
LEMMA CommitSettles ==
  ASSUME GscInv, ChainInv, NEW r \in Runs, Finish(r)
  PROVE  /\ LogInv'
         /\ \A d : Settled(d) => Settled(d)'
         /\ \A d : d \in DOMAIN log' <=> d \in DOMAIN log \/ d \in DOMAIN run[r].logs
         /\ \A d \in DOMAIN run[r].logs : log'[d] = run[r].logs[d]
<1>1. /\ UNCHANGED <<today>> /\ run[r].pc = "next"
      /\ run' = [run EXCEPT ![r] = NoRun]
      /\ overlapped' = (overlapped \ DOMAIN run[r].logs) \union run[r].overlap
      /\ log' = VisibleLog(r)
  BY DEF Finish
<1>2. Active(r) /\ run = [u \in Runs |-> run[u]] /\ RunOK(r)
  BY <1>1 DEF GscInv, RunsInv, Active, NoRun, ChainInv
<1>3. (\A u \in Runs \ {r} : run'[u] = run[u]) /\ ~Active(r)'
  BY <1>1, <1>2 DEF Active
<1>4. /\ DOMAIN log' = DOMAIN run[r].logs \union DOMAIN log
      /\ \A d \in DOMAIN run[r].logs : log'[d] = run[r].logs[d]
      /\ \A d \in DOMAIN log : d \notin DOMAIN run[r].logs => log'[d] = log[d]
  BY <1>1 DEF VisibleLog
<1>5. \A u \in Runs : \A d : Stale(u, d)' => u # r /\ Stale(u, d) /\ run'[u].overlap = run[u].overlap
  BY <1>3 DEF Stale, Active, AtPull
<1>6. ASSUME NEW d, Settled(d) PROVE Settled(d)'
  <2>1. d \in DOMAIN log' /\ \A u \in Runs : Stale(u, d)' => d \in run'[u].overlap
    BY <1>4, <1>5, <1>6 DEF Settled
  <2>2. CASE d \notin DOMAIN run[r].logs
    <3>1. log'[d].final = TRUE \/ d \in overlapped'
      BY <1>1, <1>4, <1>6, <2>2 DEF Settled
    <3>. QED
      BY <2>1, <3>1 DEF Settled
  <2>3. CASE d \in DOMAIN run[r].logs
    <3>1. run[r].logs[d].final \in BOOLEAN
      BY <1>2, <2>3 DEF RunOK, EntryOK
    <3>2. run[r].logs[d].final = FALSE => d \in run[r].overlap
      BY <1>2, <1>6, <2>3 DEF Stale, Settled
    <3>3. log'[d].final = TRUE \/ d \in overlapped'
      BY <1>1, <1>4, <2>3, <3>1, <3>2
    <3>. QED
      BY <2>1, <3>3 DEF Settled
  <2>. QED
    BY <2>2, <2>3
<1>7. LogInv'
  <2>1. \A d : IsFinal(d)' <=> IsFinal(d)
    BY <1>1 DEF IsFinal
  <2>2. ASSUME NEW d \in DOMAIN log'
        PROVE  /\ d \in Int /\ log'[d].final \in BOOLEAN /\ (log'[d].final => IsFinal(d)')
               /\ log'[d].final /\ d \in Days => Settled(d)'
    <3>1. CASE d \in DOMAIN run[r].logs
      <4>1. /\ d \in Int /\ log'[d].final \in BOOLEAN /\ (log'[d].final => IsFinal(d)')
        BY <1>2, <1>4, <2>1, <3>1 DEF RunOK, EntryOK
      <4>2. ASSUME log'[d].final, d \in Days, NEW u \in Runs, Stale(u, d)'
            PROVE  d \in run'[u].overlap
        <5>1. u # r /\ Stale(u, d) /\ run'[u].overlap = run[u].overlap
          BY <1>5, <4>2
        <5>2. Touches(u, d) /\ Touches(r, d)
          BY <1>2, <3>1, <5>1 DEF Touches, Stale, Active
        <5>. QED
          BY <4>2, <5>1, <5>2 DEF GscInv, OverlapsInv
      <4>. QED
        BY <4>1, <4>2 DEF Settled
    <3>2. CASE d \notin DOMAIN run[r].logs
      <4>1. d \in DOMAIN log /\ log'[d] = log[d]
        BY <1>4, <3>2
      <4>. QED
        BY <1>6, <2>1, <4>1 DEF ChainInv, LogInv
    <3>. QED
      BY <3>1, <3>2
  <2>. QED
    BY <2>2 DEF LogInv, Days
<1>. QED
  BY <1>4, <1>6, <1>7

\* The batch that commits has pulled its first day for good, or found the
\* quota spent and left it to tomorrow's.
LEMMA FinishChain ==
  ASSUME GscInv, ChainInv, NEW r \in Runs, Finish(r)
  PROVE  ChainInv'
<1>. DEFINE queue == [jobs EXCEPT ![run[r].key].status = "done"]
            daily == run[r].key[1] = "daily"
<1>1. /\ UNCHANGED <<today, aggregates>> /\ run[r].pc = "next" /\ run[r].todo = <<>>
      /\ run' = [run EXCEPT ![r] = NoRun]
      /\ log' = VisibleLog(r)
      /\ daily => jobs' = queue /\ UNCHANGED <<chainEnd, chainCut>>
      /\ ~daily => /\ jobs' = EnqueueBackfill(queue, log', run[r].throttled)
                   /\ NoteChain(queue, log', run[r].throttled)
  BY DEF Finish
<1>2. Active(r) /\ run = [u \in Runs |-> run[u]]
  BY <1>1 DEF GscInv, RunsInv, Active, NoRun
<1>3. RunOK(r) /\ TodayInv
  BY <1>1, <1>2 DEF ChainInv
<1>4. /\ KeysOK(queue) /\ DOMAIN queue = DOMAIN jobs
      /\ \A k \in DOMAIN jobs : k # run[r].key => queue[k] = jobs[k]
  BY <1>3, DoneJob
<1>. HIDE DEF queue
<1>5. /\ DOMAIN queue \subseteq DOMAIN jobs' /\ \A k \in DOMAIN queue : jobs'[k] = queue[k]
      /\ \A k \in DOMAIN jobs' : k \notin DOMAIN queue => jobs'[k].status = "queued"
  <2>1. CASE daily
    BY <1>1, <2>1
  <2>2. CASE ~daily
    <3>1. NextBatch(queue, log', run[r].throttled)
      BY <1>3, <1>4, NextBatchIs
    <3>. QED
      BY <1>1, <2>2, <3>1 DEF NextBatch
  <2>. QED
    BY <2>1, <2>2
<1>6. (\A u \in Runs \ {r} : run'[u] = run[u]) /\ ~Active(r)'
  BY <1>1, <1>2 DEF Active
<1>7. \A u \in Runs : Active(u)' => RunOK(u)'
  BY <1>1, <1>4, <1>5, <1>6, AloneUnmoved, UnmovedKeeps
<1>8. /\ LogInv' /\ \A d : Settled(d) => Settled(d)'
      /\ \A d : d \in DOMAIN log' <=> d \in DOMAIN log \/ d \in DOMAIN run[r].logs
      /\ \A d \in DOMAIN run[r].logs : log'[d] = run[r].logs[d]
  BY CommitSettles
<1>9. \A d : PulledToday(d) => PulledToday(d)'
  BY <1>1, <1>8 DEF PulledToday, IsFinal
<1>10. DoneInv'
  <2>1. CASE Tomorrow(jobs)'
    BY <2>1 DEF DoneInv
  <2>2. CASE ~Tomorrow(jobs)'
    <3>1. ~Tomorrow(jobs)
      BY <1>1, <1>4, <1>5, <2>2 DEF Tomorrow
    <3>2. ASSUME NEW k \in DOMAIN jobs', k[1] = "backfill", k[3] = today',
                 jobs'[k].status = "done", InWindow(k[2])'
          PROVE  PulledToday(k[2])'
      <4>1. k \in DOMAIN jobs /\ InWindow(k[2]) /\ k[3] = today
        BY <1>1, <1>4, <1>5, <3>2 DEF InWindow
      <4>2. CASE k # run[r].key
        <5>1. jobs[k].status = "done"
          BY <1>4, <1>5, <3>2, <4>1, <4>2
        <5>. QED
          BY <1>9, <3>1, <3>2, <4>1, <5>1 DEF ChainInv, DoneInv
      <4>3. CASE k = run[r].key
        <5>1. ~daily /\ ~AtPull(r) /\ run[r].began = today /\ k[2] \in Days /\ k[2] \in Int
          <6>1. ~daily /\ ~AtPull(r)
            BY <1>1, <3>2, <4>3 DEF AtPull
          <6>2. run[r].began = today
            BY <1>3, <4>1, <4>3 DEF RunOK, TodayInv
          <6>3. k[2] \in today - Window .. today - 2
            BY <4>1 DEF InWindow
          <6>4. k[2] \in Days /\ k[2] \in Int
            BY <1>3, <6>3, GscAssumption DEF TodayInv, Days
          <6>. QED
            BY <6>1, <6>2, <6>4
        <5>2. CASE k[2] \in DOMAIN run[r].logs
          <6>1. EntryOK(k[2], run[r].logs[k[2]].final, run[r].began)
            BY <1>3, <5>2 DEF RunOK
          <6>2. IsFinal(k[2]) => log'[k[2]].final
            BY <1>8, <5>1, <5>2, <6>1 DEF EntryOK
          <6>3. k[2] \in DOMAIN log' /\ (IsFinal(k[2])' => IsFinal(k[2]))
            BY <1>1, <1>8, <5>2 DEF IsFinal
          <6>. QED
            BY <1>8, <5>1, <6>2, <6>3 DEF PulledToday, LogInv, Days
        <5>3. CASE run[r].throttled = TRUE
          <6>. DEFINE plan == BackfillPlan(log')
                      next == <<"backfill", plan[1], today + 1>>
          <6>1. /\ plan = <<>> => \A d \in today - Window .. today - 2 : ~Needed(log', d)
                /\ plan # <<>> => next \in DOMAIN jobs'
            <7>1. NextBatch(queue, log', run[r].throttled)
              BY <1>3, <1>4, NextBatchIs
            <7>. QED
              BY <1>1, <5>1, <5>3, <7>1 DEF NextBatch
          <6>2. plan # <<>> => Tomorrow(jobs)'
            <7>1. next[1] = "backfill" /\ next[3] = today + 1
              OBVIOUS
            <7>. HIDE DEF next, plan
            <7>. QED
              BY <1>1, <1>3, <6>1, <7>1 DEF Tomorrow, TodayInv
          <6>3. ~Needed(log', k[2])
            BY <2>2, <4>1, <6>1, <6>2 DEF InWindow
          <6>4. k[2] \in DOMAIN log' /\ (log'[k[2]].final \/ ~(k[2] <= today - FinalLag - 1))
            BY <6>3 DEF Needed
          <6>5. IsFinal(k[2])' => log'[k[2]].final
            BY <1>1, <1>3, <5>1, <6>4, GscAssumption DEF IsFinal, TodayInv
          <6>. QED
            BY <1>8, <5>1, <6>4, <6>5 DEF PulledToday, LogInv, Days
        <5>. QED
          BY <1>1, <1>3, <3>2, <4>3, <5>1, <5>2, <5>3 DEF RunOK
      <4>. QED
        BY <4>2, <4>3
    <3>. QED
      BY <3>2 DEF DoneInv
  <2>. QED
    BY <2>1, <2>2
<1>11. KeysOK(jobs)' /\ CoverInv' /\ GoesOnInv'
  <2>1. CASE ~daily
    BY <1>1, <1>3, <1>4, <1>8, <1>10, <2>1, ChainGoesOn
  <2>2. CASE daily
    <3>1. jobs' = queue /\ UNCHANGED <<today, aggregates, chainEnd, chainCut>>
      BY <1>1, <2>2
    <3>2. KeysOK(jobs)'
      BY <1>4, <3>1 DEF KeysOK, JobOK
    <3>3. CoverInv'
      BY <1>8, <3>1 DEF ChainInv, CoverInv
    <3>4. AllDone(jobs)' => AllDone(jobs)
      BY <1>4, <2>2, <3>1 DEF AllDone
    <3>5. GoesOnInv'
      BY <3>1, <3>4 DEF ChainInv, GoesOnInv
    <3>. QED
      BY <3>2, <3>3, <3>5
  <2>. QED
    BY <2>1, <2>2
<1>12. TodayInv'
  BY <1>1, <1>3 DEF TodayInv
<1>. QED
  BY <1>7, <1>8, <1>10, <1>11, <1>12 DEF ChainInv

-----------------------------------------------------------------------------
(* The day, the start, and the chain *)

\* At midnight nothing of today is done, and who pulls on began yesterday.
LEMMA DayPassesChain ==
  ASSUME ChainInv, DayPasses
  PROVE  ChainInv'
<1>1. /\ today' = today + 1 /\ today < LastDay
      /\ UNCHANGED <<jobs, log, run, aggregates, overlapped, chainEnd, chainCut>>
  BY DEF DayPasses, history, tables
<1>2. TodayInv /\ today \in Nat /\ FirstDay \in Nat /\ LastDay \in Nat /\ FinalLag \in Nat
  BY GscAssumption DEF ChainInv, TodayInv
<1>3. TodayInv'
  BY <1>1, <1>2 DEF TodayInv
<1>4. KeysOK(jobs)'
  <2>1. ASSUME NEW k \in DOMAIN jobs
        PROVE  JobOK(k, jobs[k])'
    <3>1. JobOK(k, jobs[k])
      BY DEF ChainInv, KeysOK
    <3>2. k[3] > today' => k[3] > today
      BY <1>1, <1>2, <3>1 DEF JobOK
    <3>. QED
      BY <1>1, <3>1, <3>2 DEF JobOK
  <2>. QED
    BY <1>1, <2>1 DEF KeysOK
<1>5. \A d \in Int : IsFinal(d) => IsFinal(d)'
  BY <1>1, <1>2 DEF IsFinal
<1>6. ASSUME NEW u \in Runs, Active(u)'
      PROVE  RunOK(u)'
  <2>1. RunOK(u) /\ run' = run /\ jobs' = jobs
    BY <1>1, <1>6 DEF ChainInv, Active
  <2>2. run[u].began \in Nat /\ run[u].began <= today' /\ run[u].began # today'
    BY <1>1, <1>2, <2>1 DEF RunOK
  <2>3. \A f : \A d \in Int : EntryOK(d, f, run[u].began) => f \in BOOLEAN /\ (f => IsFinal(d)')
    BY <1>5 DEF EntryOK
  <2>4. AtPull(u)' => EntryOK(run[u].day, run[u].final, run[u].began)'
    BY <2>1, <2>2, <2>3 DEF RunOK, EntryOK, AtPull
  <2>5. (\A d \in DOMAIN run[u].logs : EntryOK(d, run[u].logs[d].final, run[u].began))'
    BY <2>1, <2>2, <2>3 DEF RunOK, EntryOK
  <2>. QED
    BY <2>1, <2>2, <2>4, <2>5 DEF RunOK, AtPull
<1>7. \A d : Settled(d)' <=> Settled(d)
  BY <1>1 DEF Settled, Stale, Active, AtPull
<1>8. LogInv'
  BY <1>1, <1>5, <1>7 DEF ChainInv, LogInv, Days
<1>9. DoneInv'
  <2>1. \A k \in DOMAIN jobs : k[3] = today' => jobs[k].status = "queued"
    BY <1>1, <1>2 DEF ChainInv, KeysOK, JobOK
  <2>. QED
    BY <1>1, <2>1 DEF DoneInv
<1>10. CoverInv'
  <2>1. chainEnd \in Nat /\ (chainEnd <= today => chainEnd <= today')
    BY <1>1, <1>2 DEF ChainInv, CoverInv
  <2>. QED
    BY <1>1, <1>7, <2>1 DEF ChainInv, CoverInv
<1>11. GoesOnInv'
  BY <1>1 DEF ChainInv, GoesOnInv, AllDone
<1>. QED
  BY <1>3, <1>4, <1>6, <1>8, <1>9, <1>10, <1>11 DEF ChainInv

\* Nothing is pulled, nothing enqueued.
LEMMA ChainInit == GscInit => ChainInv
<1>. SUFFICES ASSUME GscInit PROVE ChainInv
  OBVIOUS
<1>1. /\ jobs = << >> /\ log = << >> /\ DOMAIN jobs = {} /\ DOMAIN log = {}
      /\ today = FirstDay /\ aggregates = 0 /\ chainEnd = 0
  BY DEF GscInit
<1>2. \A r \in Runs : ~Active(r)
  BY DEF GscInit, Active
<1>3. TodayInv
  BY <1>1, GscAssumption DEF TodayInv
<1>4. KeysOK(jobs) /\ LogInv /\ DoneInv /\ CoverInv /\ GoesOnInv
  BY <1>1 DEF KeysOK, LogInv, DoneInv, CoverInv, GoesOnInv
<1>. QED
  BY <1>2, <1>3, <1>4 DEF ChainInv

\* Every step of a transaction keeps it.
LEMMA StepChain ==
  ASSUME GscInv, ChainInv, NEW r \in Runs, Step(r)
  PROVE  ChainInv'
<1>1. CASE \E key \in DOMAIN jobs : Claim(r, key)
  BY <1>1, ClaimChain
<1>2. CASE JobFails(r) \/ AuthFails(r) \/ UniqueViolation(r) \/ DeadlockVictim(r)
  <2>1. Abort(r)
    BY <1>2 DEF JobFails, AuthFails, UniqueViolation, DeadlockVictim
  <2>2. Active(r)
    <3>1. CASE JobFails(r)
      BY <3>1 DEF JobFails, Active
    <3>2. CASE AuthFails(r) \/ UniqueViolation(r)
      BY <3>2 DEF AuthFails, UniqueViolation, GscInv, RunsInv, Active, NoRun
    <3>3. CASE DeadlockVictim(r)
      <4>1. WaitsFor(r) # {}
        BY <3>3 DEF DeadlockVictim
      <4>2. run[r].pc \in {"slice", "clear", "sum", "log", "ledger"}
        BY <4>1 DEF WaitsFor
      <4>. QED
        BY <4>2 DEF Active, NoRun
    <3>. QED
      BY <1>2, <3>1, <3>2, <3>3
  <2>. QED
    BY <2>1, <2>2, AbortChain
<1>3. CASE InitialPull(r)
  BY <1>3, InitialPullChain
<1>4. CASE StopEarly(r)
  BY <1>4, StopEarlyChain
<1>5. CASE PullDay(r)
  BY <1>5, PullDayChain
<1>6. CASE ReplaceSlice(r) \/ ClearRollup(r) \/ InsertRollup(r) \/ BumpQuota(r) \/ Wait(r)
  BY <1>6, StatementChain
<1>7. CASE UpsertLog(r)
  BY <1>7, UpsertLogChain
<1>8. CASE Finish(r)
  BY <1>8, FinishChain
<1>. QED
  BY <1>1, <1>2, <1>3, <1>4, <1>5, <1>6, <1>7, <1>8 DEF Step

\* A step of another component leaves it as it is.
LEMMA ChainStutters ==
  ASSUME ChainInv, UNCHANGED gscVars
  PROVE  ChainInv'
<1>1. UNCHANGED <<today, jobs, log, run, aggregates, overlapped, chainEnd, chainCut>>
  BY DEF gscVars, tables, history
<1>2. \A u \in Runs :
        /\ Active(u)' => RunOK(u)'
        /\ \A d : Stale(u, d)' => Stale(u, d) /\ run[u].overlap \subseteq run'[u].overlap
  BY <1>1, AloneUnmoved, UnmovedKeeps
<1>. QED
  BY <1>1, <1>2, CalmStep DEF Calmly

\* The chain of batches, the ledger it reads and the transactions that write it
\* agree, whatever overlaps, fails, is rolled back or waits over midnight
\* (gsc_ingest.py 246-339, 361-421).
THEOREM ChainInvariant == GscSpec => []ChainInv
<1>1. ASSUME GscInv, ChainInv, [GscNext]_gscVars
      PROVE  ChainInv'
  <2>1. CASE PullVerb \/ ScheduleDaily
    BY <1>1, <2>1, OtherJobChain
  <2>2. CASE DayPasses
    BY <1>1, <2>2, DayPassesChain
  <2>3. CASE \E r \in Runs : Step(r)
    BY <1>1, <2>3, StepChain
  <2>4. CASE UNCHANGED gscVars
    BY <1>1, <2>4, ChainStutters
  <2>. QED
    BY <1>1, <2>1, <2>2, <2>3, <2>4 DEF GscNext
<1>. QED
  BY <1>1, ChainInit, GscInvariant, PTL DEF GscSpec

\* Once started, the chain of batches goes on until the window is covered, and
\* is cut short only by an entry that overlapping pulls have written
\* (gsc_ingest.py 246-278, 321-339, 361-421).
THEOREM ChainsCarryOn == GscSpec => []ChainCarriesOn
<1>1. ASSUME ChainInv PROVE ChainCarriesOn
  <2>1. (aggregates # 0 /\ AllDone(jobs)) => chainEnd # 0 \/ chainCut
    BY <1>1 DEF ChainInv, GoesOnInv
  <2>2. ASSUME chainEnd # 0, NEW d \in chainEnd - Window .. chainEnd - 2
        PROVE  /\ d \in DOMAIN log
               /\ (d < chainEnd - FinalLag /\ d \notin overlapped) => log[d].final
    BY <1>1, <2>2 DEF ChainInv, CoverInv, Settled
  <2>. QED
    BY <2>1, <2>2 DEF ChainCarriesOn, AllDone
<1>. QED
  BY <1>1, ChainInvariant, PTL

-----------------------------------------------------------------------------
(* The leads and the figures of the cards *)

Stats == [week : Int, booked : Nat, prev : Nat]
Figure == [stats : Stats, by : {"schedule", "payload", "operator"}, on : Nat]

LeadsTyped ==
  /\ day \in Nat /\ IsFiniteSet(leads) /\ IsFiniteSet(DOMAIN written)
  /\ read \in Seq(Figure)

\* One row for a message that was written, and none for another.
RecordedOnce ==
  /\ \A l \in leads \ Manual : l.id[1] \in DOMAIN written
  /\ \A l, k \in leads \ Manual : l.id[1] = k.id[1] => l = k

\* What a card has told of a week is still there.
StillThere(stats) == stats.booked <= Booked(stats.week, stats.week + DaysInWeek)

\* Two figures, the second read later.
AddUp(then, now) ==
  /\ then.week = now.week => then.booked <= now.booked
  /\ then.week + DaysInWeek = now.week => then.booked <= now.prev

FiguresInv ==
  /\ \A i \in DOMAIN read : StillThere(read[i].stats)
  /\ \A i, j \in DOMAIN read : i < j => AddUp(read[i].stats, read[j].stats)

LeadsInv == LeadsTyped /\ RecordedOnce /\ FiguresInv

\* Leads are never taken away: no count of a period falls.
LEMMA CountsGrow ==
  ASSUME IsFiniteSet(leads'), leads \subseteq leads', NEW from, NEW until
  PROVE  Booked(from, until) \in Nat /\ Booked(from, until)' \in Nat
         /\ Booked(from, until) <= Booked(from, until)'
<1>. DEFINE S == {l \in leads : from <= l.day /\ l.day < until}
            T == {l \in leads' : from <= l.day /\ l.day < until}
<1>1. S \in SUBSET T /\ T \in SUBSET leads'
  OBVIOUS
<1>2. IsFiniteSet(T)
  BY <1>1, FS_Subset
<1>3. IsFiniteSet(S) /\ Cardinality(S) <= Cardinality(T)
  BY <1>1, <1>2, FS_Subset
<1>4. Cardinality(S) \in Nat /\ Cardinality(T) \in Nat
  BY <1>2, <1>3, FS_CardinalityType
<1>. QED
  BY <1>3, <1>4 DEF Booked

\* While no card is built, more leads leave the figures right.
LEMMA FiguresKeep ==
  ASSUME LeadsInv, IsFiniteSet(leads'), leads \subseteq leads', UNCHANGED read
  PROVE  FiguresInv'
<1>0. /\ \A from, until : Booked(from, until) \in Nat /\ Booked(from, until)' \in Nat
                             /\ Booked(from, until) <= Booked(from, until)'
      /\ FiguresInv /\ read \in Seq(Figure)
  BY CountsGrow DEF LeadsInv, LeadsTyped
<1>1. ASSUME NEW stats \in Stats, StillThere(stats)
      PROVE  StillThere(stats)'
  BY <1>0, <1>1 DEF StillThere, Stats
<1>2. \A i \in DOMAIN read : read[i].stats \in Stats
  <2>1. \A i \in DOMAIN read : read[i] \in Figure
    BY <1>0
  <2>2. \A f \in Figure : f.stats \in Stats
    BY DEF Figure
  <2>. QED
    BY <2>1, <2>2
<1>3. ASSUME NEW i \in DOMAIN read
      PROVE  StillThere(read[i].stats)'
  <2>1. PICK stats \in Stats : stats = read[i].stats
    BY <1>2
  <2>2. StillThere(stats)'
    BY <1>0, <1>1, <2>1 DEF FiguresInv
  <2>. QED
    BY <2>1, <2>2 DEF StillThere
<1>. QED
  BY <1>0, <1>3 DEF FiguresInv, AddUp

\* One more card: what it tells is there, and fits what was told before.
LEMMA CardKeeps ==
  ASSUME LeadsInv, UNCHANGED <<leads, day>>, NEW by \in {"schedule", "payload", "operator"},
         NEW ws \in Int, NEW stats, stats = WeekStats(ws),
         read' = Append(read, [stats |-> stats, by |-> by, on |-> day])
  PROVE  read' \in Seq(Figure) /\ FiguresInv'
<1>0. FiguresInv /\ read \in Seq(Figure) /\ day \in Nat /\ IsFiniteSet(leads) /\ DaysInWeek \in Nat
  BY LeadsAssumption DEF LeadsInv, LeadsTyped
<1>a. \A from, until : Booked(from, until) \in Nat
  BY <1>0, CountsGrow
<1>b. \A from, until : Booked(from, until)' = Booked(from, until)
  BY DEF Booked
<1>1. /\ stats.week = ws
      /\ stats.booked = Booked(ws, ws + DaysInWeek) /\ stats.prev = Booked(ws - DaysInWeek, ws)
      /\ stats \in Stats
  BY <1>0, <1>a DEF WeekStats, Stats
<1>. DEFINE figure == [stats |-> stats, by |-> by, on |-> day]
<1>2. figure \in Figure /\ figure.stats = stats
  BY <1>0, <1>1 DEF Figure
<1>. HIDE DEF figure
<1>3. /\ read' \in Seq(Figure) /\ Len(read') = Len(read) + 1 /\ Len(read) \in Nat
      /\ DOMAIN read = 1 .. Len(read) /\ DOMAIN read' = 1 .. Len(read) + 1
      /\ \A i \in 1 .. Len(read) : read'[i] = read[i]
      /\ read'[Len(read) + 1] = figure
  BY <1>0, <1>2 DEF figure
<1>4. \A s \in Stats : StillThere(s) => StillThere(s)'
  BY <1>b DEF StillThere
<1>5. \A i \in DOMAIN read : StillThere(read[i].stats) /\ read[i].stats \in Stats
  <2>1. \A i \in DOMAIN read : read[i] \in Figure
    BY <1>0
  <2>2. \A f \in Figure : f.stats \in Stats
    BY DEF Figure
  <2>. QED
    BY <1>0, <2>1, <2>2 DEF FiguresInv
<1>6. StillThere(stats)
  BY <1>0, <1>1, <1>a DEF StillThere
<1>7. ASSUME NEW i \in DOMAIN read'
      PROVE  StillThere(read[i].stats)'
  <2>1. CASE i \in DOMAIN read
    <3>1. PICK s \in Stats : s = read[i].stats
      BY <1>5, <2>1
    <3>2. s = read'[i].stats
      BY <1>3, <2>1, <3>1
    <3>3. StillThere(s)'
      BY <1>4, <1>5, <2>1, <3>1
    <3>. QED
      BY <3>2, <3>3 DEF StillThere
  <2>2. CASE i = Len(read) + 1
    <3>1. stats = read'[i].stats
      BY <1>2, <1>3, <2>2
    <3>2. StillThere(stats)'
      BY <1>1, <1>4, <1>6
    <3>. QED
      BY <3>1, <3>2 DEF StillThere
  <2>. QED
    BY <1>3, <2>1, <2>2
<1>8. ASSUME NEW i \in DOMAIN read', NEW j \in DOMAIN read', i < j
      PROVE  AddUp(read'[i].stats, read'[j].stats)
  <2>1. i \in DOMAIN read /\ read'[i] = read[i]
    BY <1>3, <1>8
  <2>2. CASE j \in DOMAIN read
    BY <1>0, <1>3, <1>8, <2>1, <2>2 DEF FiguresInv
  <2>3. CASE j = Len(read) + 1
    <3>1. PICK then \in Stats : then = read[i].stats /\ StillThere(then)
      BY <1>5, <2>1
    <3>2. AddUp(then, stats)
      <4>1. then.week \in Int /\ then.booked <= Booked(then.week, then.week + DaysInWeek)
        BY <3>1 DEF StillThere, Stats
      <4>2. then.week + DaysInWeek = ws => then.week = ws - DaysInWeek
        BY <1>0, <4>1
      <4>. QED
        BY <1>0, <1>1, <4>1, <4>2 DEF AddUp
    <3>. QED
      BY <1>2, <1>3, <2>1, <2>3, <3>1, <3>2
  <2>. QED
    BY <1>3, <2>2, <2>3
<1>9. FiguresInv'
  BY <1>7, <1>8 DEF FiguresInv
<1>. QED
  BY <1>3, <1>9

\* A new row of a message that has none, or one logged by hand.
LEMMA LeadsStep ==
  ASSUME LeadsInv, [LeadsNext]_leadsVars
  PROVE  LeadsInv'
<1>0. LeadsTyped /\ RecordedOnce
  BY DEF LeadsInv
<1>1. ASSUME UNCHANGED <<leads, read>>, day' \in Nat, IsFiniteSet(DOMAIN written'),
             DOMAIN written \subseteq DOMAIN written'
      PROVE  LeadsInv'
  <2>1. LeadsTyped' /\ RecordedOnce'
    BY <1>0, <1>1 DEF LeadsTyped, RecordedOnce, Manual
  <2>. QED
    BY <1>0, <1>1, <2>1, FiguresKeep DEF LeadsInv, LeadsTyped
<1>2. ASSUME NEW id, NEW on, leads' = leads \union {[id |-> id, day |-> on]},
             UNCHANGED <<day, written, read>>,
             \/ id[1] = "manual"
             \/ id[1] \in DOMAIN written /\ \A l \in leads : l.id[1] # id[1]
      PROVE  LeadsInv'
  <2>. DEFINE new == [id |-> id, day |-> on]
  <2>1. new.id = id
    OBVIOUS
  <2>. HIDE DEF new
  <2>2. leads' = leads \union {new}
    BY <1>2 DEF new
  <2>3. IsFiniteSet(leads')
    BY <1>0, <2>2, FS_AddElement DEF LeadsTyped
  <2>4. LeadsTyped'
    BY <1>0, <1>2, <2>3 DEF LeadsTyped
  <2>5. RecordedOnce'
    <3>1. Manual' = {l \in leads' : l.id[1] = "manual"}
      BY DEF Manual
    <3>2. CASE id[1] = "manual"
      <4>1. leads' \ Manual' = leads \ Manual
        BY <2>1, <2>2, <3>1, <3>2 DEF Manual
      <4>. QED
        BY <1>0, <1>2, <4>1 DEF RecordedOnce
    <3>3. CASE id[1] \in DOMAIN written /\ \A l \in leads : l.id[1] # id[1]
      <4>1. leads' \ Manual' \subseteq (leads \ Manual) \union {new}
        BY <2>2, <3>1 DEF Manual
      <4>. QED
        BY <1>0, <1>2, <2>1, <3>3, <4>1 DEF RecordedOnce, Manual
    <3>. QED
      BY <1>2, <3>2, <3>3
  <2>. QED
    BY <1>2, <2>2, <2>3, <2>4, <2>5, FiguresKeep DEF LeadsInv
<1>3. CASE Midnight \/ Connect \/ Tick \/ SendCard \/ CommitCard \/ AbortCard \/ UNCHANGED leadsVars
  <2>1. UNCHANGED <<leads, read, written>> /\ (day' = day \/ day' = day + 1)
    BY <1>3 DEF Midnight, Connect, Tick, SendCard, CommitCard, AbortCard, leadsVars
  <2>. QED
    BY <1>0, <1>1, <2>1 DEF LeadsTyped
<1>4. ASSUME NEW m \in Messages, Write(m)
      PROVE  LeadsInv'
  <2>1. /\ written' = [x \in DOMAIN written \union {m} |-> IF x = m THEN day ELSE written[x]]
        /\ UNCHANGED <<day, leads, read>>
    BY <1>4 DEF Write
  <2>2. DOMAIN written' = DOMAIN written \union {m}
    BY <2>1
  <2>3. IsFiniteSet(DOMAIN written')
    BY <1>0, <2>2, FS_AddElement DEF LeadsTyped
  <2>. QED
    BY <1>0, <1>1, <2>1, <2>2, <2>3 DEF LeadsTyped
<1>5. ASSUME NEW m \in Messages, Deliver(m)
      PROVE  LeadsInv'
  <2>1. m \in DOMAIN written /\ UNCHANGED <<day, written, read>>
    BY <1>5 DEF Deliver
  <2>2. \/ UNCHANGED leads
        \/ /\ leads' = leads \union {[id |-> <<m, 0>>, day |-> written[m]]}
           /\ \A l \in leads : l.id[1] # m
    BY <1>5 DEF Deliver, Recorded
  <2>3. <<m, 0>>[1] = m
    OBVIOUS
  <2>. QED
    BY <1>0, <1>1, <1>2, <2>1, <2>2, <2>3 DEF LeadsTyped
<1>6. CASE AddLead
  <2>1. /\ UNCHANGED <<day, written, read>>
        /\ \E on : leads' = leads \union {[id |-> <<"manual", Cardinality(Manual)>>, day |-> on]}
    BY <1>6 DEF AddLead
  <2>2. <<"manual", Cardinality(Manual)>>[1] = "manual"
    OBVIOUS
  <2>. QED
    BY <1>2, <2>1, <2>2
<1>7. ASSUME NEW by \in {"schedule", "payload", "operator"}, NEW ws \in Int, Build(by, ws)
      PROVE  LeadsInv'
  <2>1. /\ UNCHANGED <<day, written, leads>>
        /\ read' = Append(read, [stats |-> WeekStats(ws), by |-> by, on |-> day])
    BY <1>7 DEF Build
  <2>2. read' \in Seq(Figure) /\ FiguresInv'
    BY <2>1, CardKeeps
  <2>3. LeadsTyped' /\ RecordedOnce'
    BY <1>0, <2>1, <2>2 DEF LeadsTyped, RecordedOnce, Manual
  <2>. QED
    BY <2>2, <2>3 DEF LeadsInv
<1>8. \A d \in Nat : WeekStartFor(d) \in Int
  BY LeadsAssumption DEF WeekStartFor
<1>9. CASE BuildScheduled \/ BuildPinned \/ BuildByHand
  <2>1. day \in Nat /\ Pinned \subseteq Nat
    BY <1>0, LeadsAssumption DEF LeadsTyped
  <2>. QED
    BY <1>7, <1>8, <1>9, <2>1 DEF BuildScheduled, BuildPinned, BuildByHand
<1>. QED
  BY <1>3, <1>4, <1>5, <1>6, <1>9 DEF LeadsNext, Webhook

\* Rows, counts and cards: an invariant.
THEOREM LeadsInvariant == LeadsSpec => []LeadsInv
<1>1. LeadsInit => LeadsInv
  <2>. SUFFICES ASSUME LeadsInit PROVE LeadsInv
    OBVIOUS
  <2>1. day = 0 /\ leads = {} /\ read = <<>> /\ DOMAIN written = {}
    BY DEF LeadsInit
  <2>2. LeadsTyped
    BY <2>1, FS_EmptySet DEF LeadsTyped
  <2>. QED
    BY <2>1, <2>2 DEF LeadsInv, RecordedOnce, FiguresInv
<1>2. LeadsInv /\ [LeadsNext]_leadsVars => LeadsInv'
  BY LeadsStep
<1>. QED
  BY <1>1, <1>2, PTL DEF LeadsSpec

\* The figures of the cards add up: no later reading has fewer, and nobody is
\* counted who has not written or been logged, however often a message comes.
THEOREM CardFiguresAddUp == LeadsSpec => []CardsAddUp
<1>1. ASSUME LeadsInv
      PROVE  CardsAddUp
  <2>0. LeadsTyped /\ RecordedOnce /\ FiguresInv
    BY <1>1 DEF LeadsInv
  <2>1. ASSUME NEW i \in DOMAIN read, NEW j \in DOMAIN read, i < j
        PROVE  AddUp(read[i].stats, read[j].stats)
    BY <2>0, <2>1 DEF FiguresInv
  <2>. DEFINE sent == leads \ Manual
  <2>2. Cardinality(leads) = Cardinality(Manual) + Cardinality(sent) /\ IsFiniteSet(sent)
    <3>1. Manual \in SUBSET leads
      BY DEF Manual
    <3>2. IsFiniteSet(leads) /\ IsFiniteSet(Manual) /\ IsFiniteSet(sent)
      BY <2>0, <3>1, FS_Subset DEF LeadsTyped
    <3>3. leads \ Manual = sent /\ leads \intersect Manual = Manual
      BY <3>1
    <3>4. Cardinality(sent) = Cardinality(leads) - Cardinality(Manual)
      BY <3>2, <3>3, FS_Difference
    <3>5. Cardinality(leads) \in Nat /\ Cardinality(Manual) \in Nat
      BY <3>2, FS_CardinalityType
    <3>. QED
      BY <3>2, <3>4, <3>5
  <2>3. Cardinality(sent) <= Cardinality(DOMAIN written)
    <3>. DEFINE f == [l \in sent |-> l.id[1]]
    <3>1. f \in Injection(sent, DOMAIN written)
      BY <2>0 DEF RecordedOnce, Injection, IsInjective
    <3>. HIDE DEF f
    <3>. QED
      BY <2>0, <3>1, FS_Injection DEF LeadsTyped
  <2>4. /\ Cardinality(sent) \in Nat /\ Cardinality(DOMAIN written) \in Nat
        /\ Cardinality(Manual) \in Nat
    <3>1. Manual \in SUBSET leads
      BY DEF Manual
    <3>2. IsFiniteSet(Manual)
      BY <2>0, <3>1, FS_Subset DEF LeadsTyped
    <3>. QED
      BY <2>0, <2>2, <3>2, FS_CardinalityType DEF LeadsTyped
  <2>. HIDE DEF sent
  <2>5. Cardinality(leads) <= Cardinality(DOMAIN written) + Cardinality(Manual)
    BY <2>2, <2>3, <2>4
  <2>. QED
    BY <2>1, <2>5 DEF CardsAddUp, AddUp
<1>. QED
  BY <1>1, LeadsInvariant, PTL

-----------------------------------------------------------------------------
(* The ad accounts: the pulls under way and what they have replaced *)

\* What a pull has written: rows of its channels and window, one for a day.
WrittenOK(u) ==
  /\ \A r \in u.written : r.channel \in u.done /\ r.date \in u.window /\ r.figure # NoFigure
  /\ \A r, s \in u.written : r.channel = s.channel /\ r.date = s.date => r = s

\* The channels whose slice a pull has deleted.
Covers(u, c) == c \in u.done \/ (u.phase = "deleting" /\ Channels[Min(u.todo)] = c)

DoomedOK(u) == \A r \in u.doomed : Covers(u, r.channel) /\ r.date \in u.window

PullOK(u) ==
  /\ DOMAIN u = {"phase", "todo", "told", "window", "doomed", "written", "done", "broken",
                 "clash", "id"}
  /\ u.phase \in {"reading", "told", "deleting"}
  /\ u.todo \subseteq DOMAIN Channels /\ (u.phase # "reading" => u.todo # {})
  /\ \A i \in u.todo : Channels[i] \notin u.done
  /\ WrittenOK(u) /\ DoomedOK(u)

PullsTyped ==
  /\ DOMAIN pulls = Pullers
  /\ \A p \in Pullers : pulls[p] = NoPull \/ PullOK(pulls[p])

\* Two pulls that have deleted the slice of one day know of each other.
ClashInv ==
  \A p, q \in Pullers : \A c : \A d \in pulls[p].window \intersect pulls[q].window :
    p # q /\ Replacing(p, c) /\ Replacing(q, c) => <<c, d>> \in pulls[p].clash

\* Nothing of a day came in behind the delete of a pull that knows of no other.
DoomInv ==
  \A p \in Pullers : \A r \in adsRows :
    Replacing(p, r.channel) /\ r.date \in pulls[p].window
      /\ <<r.channel, r.date>> \notin pulls[p].clash => r \in pulls[p].doomed

\* What is stored of a day is what was told of it, in one row or none.
StoredOf(c, d) == {r \in adsRows : r.channel = c /\ r.date = d}

SliceInv ==
  \A c \in Names, d \in AdDays :
    <<c, d>> \notin mixed =>
      /\ {r.figure : r \in StoredOf(c, d)} = Told(c, d)
      /\ \A r, s \in StoredOf(c, d) : r = s

AdsInv == PullsTyped /\ ClashInv /\ DoomInv /\ SliceInv

\* The turn of a pull is one of the channels it has to read.
LEMMA TurnIs ==
  ASSUME NEW T, T \subseteq DOMAIN Channels, T # {}
  PROVE  Min(T) \in T
<1>1. T \subseteq Nat
  BY AdsAssumption
<1>2. PICK m \in T : \A k \in T : m <= k
  BY <1>1, LeastNumber
<1>. QED
  BY <1>2 DEF Min

\* A slice in which nothing has changed is as it was told.
LEMMA SliceKeeps ==
  ASSUME AdsInv, NEW c \in Names, NEW d \in AdDays,
         <<c, d>> \notin mixed', <<c, d>> \in mixed => <<c, d>> \in mixed',
         latest'[c][d] = latest[c][d],
         \A r : r.channel = c /\ r.date = d => (r \in adsRows' <=> r \in adsRows)
  PROVE  /\ {r.figure : r \in StoredOf(c, d)'} = Told(c, d)'
         /\ \A r, s \in StoredOf(c, d)' : r = s
<1>1. StoredOf(c, d)' = StoredOf(c, d) /\ Told(c, d)' = Told(c, d)
  BY DEF StoredOf, Told
<1>2. <<c, d>> \notin mixed
  OBVIOUS
<1>. QED
  BY <1>1, <1>2 DEF AdsInv, SliceInv

\* What is no step of a pull's statements leaves the stored rows alone.
LEMMA StoredKeeps ==
  ASSUME AdsInv, UNCHANGED <<adsRows, latest, mixed>>
  PROVE  SliceInv'
BY DEF AdsInv, SliceInv, StoredOf, Told

\* A pull replaces the slices it covers.
LEMMA ReplacingIs ==
  ASSUME NEW q \in Pullers, NEW c
  PROVE  /\ Replacing(q, c) <=> pulls[q] # NoPull /\ Covers(pulls[q], c)
         /\ Replacing(q, c)' <=> pulls'[q] # NoPull /\ Covers(pulls'[q], c)
BY DEF Replacing, Covers, Channel, Turn

\* A step of one pull that deletes and commits nothing: it ends, or it covers
\* no slice yet, or those and only those that it has covered before.
LEMMA OnePullMoves ==
  ASSUME AdsInv, UNCHANGED <<adsRows, latest, mixed>>, NEW p \in Pullers, NEW u,
         pulls' = [pulls EXCEPT ![p] = u],
         \/ u = NoPull
         \/ PullOK(u) /\ \A c : ~Covers(u, c)
         \/ /\ PullOK(u) /\ pulls[p] # NoPull
            /\ \A c : Covers(u, c) => Covers(pulls[p], c)
            /\ u.window = pulls[p].window /\ u.clash = pulls[p].clash
            /\ u.doomed = pulls[p].doomed
  PROVE  AdsInv'
<1>0. PullsTyped /\ ClashInv /\ DoomInv
  BY DEF AdsInv
<1>1. pulls'[p] = u /\ \A q \in Pullers \ {p} : pulls'[q] = pulls[q]
  BY <1>0 DEF PullsTyped
<1>2. PullsTyped'
  BY <1>0, <1>1 DEF PullsTyped
<1>3. ASSUME NEW q \in Pullers, NEW c, Replacing(q, c)'
      PROVE  /\ Replacing(q, c) /\ pulls'[q].window = pulls[q].window
             /\ pulls'[q].clash = pulls[q].clash /\ pulls'[q].doomed = pulls[q].doomed
  <2>1. CASE q = p
    BY <1>1, <1>3, <2>1, ReplacingIs
  <2>2. CASE q # p
    BY <1>1, <1>3, <2>2, ReplacingIs
  <2>. QED
    BY <2>1, <2>2
<1>4. ClashInv'
  BY <1>0, <1>3 DEF ClashInv
<1>5. DoomInv'
  BY <1>0, <1>3 DEF DoomInv
<1>. QED
  BY <1>2, <1>4, <1>5, StoredKeeps DEF AdsInv

\* A pull begins: it holds nothing yet.
LEMMA BeginPullKeeps ==
  ASSUME AdsInv, NEW p \in Pullers, BeginPull(p)
  PROVE  AdsInv'
<1>1. PICK readers \in SUBSET DOMAIN Channels, days \in Windows :
        pulls' = [pulls EXCEPT ![p] =
          [phase |-> "reading", todo |-> readers, told |-> << >>,
           window |-> WindowRange(days, adDay) \intersect AdDays,
           doomed |-> {}, written |-> {}, done |-> {}, broken |-> {}, clash |-> {},
           id |-> begun + 1]]
  BY DEF BeginPull
<1>. DEFINE u == [phase |-> "reading", todo |-> readers, told |-> << >>,
                  window |-> WindowRange(days, adDay) \intersect AdDays,
                  doomed |-> {}, written |-> {}, done |-> {}, broken |-> {}, clash |-> {},
                  id |-> begun + 1]
<1>2. PullOK(u)
  BY DEF PullOK, WrittenOK, DoomedOK
<1>3. \A c : ~Covers(u, c)
  BY DEF Covers
<1>4. pulls' = [pulls EXCEPT ![p] = u]
  BY <1>1
<1>5. UNCHANGED <<adsRows, latest, mixed>>
  BY DEF BeginPull
<1>. HIDE DEF u
<1>. QED
  BY <1>2, <1>3, <1>4, <1>5, OnePullMoves

\* A pull that fails leaves the table as it is.
LEMMA AbortPullKeeps ==
  ASSUME AdsInv, NEW p \in Pullers, AbortPull(p)
  PROVE  AdsInv'
<1>1. UNCHANGED <<adsRows, latest, mixed>> /\ pulls' = [pulls EXCEPT ![p] = NoPull]
  BY DEF AbortPull
<1>. QED
  BY <1>1, OnePullMoves

\* A channel is read and its rows of the window are marked for deletion.
LEMMA ReadReportKeeps ==
  ASSUME AdsInv, NEW p \in Pullers, ReadReport(p)
  PROVE  AdsInv'
<1>0. pulls[p] # NoPull /\ pulls[p].phase = "reading" /\ pulls[p].todo # {} /\ PullOK(pulls[p])
  BY DEF ReadReport, Pulling, AdsInv, PullsTyped
<1>1. UNCHANGED <<adsRows, latest, mixed>>
  BY DEF ReadReport
<1>2. ASSUME NEW told, pulls' = [pulls EXCEPT ![p].phase = "told", ![p].told = told]
      PROVE  AdsInv'
  <2>. DEFINE u == [pulls[p] EXCEPT !.phase = "told", !.told = told]
  <2>1. /\ DOMAIN u = DOMAIN pulls[p] /\ u.phase = "told" /\ u.todo = pulls[p].todo
        /\ u.window = pulls[p].window /\ u.clash = pulls[p].clash /\ u.done = pulls[p].done
        /\ u.doomed = pulls[p].doomed /\ u.written = pulls[p].written
    BY <1>0 DEF PullOK
  <2>2. pulls' = [pulls EXCEPT ![p] = u]
    BY <1>2
  <2>. HIDE DEF u
  <2>3. \A c : Covers(u, c) <=> Covers(pulls[p], c)
    BY <1>0, <2>1 DEF Covers
  <2>4. PullOK(u)
    BY <1>0, <2>1, <2>3 DEF PullOK, WrittenOK, DoomedOK
  <2>. QED
    BY <1>0, <1>1, <2>1, <2>2, <2>3, <2>4, OnePullMoves
<1>3. ASSUME pulls' = [pulls EXCEPT ![p].broken = @ \union {Channel(p)},
                                  ![p].todo = @ \ {Turn(p)}]
      PROVE  AdsInv'
  <2>. DEFINE u == [pulls[p] EXCEPT !.broken = @ \union {Channel(p)}, !.todo = @ \ {Turn(p)}]
  <2>1. /\ DOMAIN u = DOMAIN pulls[p] /\ u.phase = "reading"
        /\ u.todo = pulls[p].todo \ {Turn(p)}
        /\ u.window = pulls[p].window /\ u.clash = pulls[p].clash /\ u.done = pulls[p].done
        /\ u.doomed = pulls[p].doomed /\ u.written = pulls[p].written
    BY <1>0 DEF PullOK
  <2>2. pulls' = [pulls EXCEPT ![p] = u]
    BY <1>3
  <2>. HIDE DEF u
  <2>3. \A c : Covers(u, c) <=> Covers(pulls[p], c)
    BY <1>0, <2>1 DEF Covers
  <2>4. PullOK(u)
    BY <1>0, <2>1, <2>3 DEF PullOK, WrittenOK, DoomedOK
  <2>. QED
    BY <1>0, <1>1, <2>1, <2>2, <2>3, <2>4, OnePullMoves
<1>4. \/ pulls' = [pulls EXCEPT ![p].phase = "told",
                             ![p].told = DailyRows(Channel(p), pulls[p].window)]
      \/ pulls' = [pulls EXCEPT ![p].broken = @ \union {Channel(p)}, ![p].todo = @ \ {Turn(p)}]
  BY DEF ReadReport
<1>. QED
  BY <1>2, <1>3, <1>4

\* The rows that were read take the place of the deleted ones.
LEMMA InsertKeeps ==
  ASSUME AdsInv, NEW p \in Pullers, Insert(p)
  PROVE  AdsInv'
<1>0. pulls[p] # NoPull /\ pulls[p].phase = "deleting" /\ PullOK(pulls[p])
  BY DEF Insert, Pulling, AdsInv, PullsTyped
<1>1. UNCHANGED <<adsRows, latest, mixed>>
  BY DEF Insert
<1>. DEFINE new == Rows(Channel(p), pulls[p].window, pulls[p].told, pulls[p].id)
            u == [pulls[p] EXCEPT !.phase = "reading", !.todo = @ \ {Turn(p)},
                    !.done = @ \union {Channel(p)}, !.written = @ \union new]
<1>2. pulls' = [pulls EXCEPT ![p] = u]
  BY DEF Insert
<1>3. /\ DOMAIN u = DOMAIN pulls[p] /\ u.phase = "reading"
      /\ u.todo = pulls[p].todo \ {Turn(p)}
      /\ u.window = pulls[p].window /\ u.clash = pulls[p].clash
      /\ u.done = pulls[p].done \union {Channel(p)}
      /\ u.doomed = pulls[p].doomed /\ u.written = pulls[p].written \union new
  BY <1>0 DEF PullOK
<1>4. Turn(p) \in pulls[p].todo /\ Channel(p) \notin pulls[p].done
  BY <1>0, TurnIs DEF PullOK, Turn, Channel
<1>5. \A r \in new : r.channel = Channel(p) /\ r.date \in pulls[p].window /\ r.figure # NoFigure
  BY DEF Rows
<1>6. \A r, s \in new : r.date = s.date => r = s
  BY DEF Rows
<1>. HIDE DEF u, new
<1>7. \A c : Covers(u, c) <=> Covers(pulls[p], c)
  BY <1>0, <1>3 DEF Covers, Channel, Turn
<1>8. WrittenOK(u)
  BY <1>0, <1>3, <1>4, <1>5, <1>6 DEF PullOK, WrittenOK
<1>9. DoomedOK(u)
  BY <1>0, <1>3, <1>7 DEF PullOK, DoomedOK
<1>10. \A i \in u.todo : Channels[i] \notin u.done
  BY <1>0, <1>3, <1>4, AdsAssumption DEF PullOK, Channel
<1>11. PullOK(u)
  BY <1>0, <1>3, <1>8, <1>9, <1>10 DEF PullOK
<1>. QED
  BY <1>0, <1>1, <1>2, <1>3, <1>7, <1>11, OnePullMoves

\* Whoever deletes a slice dooms its rows, and it and those at the same days
\* know of each other from then on.
LEMMA BeginDeleteKeeps ==
  ASSUME AdsInv, NEW p \in Pullers, BeginDelete(p)
  PROVE  AdsInv'
<1>0. /\ PullsTyped /\ ClashInv /\ DoomInv /\ UNCHANGED <<adsRows, latest, mixed>>
      /\ pulls[p] # NoPull /\ pulls[p].phase = "told" /\ PullOK(pulls[p])
  BY DEF BeginDelete, Pulling, AdsInv, PullsTyped
<1>. DEFINE c == Channel(p)
            Shared(q) == {<<c, d>> : d \in pulls[p].window \intersect pulls[q].window}
            others == {q \in Pullers \ {p} : Replacing(q, c)}
            gone == Doomed(c, pulls[p].window, pulls[p].told)
            mine == [pulls[p] EXCEPT !.phase = "deleting", !.doomed = @ \union gone,
                       !.clash = @ \union UNION {Shared(o) : o \in others}]
            Theirs(q) == [pulls[q] EXCEPT !.clash = @ \union Shared(q)]
<1>1. pulls' = [q \in Pullers |-> IF q = p THEN mine
                                 ELSE IF q \in others THEN Theirs(q) ELSE pulls[q]]
  BY DEF BeginDelete
<1>2. /\ DOMAIN mine = DOMAIN pulls[p] /\ mine.phase = "deleting" /\ mine.todo = pulls[p].todo
      /\ mine.window = pulls[p].window /\ mine.done = pulls[p].done
      /\ mine.written = pulls[p].written /\ mine.doomed = pulls[p].doomed \union gone
      /\ mine.clash = pulls[p].clash \union UNION {Shared(o) : o \in others}
  BY <1>0 DEF PullOK
<1>3. ASSUME NEW q \in others
      PROVE  /\ q \in Pullers /\ q # p /\ pulls[q] # NoPull /\ PullOK(pulls[q]) /\ Covers(pulls[q], c)
             /\ DOMAIN Theirs(q) = DOMAIN pulls[q] /\ Theirs(q).phase = pulls[q].phase
             /\ Theirs(q).todo = pulls[q].todo /\ Theirs(q).window = pulls[q].window
             /\ Theirs(q).done = pulls[q].done /\ Theirs(q).written = pulls[q].written
             /\ Theirs(q).doomed = pulls[q].doomed
             /\ Theirs(q).clash = pulls[q].clash \union Shared(q)
  <2>1. q \in Pullers /\ q # p /\ pulls[q] # NoPull /\ Covers(pulls[q], c)
    BY <1>3, ReplacingIs
  <2>2. PullOK(pulls[q])
    BY <1>0, <2>1 DEF PullsTyped
  <2>. QED
    BY <2>1, <2>2 DEF PullOK
<1>4. \A r \in gone : r.channel = c /\ r.date \in pulls[p].window
  BY DEF Doomed
<1>5. \A r \in adsRows : r.channel = c /\ r.date \in pulls[p].window => r \in gone
  BY DEF Doomed
<1>6. \A q \in Pullers : \A d \in pulls[p].window \intersect pulls[q].window : <<c, d>> \in Shared(q)
  OBVIOUS
<1>7. \A q \in Pullers \ {p} : Replacing(q, c) => q \in others
  OBVIOUS
<1>8. Channels[Min(pulls[p].todo)] = c
  BY DEF Channel, Turn
<1>. HIDE DEF c, Shared, others, gone, mine, Theirs
<1>9. pulls'[p] = mine /\ \A e : Covers(mine, e) <=> Covers(pulls[p], e) \/ e = c
  BY <1>0, <1>1, <1>2, <1>8 DEF Covers
<1>10. PullOK(mine)
  <2>1. DoomedOK(mine)
    BY <1>0, <1>2, <1>4, <1>9 DEF PullOK, DoomedOK
  <2>. QED
    BY <1>0, <1>2, <2>1 DEF PullOK, WrittenOK
<1>11. ASSUME NEW q \in Pullers \ {p}
       PROVE  /\ pulls'[q] = NoPull <=> pulls[q] = NoPull
              /\ pulls'[q] = NoPull \/ PullOK(pulls'[q])
              /\ \A e : Covers(pulls'[q], e) <=> Covers(pulls[q], e)
              /\ pulls'[q].window = pulls[q].window /\ pulls'[q].doomed = pulls[q].doomed
              /\ pulls[q].clash \subseteq pulls'[q].clash
              /\ q \in others => Shared(q) \subseteq pulls'[q].clash
  <2>1. CASE q \in others
    <3>1. pulls'[q] = Theirs(q)
      BY <1>1, <2>1
    <3>2. \A e : Covers(Theirs(q), e) <=> Covers(pulls[q], e)
      BY <1>3, <2>1 DEF Covers
    <3>3. PullOK(Theirs(q))
      <4>1. DoomedOK(Theirs(q))
        BY <1>3, <2>1, <3>2 DEF PullOK, DoomedOK
      <4>2. WrittenOK(Theirs(q))
        BY <1>3, <2>1 DEF PullOK, WrittenOK
      <4>. QED
        BY <1>3, <2>1, <4>1, <4>2 DEF PullOK
    <3>4. Theirs(q) # NoPull
      BY <3>3 DEF PullOK, NoPull
    <3>. QED
      BY <1>3, <2>1, <3>1, <3>2, <3>3, <3>4
  <2>2. CASE q \notin others
    BY <1>0, <1>1, <2>2 DEF PullsTyped
  <2>. QED
    BY <2>1, <2>2
<1>12. PullsTyped'
  BY <1>1, <1>9, <1>10, <1>11 DEF PullsTyped
<1>13. ASSUME NEW q \in Pullers, NEW e, Replacing(q, e)'
       PROVE  Replacing(q, e) \/ (q = p /\ e = c)
  BY <1>0, <1>9, <1>11, <1>13, ReplacingIs
<1>14. ASSUME NEW q \in Pullers
       PROVE  /\ pulls'[q].window = pulls[q].window /\ pulls[q].clash \subseteq pulls'[q].clash
              /\ pulls[q].doomed \subseteq pulls'[q].doomed
  BY <1>2, <1>9, <1>11
<1>15. ClashInv'
  <2>. SUFFICES ASSUME NEW a \in Pullers, NEW b \in Pullers, NEW e,
                       NEW d \in pulls[a].window \intersect pulls[b].window,
                       a # b, Replacing(a, e)', Replacing(b, e)'
                PROVE  <<e, d>> \in pulls'[a].clash
    BY <1>14 DEF ClashInv
  <2>1. CASE a = p /\ e = c
    <3>1. b \in others
      BY <1>7, <1>13, <2>1
    <3>. QED
      BY <1>2, <1>6, <1>9, <2>1, <3>1
  <2>2. CASE b = p /\ e = c
    <3>1. a \in others
      BY <1>7, <1>13, <2>2
    <3>. QED
      BY <1>6, <1>11, <2>2, <3>1
  <2>3. CASE Replacing(a, e) /\ Replacing(b, e)
    BY <1>0, <1>14, <2>3 DEF ClashInv
  <2>. QED
    BY <1>13, <2>1, <2>2, <2>3
<1>16. DoomInv'
  <2>. SUFFICES ASSUME NEW q \in Pullers, NEW r \in adsRows, Replacing(q, r.channel)',
                       r.date \in pulls[q].window, <<r.channel, r.date>> \notin pulls[q].clash
                PROVE  r \in pulls'[q].doomed
    BY <1>0, <1>14 DEF DoomInv
  <2>1. CASE q = p /\ r.channel = c
    BY <1>2, <1>5, <1>9, <2>1
  <2>2. CASE Replacing(q, r.channel)
    BY <1>0, <1>14, <2>2 DEF DoomInv
  <2>. QED
    BY <1>13, <2>1, <2>2
<1>. QED
  BY <1>0, <1>12, <1>15, <1>16, StoredKeeps DEF AdsInv

\* A pull that knows of no other at a day leaves there what it was told.
LEMMA CommitPullKeeps ==
  ASSUME AdsInv, NEW p \in Pullers, CommitPull(p)
  PROVE  AdsInv'
<1>. DEFINE u == pulls[p]
            covered == u.done \X u.window
            Written(c, d) == {r.figure : r \in {x \in u.written : x.channel = c /\ x.date = d}}
            ToldOf(c, d) == IF Written(c, d) = {} THEN {NoFigure} ELSE Written(c, d)
<1>0. PullsTyped /\ ClashInv /\ DoomInv /\ SliceInv
  BY DEF AdsInv
<1>1. u # NoPull /\ u.phase = "reading" /\ PullOK(u)
  BY <1>0 DEF CommitPull, Pulling, PullsTyped
<1>2. /\ adsRows' = (adsRows \ u.doomed) \union u.written
      /\ latest' = [c \in Names |-> [d \in AdDays |->
                       IF <<c, d>> \in covered THEN ToldOf(c, d) ELSE latest[c][d]]]
      /\ mixed' = (mixed \ covered) \union (u.clash \intersect covered)
      /\ pulls' = [pulls EXCEPT ![p] = NoPull]
  BY DEF CommitPull
<1>3. \A c : Replacing(p, c) <=> c \in u.done
  BY <1>1, ReplacingIs DEF Covers
<1>4. /\ \A r \in u.doomed : <<r.channel, r.date>> \in covered
      /\ \A r \in u.written : <<r.channel, r.date>> \in covered /\ r.figure # NoFigure
      /\ \A r, s \in u.written : r.channel = s.channel /\ r.date = s.date => r = s
  <2>1. \A r \in u.doomed : r.channel \in u.done /\ r.date \in u.window
    BY <1>1 DEF PullOK, DoomedOK, Covers
  <2>. QED
    BY <1>1, <2>1 DEF PullOK, WrittenOK
<1>5. pulls'[p] = NoPull /\ \A q \in Pullers \ {p} : pulls'[q] = pulls[q]
  BY <1>0, <1>2 DEF PullsTyped
<1>6. PullsTyped'
  BY <1>0, <1>2, <1>5 DEF PullsTyped
<1>8. ASSUME NEW q \in Pullers, NEW c, Replacing(q, c)'
      PROVE  q # p /\ Replacing(q, c) /\ pulls'[q] = pulls[q]
  BY <1>5, <1>8, ReplacingIs
<1>9. ClashInv'
  BY <1>0, <1>8 DEF ClashInv
<1>10. DoomInv'
  <2>. SUFFICES ASSUME NEW q \in Pullers, NEW r \in adsRows', Replacing(q, r.channel)',
                       r.date \in pulls'[q].window,
                       <<r.channel, r.date>> \notin pulls'[q].clash
                PROVE  r \in pulls'[q].doomed
    BY DEF DoomInv
  <2>0. q # p /\ Replacing(q, r.channel) /\ pulls'[q] = pulls[q]
    BY <1>8
  <2>1. CASE r \in u.written
    <3>1. Replacing(p, r.channel) /\ r.date \in u.window
      BY <1>3, <1>4, <2>1
    <3>. QED
      BY <1>0, <2>0, <3>1 DEF ClashInv
  <2>2. CASE r \in adsRows
    BY <1>0, <2>0, <2>2 DEF DoomInv
  <2>. QED
    BY <1>2, <2>1, <2>2
<1>11. SliceInv'
  <2>. SUFFICES ASSUME NEW c \in Names, NEW d \in AdDays, <<c, d>> \notin mixed'
                PROVE  /\ {r.figure : r \in StoredOf(c, d)'} = Told(c, d)'
                       /\ \A r, s \in StoredOf(c, d)' : r = s
    BY DEF SliceInv
  <2>1. CASE <<c, d>> \in covered
    <3>. DEFINE W == {x \in u.written : x.channel = c /\ x.date = d}
    <3>1. <<c, d>> \notin u.clash /\ Replacing(p, c) /\ d \in u.window
      BY <1>2, <1>3, <2>1
    <3>2. \A r \in adsRows : r.channel = c /\ r.date = d => r \in u.doomed
      BY <1>0, <3>1 DEF DoomInv
    <3>3. StoredOf(c, d)' = W
      BY <1>2, <3>2 DEF StoredOf
    <3>4. latest'[c][d] = ToldOf(c, d)
      BY <1>2, <2>1
    <3>5. NoFigure \notin Written(c, d)
      BY <1>4
    <3>6. Told(c, d)' = Written(c, d)
      BY <3>4, <3>5 DEF Told
    <3>7. \A r, s \in W : r = s
      BY <1>4
    <3>. QED
      BY <3>3, <3>6, <3>7
  <2>2. CASE <<c, d>> \notin covered
    <3>1. \A r : r.channel = c /\ r.date = d => r \notin u.doomed /\ r \notin u.written
      BY <1>4, <2>2
    <3>2. latest'[c][d] = latest[c][d] /\ (<<c, d>> \in mixed => <<c, d>> \in mixed')
      BY <1>2, <2>2
    <3>. QED
      BY <1>2, <3>1, <3>2, SliceKeeps
  <2>. QED
    BY <2>1, <2>2
<1>. QED
  BY <1>6, <1>9, <1>10, <1>11 DEF AdsInv

\* Every step of the ads pulls keeps the invariant.
LEMMA AdsStep ==
  ASSUME AdsInv, [AdsNext]_adsVars
  PROVE  AdsInv'
<1>1. ASSUME UNCHANGED <<adsRows, pulls, latest, mixed>>
      PROVE  AdsInv'
  BY <1>1 DEF AdsInv, PullsTyped, ClashInv, DoomInv, SliceInv, StoredOf, Told, Replacing, Channel, Turn
<1>2. CASE DayEnds
  BY <1>1, <1>2 DEF DayEnds
<1>3. ASSUME NEW c \in Names, ConnectAds(c)
      PROVE  AdsInv'
  BY <1>1, <1>3 DEF ConnectAds
<1>4. ASSUME NEW c \in Names, NEW d \in AdDays, Restate(c, d)
      PROVE  AdsInv'
  BY <1>1, <1>4 DEF Restate
<1>5. CASE UNCHANGED adsVars
  BY <1>1, <1>5 DEF adsVars
<1>6. ASSUME NEW p \in Pullers,
             \/ BeginPull(p) \/ ReadReport(p) \/ BeginDelete(p) \/ Insert(p)
             \/ CommitPull(p) \/ AbortPull(p)
      PROVE  AdsInv'
  BY <1>6, BeginPullKeeps, ReadReportKeeps, BeginDeleteKeeps, InsertKeeps, CommitPullKeeps,
     AbortPullKeeps
<1>. QED
  BY <1>2, <1>3, <1>4, <1>5, <1>6 DEF AdsNext

\* Two pulls that replace one day know of each other, a pull that knows of none
\* has doomed all that is stored of a day it replaces, and a day is stored as it
\* was last told (pull_ads_daily, gm/intel/ads_ingest.py 47-133).
THEOREM AdsInvariant == AdsSpec => []AdsInv
<1>1. AdsInit => AdsInv
  <2>. SUFFICES ASSUME AdsInit PROVE AdsInv
    OBVIOUS
  <2>1. PullsTyped
    BY DEF AdsInit, PullsTyped
  <2>2. \A p \in Pullers : pulls[p] = NoPull
    BY DEF AdsInit
  <2>3. ClashInv /\ DoomInv
    BY <2>2 DEF ClashInv, DoomInv, Replacing
  <2>4. SliceInv
    BY DEF AdsInit, SliceInv, StoredOf, Told
  <2>. QED
    BY <2>1, <2>3, <2>4 DEF AdsInv
<1>. QED
  BY <1>1, AdsStep, PTL DEF AdsSpec

\* However pulls overlap, break off and are told other figures later: unless the
\* deletes of two pulls have overlapped at a day, its rows are what the last
\* pull of the day was told, neither doubled nor left over (ads_ingest.py 47-133).
THEOREM SlicesAreTheLastPulls == AdsSpec => []SliceIsTheLastPull
<1>1. ASSUME AdsInv
      PROVE  SliceIsTheLastPull
  <2>. SUFFICES ASSUME NEW c \in Names, NEW d \in AdDays, <<c, d>> \notin mixed
                PROVE  /\ {r.figure : r \in StoredOf(c, d)} = Told(c, d)
                       /\ Cardinality(StoredOf(c, d)) = Cardinality(Told(c, d))
    BY DEF SliceIsTheLastPull, StoredOf
  <2>1. /\ {r.figure : r \in StoredOf(c, d)} = Told(c, d)
        /\ \A r, s \in StoredOf(c, d) : r = s
    BY <1>1 DEF AdsInv, SliceInv
  <2>. HIDE DEF AdsInv
  <2>2. CASE StoredOf(c, d) = {}
    BY <2>1, <2>2
  <2>3. ASSUME NEW r \in StoredOf(c, d)
        PROVE  Cardinality(StoredOf(c, d)) = Cardinality(Told(c, d))
    <3>1. StoredOf(c, d) = {r}
      BY <2>1, <2>3
    <3>2. Told(c, d) = {r.figure}
      BY <2>1, <3>1
    <3>. QED
      BY <3>1, <3>2, FS_Singleton
  <2>. QED
    BY <2>1, <2>2, <2>3
<1>. QED
  BY <1>1, AdsInvariant, PTL

-----------------------------------------------------------------------------
(* The spend that a receipt tells of *)

\* By day n, a row is of a day that is over and of what its platform may report.
AdRowOK(r, n) ==
  /\ r.channel \in Names /\ r.date \in AdDays /\ r.date < n
  /\ r.figure \in Figures[r.channel]

\* What a pull has been told, and what it has written.
TellsOK(u, n) ==
  /\ u.window \subseteq AdDays /\ \A d \in u.window : d < n
  /\ u.phase # "reading" => \A d \in u.window : u.told[d] \in Reports(Channels[Min(u.todo)])
  /\ IsFiniteSet(u.written) /\ \A r \in u.written : AdRowOK(r, n)

SpendInv ==
  /\ adDay \in Nat
  /\ DOMAIN platform = Names
  /\ \A c \in Names : platform[c] \in [AdDays -> Reports(c)]
  /\ IsFiniteSet(adsRows) /\ \A r \in adsRows : AdRowOK(r, adDay)
  /\ \A p \in Pullers : pulls[p] # NoPull => TellsOK(pulls[p], adDay)

\* A channel whose turn it is has a name.
LEMMA ChannelsHaveNames ==
  ASSUME NEW u, PullOK(u), u.todo # {}
  PROVE  Channels[Min(u.todo)] \in Names
BY TurnIs DEF PullOK, Names

\* A step of one pull that neither commits nor ends a day.
LEMMA OnePullTells ==
  ASSUME AdsInv, SpendInv, UNCHANGED <<adDay, platform, adsRows>>, NEW p \in Pullers, NEW u,
         pulls' = [pulls EXCEPT ![p] = u], u = NoPull \/ TellsOK(u, adDay)
  PROVE  SpendInv'
<1>1. pulls'[p] = u /\ \A q \in Pullers \ {p} : pulls'[q] = pulls[q]
  BY DEF AdsInv, PullsTyped
<1>2. \A q \in Pullers : pulls'[q] # NoPull => TellsOK(pulls'[q], adDay)
  BY <1>1 DEF SpendInv
<1>. QED
  BY <1>2 DEF SpendInv

\* A day that ends is told of, and the rows stay of days that are over.
LEMMA DayEndsTells ==
  ASSUME SpendInv, DayEnds
  PROVE  SpendInv'
<1>1. PICK told : /\ \A c \in Names : told[c] \in Reports(c)
                  /\ platform' = [c \in Names |-> [platform[c] EXCEPT ![adDay] = told[c]]]
  BY DEF DayEnds
<1>2. adDay' = adDay + 1 /\ adDay \in Nat /\ adsRows' = adsRows /\ pulls' = pulls
  BY DEF DayEnds, SpendInv
<1>3. DOMAIN platform' = Names /\ \A c \in Names : platform'[c] \in [AdDays -> Reports(c)]
  BY <1>1 DEF SpendInv
<1>4. \A d \in AdDays : d < adDay => d < adDay + 1
  BY <1>2 DEF AdDays
<1>5. \A r : AdRowOK(r, adDay) => AdRowOK(r, adDay + 1)
  BY <1>4 DEF AdRowOK
<1>6. \A u : TellsOK(u, adDay) => TellsOK(u, adDay + 1)
  BY <1>4, <1>5 DEF TellsOK
<1>. QED
  BY <1>2, <1>3, <1>5, <1>6 DEF SpendInv

\* A restatement is of what the platform may report.
LEMMA RestateTells ==
  ASSUME SpendInv, NEW c \in Names, NEW d \in AdDays, Restate(c, d)
  PROVE  SpendInv'
<1>1. PICK f \in Reports(c) : platform' = [platform EXCEPT ![c][d] = f]
  BY DEF Restate
<1>2. UNCHANGED <<adDay, adsRows, pulls>>
  BY DEF Restate
<1>3. DOMAIN platform' = Names /\ \A e \in Names : platform'[e] \in [AdDays -> Reports(e)]
  BY <1>1 DEF SpendInv
<1>. QED
  BY <1>2, <1>3 DEF SpendInv

\* A pull begins: its window ends yesterday.
LEMMA BeginPullTells ==
  ASSUME AdsInv, SpendInv, NEW p \in Pullers, BeginPull(p)
  PROVE  SpendInv'
<1>1. PICK readers \in SUBSET DOMAIN Channels, days \in Windows :
        pulls' = [pulls EXCEPT ![p] =
          [phase |-> "reading", todo |-> readers, told |-> << >>,
           window |-> WindowRange(days, adDay) \intersect AdDays,
           doomed |-> {}, written |-> {}, done |-> {}, broken |-> {}, clash |-> {},
           id |-> begun + 1]]
  BY DEF BeginPull
<1>. DEFINE u == [phase |-> "reading", todo |-> readers, told |-> << >>,
                  window |-> WindowRange(days, adDay) \intersect AdDays,
                  doomed |-> {}, written |-> {}, done |-> {}, broken |-> {}, clash |-> {},
                  id |-> begun + 1]
<1>2. \A d \in u.window : d < adDay
  <2>1. days \in Nat /\ adDay \in Nat
    BY AdsAssumption DEF SpendInv
  <2>2. \A d \in (adDay - days) .. (adDay - 1) : d < adDay
    BY <2>1
  <2>. QED
    BY <2>2 DEF WindowRange
<1>3. TellsOK(u, adDay)
  BY <1>2, FS_EmptySet DEF TellsOK
<1>4. pulls' = [pulls EXCEPT ![p] = u]
  BY <1>1
<1>5. UNCHANGED <<adDay, platform, adsRows>>
  BY DEF BeginPull
<1>. HIDE DEF u
<1>. QED
  BY <1>3, <1>4, <1>5, OnePullTells

\* A report says of each day what the platform reports now.
LEMMA ReadReportTells ==
  ASSUME AdsInv, SpendInv, NEW p \in Pullers, ReadReport(p)
  PROVE  SpendInv'
<1>0. /\ pulls[p] # NoPull /\ pulls[p].phase = "reading" /\ pulls[p].todo # {} /\ PullOK(pulls[p])
      /\ TellsOK(pulls[p], adDay)
  BY DEF ReadReport, Pulling, AdsInv, PullsTyped, SpendInv
<1>1. UNCHANGED <<adDay, platform, adsRows>>
  BY DEF ReadReport
<1>. DEFINE told == DailyRows(Channel(p), pulls[p].window)
<1>2. \A d \in pulls[p].window : told[d] \in Reports(Channels[Min(pulls[p].todo)])
  <2>1. Channels[Min(pulls[p].todo)] \in Names
    BY <1>0, ChannelsHaveNames
  <2>2. \A d \in pulls[p].window : d \in AdDays /\ told[d] = platform[Channels[Min(pulls[p].todo)]][d]
    BY <1>0 DEF TellsOK, DailyRows, Channel, Turn
  <2>. HIDE DEF told
  <2>. QED
    BY <2>1, <2>2 DEF SpendInv
<1>. HIDE DEF told
<1>3. CASE pulls' = [pulls EXCEPT ![p].phase = "told", ![p].told = told]
  <2>. DEFINE u == [pulls[p] EXCEPT !.phase = "told", !.told = told]
  <2>1. /\ u.phase = "told" /\ u.todo = pulls[p].todo /\ u.told = told
        /\ u.window = pulls[p].window /\ u.written = pulls[p].written
    BY <1>0 DEF PullOK
  <2>2. pulls' = [pulls EXCEPT ![p] = u]
    BY <1>3
  <2>. HIDE DEF u
  <2>3. TellsOK(u, adDay)
    BY <1>0, <1>2, <2>1 DEF TellsOK
  <2>. QED
    BY <1>1, <2>2, <2>3, OnePullTells
<1>4. CASE pulls' = [pulls EXCEPT ![p].broken = @ \union {Channel(p)},
                                  ![p].todo = @ \ {Turn(p)}]
  <2>. DEFINE u == [pulls[p] EXCEPT !.broken = @ \union {Channel(p)}, !.todo = @ \ {Turn(p)}]
  <2>1. u.phase = "reading" /\ u.window = pulls[p].window /\ u.written = pulls[p].written
    BY <1>0 DEF PullOK
  <2>2. pulls' = [pulls EXCEPT ![p] = u]
    BY <1>4
  <2>. HIDE DEF u
  <2>3. TellsOK(u, adDay)
    BY <1>0, <2>1 DEF TellsOK
  <2>. QED
    BY <1>1, <2>2, <2>3, OnePullTells
<1>. QED
  BY <1>3, <1>4 DEF ReadReport, told

\* A delete changes nothing of what was told or written.
LEMMA BeginDeleteTells ==
  ASSUME AdsInv, SpendInv, NEW p \in Pullers, BeginDelete(p)
  PROVE  SpendInv'
<1>0. UNCHANGED <<adDay, platform, adsRows>> /\ PullsTyped
  BY DEF BeginDelete, AdsInv
<1>1. ASSUME NEW q \in Pullers, pulls'[q] # NoPull
      PROVE  TellsOK(pulls'[q], adDay)
  <2>1. /\ pulls[q] # NoPull /\ pulls'[q].window = pulls[q].window
        /\ pulls'[q].written = pulls[q].written /\ pulls'[q].told = pulls[q].told
        /\ pulls'[q].todo = pulls[q].todo
        /\ pulls[q].phase = "reading" => pulls'[q].phase = "reading"
    <3>1. CASE q = p
      <4>1. pulls[p] # NoPull /\ pulls[p].phase = "told" /\ PullOK(pulls[p])
        BY <1>0 DEF BeginDelete, Pulling, PullsTyped
      <4>2. PICK doomed, clash :
              pulls'[p] = [pulls[p] EXCEPT !.phase = "deleting", !.doomed = doomed, !.clash = clash]
        BY <4>1 DEF BeginDelete
      <4>. QED
        BY <3>1, <4>1, <4>2 DEF PullOK
    <3>2. CASE q # p
      <4>1. pulls'[q] = pulls[q] \/ \E clash : pulls'[q] = [pulls[q] EXCEPT !.clash = clash]
        BY <3>2 DEF BeginDelete
      <4>2. CASE pulls'[q] = pulls[q]
        BY <1>1, <4>2
      <4>3. ASSUME NEW clash, pulls'[q] = [pulls[q] EXCEPT !.clash = clash], pulls'[q] # pulls[q]
            PROVE  pulls[q] # NoPull
        BY <4>3 DEF NoPull
      <4>4. ASSUME NEW clash, pulls'[q] = [pulls[q] EXCEPT !.clash = clash], pulls[q] # NoPull
            PROVE  /\ pulls'[q].window = pulls[q].window
                   /\ pulls'[q].written = pulls[q].written /\ pulls'[q].told = pulls[q].told
                   /\ pulls'[q].todo = pulls[q].todo /\ pulls'[q].phase = pulls[q].phase
        <5>1. PullOK(pulls[q])
          BY <1>0, <4>4 DEF PullsTyped
        <5>. QED
          BY <4>4, <5>1 DEF PullOK
      <4>. QED
        BY <4>1, <4>2, <4>3, <4>4
    <3>. QED
      BY <3>1, <3>2
  <2>2. TellsOK(pulls[q], adDay)
    BY <2>1 DEF SpendInv
  <2>. QED
    BY <2>1, <2>2 DEF TellsOK
<1>. QED
  BY <1>0, <1>1 DEF SpendInv

\* What is inserted is what was told: a figure of the platform, or no row.
LEMMA InsertTells ==
  ASSUME AdsInv, SpendInv, NEW p \in Pullers, Insert(p)
  PROVE  SpendInv'
<1>0. /\ pulls[p] # NoPull /\ pulls[p].phase = "deleting" /\ PullOK(pulls[p])
      /\ TellsOK(pulls[p], adDay)
  BY DEF Insert, Pulling, AdsInv, PullsTyped, SpendInv
<1>1. UNCHANGED <<adDay, platform, adsRows>>
  BY DEF Insert
<1>. DEFINE c == Channel(p)  told == pulls[p].told  n == pulls[p].id
            days == {x \in pulls[p].window : told[x] # NoFigure}
            row == [d \in days |-> [channel |-> c, date |-> d, figure |-> told[d], pull |-> n]]
            new == Rows(c, pulls[p].window, told, n)
            u == [pulls[p] EXCEPT !.phase = "reading", !.todo = @ \ {Turn(p)},
                    !.done = @ \union {Channel(p)}, !.written = @ \union new]
<1>2. pulls' = [pulls EXCEPT ![p] = u]
  BY DEF Insert
<1>3. /\ u.phase = "reading" /\ u.window = pulls[p].window
      /\ u.written = pulls[p].written \union new
  BY <1>0 DEF PullOK
<1>4. new = {row[d] : d \in days}
  BY DEF Rows
<1>5. c = Channels[Min(pulls[p].todo)] /\ c \in Names
  BY <1>0, ChannelsHaveNames DEF PullOK, Channel, Turn
<1>6. days \in SUBSET AdDays /\ IsFiniteSet(days)
  <2>1. IsFiniteSet(AdDays)
    BY AdsAssumption, FS_Interval DEF AdDays
  <2>2. days \in SUBSET AdDays
    BY <1>0 DEF TellsOK
  <2>. HIDE DEF days
  <2>. QED
    BY <2>1, <2>2, FS_Subset
<1>7. \A d \in days : AdRowOK(row[d], adDay)
  <2>. SUFFICES ASSUME NEW d \in days PROVE AdRowOK(row[d], adDay)
    OBVIOUS
  <2>1. row[d].channel = c /\ row[d].date = d /\ row[d].figure = told[d]
    OBVIOUS
  <2>2. d \in pulls[p].window /\ told[d] # NoFigure
    OBVIOUS
  <2>. HIDE DEF c, told, days, row
  <2>3. told[d] \in Reports(c) /\ d < adDay /\ d \in AdDays
    BY <1>0, <1>5, <2>2 DEF TellsOK, told
  <2>. QED
    BY <1>5, <2>1, <2>2, <2>3 DEF AdRowOK, Reports
<1>. HIDE DEF c, told, n, days, row, new, u
<1>8. IsFiniteSet(new)
  BY <1>4, <1>6, ImagesAreFinite
<1>9. TellsOK(u, adDay)
  <2>1. IsFiniteSet(u.written)
    BY <1>0, <1>3, <1>8, FS_Union DEF TellsOK
  <2>. QED
    BY <1>0, <1>3, <1>4, <1>7, <2>1 DEF TellsOK
<1>. QED
  BY <1>1, <1>2, <1>9, OnePullTells

\* A commit stores what the pull has written.
LEMMA CommitPullTells ==
  ASSUME AdsInv, SpendInv, NEW p \in Pullers, CommitPull(p)
  PROVE  SpendInv'
<1>1. /\ adsRows' = (adsRows \ pulls[p].doomed) \union pulls[p].written
      /\ pulls' = [pulls EXCEPT ![p] = NoPull] /\ UNCHANGED <<adDay, platform>>
      /\ TellsOK(pulls[p], adDay)
  BY DEF CommitPull, Pulling, SpendInv
<1>2. IsFiniteSet(adsRows')
  <2>1. IsFiniteSet(adsRows) /\ IsFiniteSet(pulls[p].written)
    BY <1>1 DEF SpendInv, TellsOK
  <2>2. IsFiniteSet(adsRows \ pulls[p].doomed)
    BY <2>1, FS_Subset
  <2>. QED
    BY <1>1, <2>1, <2>2, FS_Union
<1>3. \A r \in adsRows' : AdRowOK(r, adDay)
  BY <1>1 DEF SpendInv, TellsOK
<1>4. \A q \in Pullers : pulls'[q] # NoPull => pulls'[q] = pulls[q]
  BY <1>1 DEF AdsInv, PullsTyped
<1>. QED
  BY <1>1, <1>2, <1>3, <1>4 DEF SpendInv

\* Every step keeps what is stored and told within what the platforms report.
LEMMA SpendStep ==
  ASSUME AdsInv, SpendInv, [AdsNext]_adsVars
  PROVE  SpendInv'
<1>1. CASE DayEnds
  BY <1>1, DayEndsTells
<1>2. ASSUME NEW c \in Names, ConnectAds(c)
      PROVE  SpendInv'
  BY <1>2 DEF ConnectAds, SpendInv
<1>3. ASSUME NEW c \in Names, NEW d \in AdDays, Restate(c, d)
      PROVE  SpendInv'
  BY <1>3, RestateTells
<1>4. CASE UNCHANGED adsVars
  BY <1>4 DEF adsVars, SpendInv
<1>5. ASSUME NEW p \in Pullers, AbortPull(p)
      PROVE  SpendInv'
  BY <1>5, OnePullTells DEF AbortPull
<1>6. ASSUME NEW p \in Pullers,
             \/ BeginPull(p) \/ ReadReport(p) \/ BeginDelete(p) \/ Insert(p)
             \/ CommitPull(p) \/ AbortPull(p)
      PROVE  SpendInv'
  BY <1>5, <1>6, BeginPullTells, ReadReportTells, BeginDeleteTells, InsertTells, CommitPullTells
<1>. QED
  BY <1>1, <1>2, <1>3, <1>4, <1>6 DEF AdsNext

\* The stored rows are finitely many, of channels of the site and of days that
\* are over, and each says what its platform may report (ads_ingest.py 47-133).
THEOREM SpendInvariant == AdsSpec => []SpendInv
<1>1. AdsInit => SpendInv
  BY FS_EmptySet DEF AdsInit, SpendInv, Reports
<1>. QED
  BY <1>1, SpendStep, AdsInvariant, PTL DEF AdsSpec

-----------------------------------------------------------------------------
(* What a receipt adds up *)

SpendsOf(S) == MapThenSumSet(LAMBDA x : x.spend, S)
ToldOn(S)   == MapThenSumSet(LAMBDA x : SpendTold(x[1], x[2]), S)

\* The spend of rows is a total, as FiniteSums has it.
LEMMA SpendIs ==
  ASSUME NEW S, IsFiniteSet(S)
  PROVE  Spend(S) = TotalOf([r \in S |-> r.figure.spend], S)
<1>. DEFINE w == [r \in S |-> r.figure.spend]
            Body(f) == [s \in SUBSET S |->
                          IF s = {} THEN 0
                          ELSE LET x == CHOOSE x \in s : TRUE IN x.figure.spend + f[s \ {x}]]
            Made(f) == f = Body(f)
<1>1. \A s \in SUBSET S : s # {} => Pick(s) \in S
  BY DEF Pick
<1>2. ASSUME NEW f PROVE Adds(f, w, S) <=> Made(f)
  <2>1. Body(f) = [s \in SUBSET S |-> IF s = {} THEN 0 ELSE w[Pick(s)] + f[Rest(s)]]
    BY <1>1 DEF Pick, Rest
  <2>. QED
    BY <2>1 DEF Adds
<1>3. Spend(S) = (CHOOSE f : Made(f))[S]
  BY DEF Spend, MapThenSumSet, MapThenFoldSet
<1>. HIDE DEF Made, w
<1>4. \E f : Made(f)
  BY <1>2, SumExists
<1>5. Made(CHOOSE f : Made(f))
  BY <1>4
<1>6. Spend(S) = TotalOf(w, S)
  BY <1>2, <1>3, <1>5, TotalIs
<1>. QED
  BY <1>6 DEF w

\* Likewise that of figures and of a receipt's lines.
LEMMA SpendsAre ==
  ASSUME NEW S, IsFiniteSet(S)
  PROVE  SpendsOf(S) = TotalOf([x \in S |-> x.spend], S)
<1>. DEFINE w == [r \in S |-> r.spend]
            Body(f) == [s \in SUBSET S |->
                          IF s = {} THEN 0
                          ELSE LET x == CHOOSE x \in s : TRUE IN x.spend + f[s \ {x}]]
            Made(f) == f = Body(f)
<1>1. \A s \in SUBSET S : s # {} => Pick(s) \in S
  BY DEF Pick
<1>2. ASSUME NEW f PROVE Adds(f, w, S) <=> Made(f)
  <2>1. Body(f) = [s \in SUBSET S |-> IF s = {} THEN 0 ELSE w[Pick(s)] + f[Rest(s)]]
    BY <1>1 DEF Pick, Rest
  <2>. QED
    BY <2>1 DEF Adds
<1>3. SpendsOf(S) = (CHOOSE f : Made(f))[S]
  BY DEF SpendsOf, MapThenSumSet, MapThenFoldSet
<1>. HIDE DEF Made, w
<1>4. \E f : Made(f)
  BY <1>2, SumExists
<1>5. Made(CHOOSE f : Made(f))
  BY <1>4
<1>6. SpendsOf(S) = TotalOf(w, S)
  BY <1>2, <1>3, <1>5, TotalIs
<1>. QED
  BY <1>6 DEF w

\* And that of the days that were told of.
LEMMA ToldIs ==
  ASSUME NEW S, IsFiniteSet(S)
  PROVE  ToldOn(S) = TotalOf([x \in S |-> SpendTold(x[1], x[2])], S)
<1>. DEFINE w == [x \in S |-> SpendTold(x[1], x[2])]
            Body(f) == [s \in SUBSET S |->
                          IF s = {} THEN 0
                          ELSE LET x == CHOOSE x \in s : TRUE
                               IN  SpendTold(x[1], x[2]) + f[s \ {x}]]
            Made(f) == f = Body(f)
<1>1. \A s \in SUBSET S : s # {} => Pick(s) \in S
  BY DEF Pick
<1>2. ASSUME NEW f PROVE Adds(f, w, S) <=> Made(f)
  <2>1. Body(f) = [s \in SUBSET S |-> IF s = {} THEN 0 ELSE w[Pick(s)] + f[Rest(s)]]
    BY <1>1 DEF Pick, Rest
  <2>. QED
    BY <2>1 DEF Adds
<1>3. ToldOn(S) = (CHOOSE f : Made(f))[S]
  BY DEF ToldOn, MapThenSumSet, MapThenFoldSet
<1>. HIDE DEF Made, w
<1>4. \E f : Made(f)
  BY <1>2, SumExists
<1>5. Made(CHOOSE f : Made(f))
  BY <1>4
<1>6. ToldOn(S) = TotalOf(w, S)
  BY <1>2, <1>3, <1>5, TotalIs
<1>. QED
  BY <1>6 DEF w

\* What a row has cost.
Cost == [r \in adsRows |-> r.figure.spend]

LEMMA CostsAreNumbers ==
  ASSUME SpendInv
  PROVE  IsFiniteSet(adsRows) /\ \A r \in adsRows : Cost[r] \in Nat /\ Cost[r] = r.figure.spend
<1>1. ASSUME NEW r \in adsRows PROVE r.figure.spend \in Nat
  BY AdsAssumption DEF SpendInv, AdRowOK, Names
<1>. QED
  BY <1>1 DEF Cost, SpendInv

\* Some of the rows have the spend that their costs add up to.
LEMMA SpendOfSome ==
  ASSUME SpendInv, NEW S, S \subseteq adsRows
  PROVE  IsFiniteSet(S) /\ Spend(S) = TotalOf(Cost, S)
<1>. DEFINE w == [r \in S |-> r.figure.spend]
<1>1. IsFiniteSet(S)
  BY CostsAreNumbers, FS_Subset
<1>2. \A r \in S : Cost[r] \in Nat /\ w[r] = Cost[r]
  BY CostsAreNumbers
<1>3. Spend(S) = TotalOf(w, S)
  BY <1>1, SpendIs
<1>. HIDE DEF w
<1>. QED
  BY <1>1, <1>2, <1>3, TotalsAgree

\* What the last pulls were told of all days is what the stored rows have cost.
LEMMA ToldIsStored ==
  ASSUME AdsInv, SpendInv, mixed = {}
  PROVE  ToldOn(Names \X AdDays) = TotalOf(Cost, adsRows)
<1>. DEFINE A == Names \X AdDays
            h == [r \in adsRows |-> <<r.channel, r.date>>]
            v == [x \in A |-> SpendTold(x[1], x[2])]
            u == ByClass(Cost, adsRows, h, A)
<1>1. IsFiniteSet(A)
  <2>1. IsFiniteSet(AdDays)
    BY AdsAssumption, FS_Interval DEF AdDays
  <2>2. IsFiniteSet(Names)
    BY AdsAssumption, ImagesAreFinite DEF Names
  <2>. QED
    BY <2>1, <2>2, FS_Product
<1>2. \A r \in adsRows : h[r] \in A
  BY DEF SpendInv, AdRowOK
<1>3. ASSUME NEW c \in Names, NEW d \in AdDays
      PROVE  SpendTold(c, d) = TotalOf(Cost, Class(adsRows, h, <<c, d>>))
  <2>1. Class(adsRows, h, <<c, d>>) = StoredOf(c, d)
    BY DEF Class, StoredOf
  <2>2. /\ {r.figure : r \in StoredOf(c, d)} = Told(c, d)
        /\ \A r, s \in StoredOf(c, d) : r = s
    BY DEF AdsInv, SliceInv
  <2>3. SpendTold(c, d) = SpendsOf(Told(c, d))
    BY DEF SpendTold, SpendsOf
  <2>4. CASE StoredOf(c, d) = {}
    <3>1. Told(c, d) = {} /\ IsFiniteSet({})
      BY <2>2, <2>4, FS_EmptySet
    <3>2. SpendsOf({}) = TotalOf([x \in {} |-> x.spend], {})
      BY <3>1, SpendsAre
    <3>3. TotalOf([x \in {} |-> x.spend], {}) = 0 /\ TotalOf(Cost, {}) = 0
      BY <3>1, TotalsAreNumbers
    <3>. QED
      BY <2>1, <2>3, <2>4, <3>1, <3>2, <3>3
  <2>5. ASSUME NEW r \in StoredOf(c, d)
        PROVE  SpendTold(c, d) = TotalOf(Cost, StoredOf(c, d))
    <3>. DEFINE w == [x \in {r.figure} |-> x.spend]
    <3>1. StoredOf(c, d) = {r} /\ Told(c, d) = {r.figure} /\ r \in adsRows
      BY <2>2, <2>5 DEF StoredOf
    <3>2. Cost[r] \in Nat /\ Cost[r] = w[r.figure]
      BY <3>1, CostsAreNumbers
    <3>3. SpendsOf({r.figure}) = TotalOf(w, {r.figure})
      BY FS_Singleton, SpendsAre
    <3>. HIDE DEF w
    <3>4. TotalOf(w, {r.figure}) = w[r.figure]
      BY <3>2, TotalsOfOne
    <3>5. TotalOf(Cost, {r}) = Cost[r]
      BY <3>2, TotalsOfOne
    <3>. QED
      BY <2>3, <3>1, <3>2, <3>3, <3>4, <3>5
  <2>. QED
    BY <2>1, <2>4, <2>5
<1>4. \A x \in A : v[x] = u[x]
  <2>. SUFFICES ASSUME NEW x \in A PROVE v[x] = u[x]
    OBVIOUS
  <2>1. PICK c \in Names, d \in AdDays : x = <<c, d>>
    OBVIOUS
  <2>2. v[x] = SpendTold(c, d) /\ u[x] = TotalOf(Cost, Class(adsRows, h, <<c, d>>))
    BY <2>1 DEF ByClass
  <2>. QED
    BY <1>3, <2>2
<1>5. ToldOn(A) = TotalOf(v, A)
  BY <1>1, ToldIs
<1>. HIDE DEF A, h, v
<1>6. /\ TotalOf(u, A) = TotalOf(Cost, adsRows)
      /\ \A x \in A : TotalOf(Cost, Class(adsRows, h, x)) \in Nat
  BY <1>1, <1>2, CostsAreNumbers, TotalsByClass
<1>7. \A x \in A : u[x] \in Nat
  BY <1>6 DEF ByClass
<1>. HIDE DEF u
<1>8. TotalOf(v, A) = TotalOf(u, A)
  BY <1>1, <1>4, <1>7, TotalsAgree
<1>. QED
  BY <1>5, <1>6, <1>8 DEF A

LineOf(c, k) ==
  [channel |-> c, currency |-> k,
   spend |-> Spend({r \in adsRows : r.channel = c /\ r.figure.currency = k})]
Lines == {LineOf(r.channel, r.figure.currency) : r \in adsRows}

\* The lines of a receipt over all days add up to what the stored rows have cost.
LEMMA LinesAreStored ==
  ASSUME SpendInv
  PROVE  SpendsOf(Lines) = TotalOf(Cost, adsRows)
<1>. DEFINE h == [r \in adsRows |-> LineOf(r.channel, r.figure.currency)]
            v == [x \in Lines |-> x.spend]
            u == ByClass(Cost, adsRows, h, Lines)
<1>1. IsFiniteSet(Lines)
  <2>1. Lines = {h[r] : r \in adsRows}
    BY DEF Lines
  <2>. HIDE DEF h
  <2>. QED
    BY <2>1, CostsAreNumbers, ImagesAreFinite
<1>2. \A r \in adsRows : h[r] \in Lines
  BY DEF Lines
<1>3. ASSUME NEW x \in Lines
      PROVE  v[x] = TotalOf(Cost, Class(adsRows, h, x))
  <2>1. PICK t \in adsRows : x = LineOf(t.channel, t.figure.currency)
    BY DEF Lines
  <2>. DEFINE S == {r \in adsRows : r.channel = t.channel /\ r.figure.currency = t.figure.currency}
  <2>2. x.channel = t.channel /\ x.currency = t.figure.currency /\ x.spend = Spend(S)
    BY <2>1 DEF LineOf
  <2>3. \A r \in adsRows : h[r].channel = r.channel /\ h[r].currency = r.figure.currency
    BY DEF LineOf
  <2>4. Class(adsRows, h, x) = S
    <3>1. \A r \in adsRows : h[r] = x => r \in S
      BY <2>2, <2>3
    <3>2. \A r \in S : h[r] = x
      BY <2>1
    <3>. QED
      BY <3>1, <3>2 DEF Class
  <2>5. Spend(S) = TotalOf(Cost, S)
    BY SpendOfSome
  <2>. QED
    BY <2>2, <2>4, <2>5
<1>4. \A x \in Lines : v[x] = u[x]
  BY <1>3 DEF ByClass
<1>5. SpendsOf(Lines) = TotalOf(v, Lines)
  BY <1>1, SpendsAre
<1>. HIDE DEF h, v
<1>6. /\ TotalOf(u, Lines) = TotalOf(Cost, adsRows)
      /\ \A x \in Lines : TotalOf(Cost, Class(adsRows, h, x)) \in Nat
  BY <1>1, <1>2, CostsAreNumbers, TotalsByClass
<1>7. \A x \in Lines : u[x] \in Nat
  BY <1>6 DEF ByClass
<1>. HIDE DEF u
<1>8. TotalOf(v, Lines) = TotalOf(u, Lines)
  BY <1>1, <1>4, <1>7, TotalsAgree
<1>. QED
  BY <1>5, <1>6, <1>8

\* A receipt over all days that names a cost per consult has one currency and
\* the spend of its lines.
LEMMA BlendedIs ==
  ASSUME SpendInv, NEW booked, NEW b \in RoasLines(1, adDay, booked).blended
  PROVE  /\ Cardinality({r.figure.currency : r \in adsRows}) = 1
         /\ b.spend = SpendsOf(Lines)
<1>. DEFINE R == {r \in adsRows : 1 <= r.date /\ r.date < adDay}
            lines == {<<r.channel, r.figure.currency>> : r \in adsRows}
            Line(l) == [channel |-> l[1], currency |-> l[2],
                        spend |-> Spend({r \in adsRows : r.channel = l[1] /\ r.figure.currency = l[2]})]
<1>1. R = adsRows
  BY AdsAssumption DEF SpendInv, AdRowOK, AdDays
<1>2. RoasLines(1, adDay, booked).blended = RoasPeriod(R, booked).blended
  BY DEF RoasLines, RoasPeriod
<1>3. RoasLines(1, adDay, booked).blended = RoasPeriod(adsRows, booked).blended
  BY <1>1, <1>2
<1>4. /\ Cardinality({l[2] : l \in lines}) = 1
      /\ b.spend = SpendsOf({Line(l) : l \in lines})
  <2>1. RoasPeriod(adsRows, booked).blended =
          IF lines # {} /\ booked > 0 /\ Cardinality({l[2] : l \in lines}) = 1
          THEN {[spend |-> SpendsOf({Line(l) : l \in lines}), consults |-> booked]} ELSE {}
    BY DEF RoasPeriod, SpendsOf, MapThenSumSet, MapThenFoldSet
  <2>. HIDE DEF lines, Line
  <2>. QED
    BY <1>3, <2>1
<1>5. {l[2] : l \in lines} = {r.figure.currency : r \in adsRows}
  <2>1. ASSUME NEW l \in lines PROVE l[2] \in {r.figure.currency : r \in adsRows}
    BY <2>1
  <2>2. ASSUME NEW r \in adsRows PROVE r.figure.currency \in {l[2] : l \in lines}
    <3>1. <<r.channel, r.figure.currency>> \in lines
      OBVIOUS
    <3>. HIDE DEF lines
    <3>. QED
      BY <3>1
  <2>. QED
    BY <2>1, <2>2
<1>6. {Line(l) : l \in lines} = Lines
  <2>1. \A r \in adsRows :
          Line(<<r.channel, r.figure.currency>>) = LineOf(r.channel, r.figure.currency)
    BY DEF LineOf
  <2>2. ASSUME NEW l \in lines PROVE Line(l) \in Lines
    <3>1. PICK r \in adsRows : l = <<r.channel, r.figure.currency>>
      OBVIOUS
    <3>. HIDE DEF Line
    <3>. QED
      BY <2>1, <3>1 DEF Lines
  <2>3. ASSUME NEW x \in Lines PROVE x \in {Line(l) : l \in lines}
    <3>1. PICK r \in adsRows : x = LineOf(r.channel, r.figure.currency)
      BY DEF Lines
    <3>2. <<r.channel, r.figure.currency>> \in lines
      OBVIOUS
    <3>. HIDE DEF Line, lines
    <3>. QED
      BY <2>1, <3>1, <3>2
  <2>. QED
    BY <2>2, <2>3
<1>. QED
  BY <1>4, <1>5, <1>6

\* The spend that a receipt over all days tells of is what the last pull of each
\* day was told, in every channel, added up once - unless the deletes of two
\* pulls have overlapped at a day - and it is of one currency (ads_ingest.py
\* 47-133, roas_lines in receipts.py 435-488).
THEOREM SpendsAreTheLastPulls == AdsSpec => []SpendIsTheLastPull
<1>1. ASSUME AdsInv, SpendInv, SliceIsTheLastPull
      PROVE  SpendIsTheLastPull
  <2>. SUFFICES ASSUME NEW booked \in Consults, NEW b \in RoasLines(1, adDay, booked).blended
                PROVE  /\ Cardinality({r.figure.currency : r \in adsRows}) = 1
                       /\ mixed = {} => b.spend = ToldOn(Names \X AdDays)
    BY <1>1 DEF SpendIsTheLastPull, ToldOn
  <2>. QED
    BY <1>1, BlendedIs, LinesAreStored, ToldIsStored
<1>. QED
  BY <1>1, AdsInvariant, SpendInvariant, SlicesAreTheLastPulls, PTL
=============================================================================
