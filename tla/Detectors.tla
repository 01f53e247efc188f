------------------------------ MODULE Detectors ------------------------------
(***************************************************************************)
(* What the opportunity detectors flag, as functions of the rows they are  *)
(* given: gm/intel/detectors.py (Search Console), gm/intel/labs.py (the    *)
(* keyword gap) and gm/intel/discovery.py (competitor candidates).         *)
(*                                                                         *)
(* A row of Search Console is [page, query, impressions, clicks, position] *)
(* with the position in tenths; rates are per ten thousand and compared by *)
(* cross-multiplication.  A finding is [kind, target], which is the key of *)
(* its row in the queue; what is at stake is left out.                     *)
(***************************************************************************)
EXTENDS Integers, Sequences, FiniteSets, FiniteSetsExt, SequencesExt

MIN_IMPRESSIONS         == 100
DECAY_MIN_BASE_CLICKS   == 30
FINAL_MODE_MIN_DAYS     == 28
MIN_INTERSECTIONS       == 3
MAX_COMPETITORS         == 10

\* Of the published table, the positions an outlier may have.
ExpectedCtrTable == <<2500, 1300, 900, 600, 450>>

\* Half a position rounds to the even one.
HalfEven(tenths) ==
  LET down == tenths \div 10
  IN  IF tenths % 10 > 5 \/ (tenths % 10 = 5 /\ down % 2 = 1) THEN down + 1 ELSE down

ExpectedCtr(position) == ExpectedCtrTable[Max({1, HalfEven(position)})]

Total(S, f(_)) == MapThenSumSet(f, S)

ImpressionsOf(S) == Total(S, LAMBDA r : r.impressions)
ClicksOf(S)      == Total(S, LAMBDA r : r.clicks)

StrikingDistance(rows) ==
  {[kind |-> "striking_distance", target |-> <<r.page, r.query>>] :
     r \in {x \in rows : x.position \in 50 .. 200 /\ x.impressions >= MIN_IMPRESSIONS}}

CtrOutlier(rows) ==
  {[kind |-> "ctr_outlier", target |-> <<r.page, r.query>>] :
     r \in {x \in rows :
              /\ x.position <= 50 /\ x.impressions >= MIN_IMPRESSIONS
              /\ 2 * x.clicks * 10000 < ExpectedCtr(x.position) * x.impressions}}

\* Clicks of a page over the last 28 days, the 28 before and the same of last
\* year; a window that is not wholly final is None.
Lost(cur, base, None) ==
  base # None /\ base >= DECAY_MIN_BASE_CLICKS /\ 4 * (base - cur) >= base

Decay(pages, None) ==
  {[kind |-> "decay", target |-> <<p.page>>] :
     p \in {x \in pages : x.cur # None /\ (Lost(x.cur, x.prior, None) \/ Lost(x.cur, x.yoy, None))}}

\* Queries of which two pages or more take a fifth of the impressions each.
Competing(rows, query) ==
  LET mine  == {r \in rows : r.query = query}
      total == ImpressionsOf(mine)
  IN  IF total < MIN_IMPRESSIONS THEN {} ELSE {r \in mine : 5 * r.impressions >= total}

Cannibalization(rows) ==
  {[kind |-> "cannibalization", target |-> <<q>>] :
     q \in {r.query : r \in {x \in rows : Cardinality(Competing(rows, x.query)) >= 2}}}

\* The basis and what applies to it: enough final days, wherever they lie, and
\* the 28 up to the newest of them are used; else the provider's aggregates.
Basis(finalDays) == IF finalDays >= FINAL_MODE_MIN_DAYS THEN "final" ELSE "provisional"

\* The days of a page and query as one row, positions weighted by impressions
\* (and by nothing where there are none).
WindowRow(S) ==
  LET impressions == ImpressionsOf(S)
      r0 == CHOOSE r \in S : TRUE
  IN  [page |-> r0.page, query |-> r0.query, impressions |-> impressions,
       clicks |-> ClicksOf(S),
       position |-> IF impressions > 0
                    THEN Total(S, LAMBDA r : r.position * r.impressions) \div impressions
                    ELSE Total(S, LAMBDA r : r.position) \div Cardinality(S)]

LoadRows28d(seen) ==
  IF Basis(seen.finalDays) = "provisional" THEN seen.aggregates
  ELSE LET window == {r \in seen.daily : r.date \in seen.latestFinal - 27 .. seen.latestFinal}
       IN  {WindowRow({x \in window : x.page = r.page /\ x.query = r.query}) : r \in window}

\* One finding for each local check that fails or warns; the others are not
\* queued.
DetectLocalPresence(evaluated) ==
  {[kind |-> "local_presence", target |-> <<c>>] :
     c \in {x \in DOMAIN evaluated : evaluated[x] \in {"fail", "warn"}}}

ComputeQueue(seen, None) ==
  LET rows == LoadRows28d(seen) IN
  StrikingDistance(rows) \union CtrOutlier(rows)
    \union (IF Basis(seen.finalDays) = "final"
            THEN Decay(seen.pages, None) \union Cannibalization(rows) ELSE {})
    \union DetectLocalPresence(seen.local)

-----------------------------------------------------------------------------
(* The keyword gap: what competitors rank for and the client does not *)

\* A ranked keyword of a competitor is [domain, query, position, volume,
\* relevant]: whether it shares words enough with what the site tracks is the
\* world's choice.
KeywordGap(competitors, ranked, present, positionMax, volumeFloor) ==
  {[kind |-> "keyword_gap", target |-> <<r.query>>] :
     r \in {x \in ranked : /\ x.domain \in Range(competitors)
                           /\ x.position <= positionMax /\ x.volume >= volumeFloor
                           /\ x.query \notin present /\ x.relevant}}

-----------------------------------------------------------------------------
(* Competitor candidates: [domain, intersections, position] *)

RankedBefore(a, b) ==
  \/ a.intersections > b.intersections
  \/ a.intersections = b.intersections /\ a.position < b.position

\* The client, the configured and the great platforms are no candidates.
FilterCandidates(rows, configured, client, denied) ==
  {r \in rows : /\ r.intersections >= MIN_INTERSECTIONS
                /\ r.domain \notin configured \union client \union denied}

\* The best ranked of them.
Candidates(rows, configured, client, denied, limit) ==
  LET kept   == FilterCandidates(rows, configured, client, denied)
      ranked == SetToSortSeq(kept, RankedBefore)
      First(r) == \E i \in 1 .. Min({limit, Len(ranked)}) : ranked[i] = r
  IN  {[kind |-> "competitor_candidate", target |-> <<r.domain>>] :
         r \in {x \in kept : First(x)}}
=============================================================================
