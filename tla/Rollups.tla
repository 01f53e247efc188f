------------------------------- MODULE Rollups -------------------------------
(***************************************************************************)
(* What is made of several audits: the delta of two (gm/audit/delta.py),   *)
(* the roll-up of a group of locations (gm/audit/group.py) and the gaps to *)
(* the competitors above the client (gm/audit/compare.py).                 *)
(*                                                                         *)
(* An audit row is a record with the fields status, score and found.       *)
(***************************************************************************)
EXTENDS Scoring

SitewideFixTypes == {"sitewide_template", "cms_constraint", "schema"}

-----------------------------------------------------------------------------
(* delta.py: from the findings of one audit to those of a later one *)

Neutral == {"na", "inconclusive", "absent"}

StatusIn(found, c) == IF c \in DOMAIN found THEN found[c].status ELSE "absent"

NonComparable(before, after) ==
  {c \in DOMAIN before \intersect DOMAIN after : before[c].version # after[c].version}

Comparable(before, after) ==
  (DOMAIN before \union DOMAIN after) \ NonComparable(before, after)

Resolved(before, after) ==
  {c \in Comparable(before, after) : StatusIn(before, c) \in Bad /\ StatusIn(after, c) \notin Bad}

\* Mutant: only an outright failure counts as a regression.
RegressedToFail(before, after) ==
  {c \in Comparable(before, after) : StatusIn(before, c) = "pass" /\ StatusIn(after, c) = "fail"}

Regressed(before, after) ==
  {c \in Comparable(before, after) : StatusIn(before, c) = "pass" /\ StatusIn(after, c) \in Bad}

NewIssues(before, after) ==
  {c \in Comparable(before, after) : StatusIn(before, c) \in Neutral /\ StatusIn(after, c) \in Bad}

Persisting(before, after) ==
  {c \in Comparable(before, after) : StatusIn(before, c) \in Bad /\ StatusIn(after, c) \in Bad}

ScoreChange(before, after) ==
  IF NoScore \in {before.score, after.score} THEN NoScore ELSE after.score - before.score

-----------------------------------------------------------------------------
(* group.py: rows is a sequence of audits *)

SitewideThreshold(graded) == (3 * graded + 4) \div 5

Graded(rows) == {i \in DOMAIN rows : rows[i].status = "done" /\ rows[i].score # NoScore}

Failing(rows, c) ==
  {i \in DOMAIN rows : c \in DOMAIN rows[i].found /\ rows[i].found[c].status = "fail"}

SitewideIds(rows) ==
  {c \in Checks : /\ Graded(rows) # {}
                  /\ FixType[c] \in SitewideFixTypes
                  /\ Failing(rows, c) \intersect Graded(rows) # {}
                  /\ Cardinality(Failing(rows, c) \intersect Graded(rows))
                       >= SitewideThreshold(Cardinality(Graded(rows)))}

\* Mutant: pages without a grade are left out of the residue as well.
FixQueueGraded(rows) ==
  {[check |-> c, scope |-> IF c \in SitewideIds(rows) THEN "sitewide" ELSE "per_location",
    pages |-> Failing(rows, c) \intersect Graded(rows)] :
     c \in {d \in Checks : Failing(rows, d) \intersect Graded(rows) # {}}}

\* The fix queue without its order: sitewide checks over the graded pages,
\* every other failing check over all pages it fails on.
FixQueue(rows) ==
  {[check |-> c, scope |-> "sitewide", pages |-> Failing(rows, c) \intersect Graded(rows)] :
     c \in SitewideIds(rows)}
  \union
  {[check |-> c, scope |-> "per_location", pages |-> Failing(rows, c)] :
     c \in {d \in Checks \ SitewideIds(rows) : Failing(rows, d) # {}}}

RollUp(rows) ==
  [scores |-> {rows[i].score : i \in Graded(rows)},
   graded |-> Cardinality(Graded(rows)),
   inconclusive |-> Len(rows) - Cardinality(Graded(rows)),
   queue |-> FixQueue(rows)]

-----------------------------------------------------------------------------
(* compare.py *)

\* results: a sequence of [host, rank, auditable], in the order of their rank.
\* Denylisted hosts and results that are no pages are not auditable.
Above(results, client) ==
  LET Own == {i \in DOMAIN results : results[i].host = client}
  IN  {i \in DOMAIN results : Own = {} \/ results[i].rank < results[Min(Own)].rank}

PickCompetitors(results, client, limit) ==
  LET Fit(i) == /\ i \in Above(results, client)
                /\ results[i].auditable
                /\ results[i].host # client
                /\ \A j \in 1 .. i - 1 : results[j].host = results[i].host
                                           => ~results[j].auditable
      Seen(i) == Cardinality({j \in 1 .. i - 1 : Fit(j)})
      Picked  == {i \in DOMAIN results : Fit(i) /\ Seen(i) < limit}
  IN  [n \in 1 .. Cardinality(Picked) |->
         results[CHOOSE i \in Picked : Seen(i) = n - 1].host]

\* rivals: the found fields of the competitors' finished audits.
Gaps(client, rivals) ==
  {c \in DOMAIN client :
     /\ client[c].status \in Bad
     /\ rivals # <<>>
     /\ 2 * Cardinality({i \in DOMAIN rivals : StatusIn(rivals[i], c) = "pass"}) >= Len(rivals)}
=============================================================================
