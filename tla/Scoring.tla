------------------------------- MODULE Scoring -------------------------------
(***************************************************************************)
(* The deterministic scores of gm/audit/scoring.py: pure operators over    *)
(* findings.  The findings of an audit are a function from check ids to    *)
(* records [status, version, by]; `by' is the evidence's source, "llm" or  *)
(* "deterministic".                                                        *)
(*                                                                         *)
(* Scores are integers in tenths of a point, as every one of them is       *)
(* rounded to one decimal.  Halves are rounded up, where Python rounds the *)
(* nearest binary fraction: the two differ on exact halves only, and alike *)
(* on both sides of every comparison made here.                            *)
(***************************************************************************)
EXTENDS Integers, Sequences, FiniteSets, FiniteSetsExt

CONSTANTS
  Checks,      \* the registry: check ids
  Letter,      \* [Checks -> category letters]
  Weight,      \* [Checks -> Nat \ {0}]
  Method,      \* [Checks -> {"llm", "comparative", "measured", "local"}]
  FixType,     \* [Checks -> fix types]
  GeoNumber    \* [Checks -> Nat]: the number of a section-I check, else 0

ASSUME RegistryAssumption ==
  /\ IsFiniteSet(Checks)
  /\ Letter \in [Checks -> {"A", "B", "C", "D", "E", "F", "G", "H", "I", "J"}]
  /\ Weight \in [Checks -> Nat \ {0}]
  /\ \A c \in Checks : (Letter[c] = "I") = (GeoNumber[c] # 0)

Statuses == {"pass", "warn", "fail", "na", "inconclusive"}

\* Twice the points of a status; na and inconclusive carry none.
StatusPoints == [pass |-> 2, warn |-> 1, fail |-> 0]

Judged == DOMAIN StatusPoints
Bad    == {"fail", "warn"}

NoScore == -1

Rounded(n, d) == (2 * n + d) \div (2 * d)

-----------------------------------------------------------------------------
(* scoring.py *)

PcrWeights == [A |-> 16, B |-> 10, C |-> 13, D |-> 16, E |-> 13,
               F |-> 13, G |-> 8, H |-> 8, J |-> 3]

BapGroups == {[numbers |-> {1, 2, 8}, weight |-> 40],
              [numbers |-> {3, 4, 7}, weight |-> 35],
              [numbers |-> {5, 6}, weight |-> 25]}

GradeTable == <<[from |-> 950, grade |-> "A+"], [from |-> 850, grade |-> "A"],
                [from |-> 800, grade |-> "B+"], [from |-> 750, grade |-> "B"],
                [from |-> 680, grade |-> "C+"], [from |-> 600, grade |-> "C"],
                [from |-> 530, grade |-> "D+"], [from |-> 450, grade |-> "D"],
                [from |-> 0, grade |-> "F"]>>

UngradeableGates ==
  {"transport_inconclusive", "unresolved_redirect", "bot_blocked",
   "http_error", "fetch_failed", "robots_blocked", "page_missing"}

Grade(score) ==
  IF score = NoScore THEN "INCONCLUSIVE"
  ELSE GradeTable[Min({i \in DOMAIN GradeTable : score >= GradeTable[i].from})].grade

\* Unknown ids are dropped, a status out of the enum counts as na.
Validated(found) ==
  [c \in DOMAIN found \intersect Checks |->
     [found[c] EXCEPT !.status = IF @ \in Statuses THEN @ ELSE "na"]]

PointsOf(found, S)  == MapThenSumSet(LAMBDA c : StatusPoints[found[c].status] * Weight[c], S)
WeightsOf(S) == MapThenSumSet(LAMBDA c : Weight[c], S)

SectionScore(found, letter) ==
  LET S == {c \in DOMAIN found : Letter[c] = letter /\ found[c].status \in Judged}
  IN  IF S = {} THEN NoScore
      ELSE Rounded(PointsOf(found, S) * 1000, 2 * WeightsOf(S))

SectionPoints(scores, L) == MapThenSumSet(LAMBDA l : scores[l] * PcrWeights[l], L)
SectionWeights(L) == MapThenSumSet(LAMBDA l : PcrWeights[l], L)

\* Renormalised over the sections with something judged.
Pcr(found) ==
  LET scores == [l \in DOMAIN PcrWeights |-> SectionScore(found, l)]
      L == {l \in DOMAIN PcrWeights : scores[l] # NoScore}
  IN  IF L = {} THEN NoScore
      ELSE Rounded(SectionPoints(scores, L), SectionWeights(L))

\* A group's mean is kept in sixths so that it stays an integer.
Bap(found) ==
  LET Members(g) == {c \in DOMAIN found : /\ GeoNumber[c] \in g.numbers
                                          /\ found[c].status \in Judged}
      Mean(g) == (300 * MapThenSumSet(LAMBDA c : StatusPoints[found[c].status], Members(g)))
                   \div Cardinality(Members(g))
      G == {g \in BapGroups : Members(g) # {}}
  IN  IF G = {} THEN NoScore
      ELSE Rounded(MapThenSumSet(LAMBDA g : Mean(g) * g.weight, G) * 10,
                   6 * MapThenSumSet(LAMBDA g : g.weight, G))

DemandCapture(pcr, bap) ==
  IF pcr = NoScore THEN NoScore
  ELSE Rounded(8 * pcr + 2 * (IF bap = NoScore THEN pcr ELSE bap), 10)

RecomputeScores(found, gate) ==
  LET clean == Validated(found)
      pcr == IF gate \in UngradeableGates THEN NoScore ELSE Pcr(clean)
      bap == Bap(clean)
  IN  [overall |-> pcr, bap |-> bap, grade |-> Grade(pcr), demand |-> DemandCapture(pcr, bap)]
=============================================================================
