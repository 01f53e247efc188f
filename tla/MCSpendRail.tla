----------------------------- MODULE MCSpendRail -----------------------------
(* Jobs of one site: two trackers, one asking for deeper results, and a gap   *)
(* job; and, two at a time, briefs and refreshes.                             *)
EXTENDS SpendRail, TLC

CONSTANTS t1, t2, g1, b1, b2, r1, r2

Shallow == [q |-> "a", depth |-> 10]
Deep    == [q |-> "a", depth |-> 100]
Other   == [q |-> "b", depth |-> 10]

TwoLists == (t1 :> <<Shallow, Other>>) @@ (t2 :> <<Deep, Other>>)
              @@ (b1 :> <<Shallow>>) @@ (b2 :> <<Shallow>>)
Questions == (b1 :> {"a", "b"}) @@ (b2 :> {"a"})
TwoCompetitors == (g1 :> 2)
Rivals == (r1 :> {"x", "y"}) @@ (r2 :> {"y"})

Meetings == {{t1, t2, g1}, {t1, b1}, {b1, b2}, {r1, r2}, {b2, r1}}
Alone == {{t1}}

=============================================================================
