---------------------------- MODULE LocalPresence ----------------------------
(***************************************************************************)
(* The local-presence family of checks, gm/intel/local_presence.py: what   *)
(* J-05, J-06 and J-07 say of the local packs seen for a site's queries.   *)
(*                                                                         *)
(* snapshots is the newest snapshot of each active tracked query in the    *)
(* window, newest first: the sequence of the entries of its local pack,    *)
(* empty when there is no pack or its entries were not kept.  An entry is  *)
(* a record of the fields it shows, among                                  *)
(*   [title, spelt, phone, dialled, host, rating, votes, url]              *)
(* where `spelt' and `dialled' are the name and phone as written, `title'  *)
(* and `phone' the same folded, and rating is in tenths.                   *)
(***************************************************************************)
EXTENDS Integers, Sequences, FiniteSets, FiniteSetsExt, SequencesExt

CONSTANTS
  SiteHosts,    \* the site's domain and its subdomains
  BrandTerms    \* folded brand terms

CoreFields == {"title", "rating", "votes", "phone", "url"}

Shown(e, field) == field \in DOMAIN e

EntryIsYou(e) ==
  (Shown(e, "title") /\ e.title \in BrandTerms) \/ (Shown(e, "host") /\ e.host \in SiteHosts)

\* The sightings: packs with entries, each with the entry that is the site's.
You(entries) == SelectSeq(entries, EntryIsYou)

CollectLocalPack(snapshots) ==
  LET seen == SelectSeq(snapshots, LAMBDA s : s # <<>>)
  IN  [sightings |-> seen,
       yours     |-> SelectSeq(seen, LAMBDA s : You(s) # <<>>)]

EvalGbpPresence(pack) ==
  CASE pack.sightings = <<>> -> "inconclusive"
    [] pack.yours = <<>> /\ pack.sightings # <<>> -> "fail"
    [] OTHER -> LET e == You(pack.yours[1])[1] IN
                IF \A f \in CoreFields : Shown(e, f) THEN "pass" ELSE "warn"

\* One identity: folded names and phones agree and no entry is on another host.
EvalNapConsistency(pack) ==
  LET yours == {You(pack.yours[i])[1] : i \in DOMAIN pack.yours}
      Seen(field) == {e[field] : e \in {x \in yours : Shown(x, field)}}
  IN  CASE Len(pack.yours) < 2 -> "inconclusive"
        [] \/ Cardinality(Seen("title")) > 1 \/ Cardinality(Seen("phone")) > 1
           \/ Seen("host") \ SiteHosts # {} -> "fail"
        [] OTHER -> IF Cardinality(Seen("spelt")) > 1 \/ Cardinality(Seen("dialled")) > 1
                    THEN "warn" ELSE "pass"

\* Twice the median of the values the entries show under a field.
MedianTwice(entries, field) ==
  LET s == SelectSeq(entries, LAMBDA e : Shown(e, field))
      v == SortSeq([i \in DOMAIN s |-> s[i][field]], LAMBDA a, b : a < b)
      n == Len(v)
  IN  IF n % 2 = 1 THEN 2 * v[(n + 1) \div 2] ELSE v[n \div 2] + v[n \div 2 + 1]

\* Half a point below the median rating, or under half the median votes, fails.
EvalReviewSignal(pack) ==
  IF pack.yours = <<>> THEN "inconclusive"
  ELSE LET entries == pack.yours[1]
           at   == Min({i \in DOMAIN entries : EntryIsYou(entries[i])})
           you  == entries[at]
           them == RemoveAt(entries, at)
           Some(field) == \E i \in DOMAIN them : Shown(them[i], field)
       IN  IF ~(Shown(you, "rating") /\ Shown(you, "votes") /\ Some("rating") /\ Some("votes"))
           THEN "inconclusive"
           ELSE LET rating == MedianTwice(them, "rating")
                    votes  == MedianTwice(them, "votes")
                IN  IF 2 * you.rating >= rating /\ 2 * you.votes >= votes THEN "pass"
                    ELSE IF 2 * you.rating < rating - 10 \/ 4 * you.votes < votes THEN "fail"
                    ELSE "warn"

EvaluateLocalPresence(snapshots) ==
  LET pack == CollectLocalPack(snapshots)
  IN  [presence |-> EvalGbpPresence(pack), nap |-> EvalNapConsistency(pack),
       reviews |-> EvalReviewSignal(pack)]
=============================================================================
