------------------------------ MODULE Sitemaps ------------------------------
(***************************************************************************)
(* The sitemap inspector, gm/audit/inspectors/sitemap.py: discovery, the   *)
(* bounded walk through sitemap indexes with one set of seen files for all *)
(* of them, and the checks.                                                *)
(*                                                                         *)
(* A site is [Files -> what the file is]: [kind |-> "down"] when the fetch *)
(* fails or answers an error, "bad" when it is not a sitemap, "urlset"     *)
(* with its pages, "index" with a sequence of files.  A page is            *)
(* [answer, own, lastmod] and a name.                                      *)
(***************************************************************************)
EXTENDS Integers, Sequences, SequencesExt, FiniteSets, FiniteSetsExt

CONSTANTS
  SitemapSites,       \* sites the walk may meet
  Declarations,       \* what robots.txt may declare: sequences of files
  DefaultSitemap, IndexSitemap,
  Target,             \* the audited page
  MAX_INDEX_DEPTH, MAX_SUBSITEMAPS_PER_INDEX, SAMPLE_SIZE, FILE_LIMIT

ASSUME SitemapAssumption ==
  /\ MAX_INDEX_DEPTH \in Nat /\ MAX_SUBSITEMAPS_PER_INDEX \in Nat \ {0}
  /\ SAMPLE_SIZE \in Nat \ {0} /\ FILE_LIMIT \in Nat
  /\ \A in \in SitemapSites :
       /\ {DefaultSitemap, IndexSitemap} \subseteq DOMAIN in /\ Declarations \subseteq Seq(DOMAIN in)
       /\ \A f \in DOMAIN in : in[f].kind = "index" => in[f].files \in Seq(DOMAIN in)

VARIABLES
  site,
  roots,      \* the sitemaps that were discovered
  pending,    \* the recursion: files still to visit with their depth, first one next
  seen,
  entries,    \* [file, page]: what was read; file_url_counts is its count per file
  errors,     \* files that could not be read
  truncated

sitemapVars == <<site, roots, pending, seen, entries, errors, truncated>>

\* robots.txt, then the two usual places; Sitemap lines are not asked twice.
Discover(in, declared) ==
  IF declared # <<>>
  THEN LET sm_urls[n \in 0 .. Len(declared)] ==
             IF n = 0 THEN <<>>
             ELSE IF declared[n] \in ToSet(sm_urls[n-1]) THEN sm_urls[n-1]
             ELSE Append(sm_urls[n-1], declared[n])
       IN  sm_urls[Len(declared)]
  ELSE IF in[DefaultSitemap].kind # "down" THEN <<DefaultSitemap>>
  ELSE IF in[IndexSitemap].kind # "down" THEN <<IndexSitemap>> ELSE <<>>

Kept(files) == SubSeq(files, 1, Min({Len(files), MAX_SUBSITEMAPS_PER_INDEX}))

Visits(files, depth) == [i \in DOMAIN Kept(files) |-> [file |-> files[i], depth |-> depth]]

SitemapInit ==
  /\ site \in SitemapSites
  /\ \E declared \in Declarations : roots = Discover(site, declared)
  /\ pending = Visits(roots, 0)
  /\ truncated = (Len(roots) > MAX_SUBSITEMAPS_PER_INDEX)
  /\ seen = {} /\ entries = {} /\ errors = {}

-----------------------------------------------------------------------------
(* traverse_sitemap, one call at a time *)

\* Mutant: the depth bound cuts without a word.
TooDeepSilently(depth) == truncated

TooDeep(depth) == truncated \/ depth > MAX_INDEX_DEPTH

NextFile == Head(pending)
Fresh == pending # <<>> /\ NextFile.file \notin seen /\ NextFile.depth <= MAX_INDEX_DEPTH

\* Seen before, or too deep -- then the file is not seen either, and a shorter
\* way to it may come later.
Skip ==
  /\ pending # <<>> /\ ~Fresh
  /\ pending' = Tail(pending)
  /\ truncated' = (IF NextFile.file \in seen THEN truncated ELSE TooDeep(NextFile.depth))
  /\ UNCHANGED <<site, roots, seen, entries, errors>>

Visit(kind) == Fresh /\ site[NextFile.file].kind = kind /\ seen' = seen \union {NextFile.file}

VisitUnreadable ==
  /\ Visit("down") \/ Visit("bad")
  /\ errors' = errors \union {NextFile.file}
  /\ pending' = Tail(pending)
  /\ UNCHANGED <<site, roots, entries, truncated>>

VisitUrlset ==
  /\ Visit("urlset")
  /\ entries' = entries \union {[file |-> NextFile.file, page |-> p] : p \in site[NextFile.file].pages}
  /\ pending' = Tail(pending)
  /\ UNCHANGED <<site, roots, errors, truncated>>

\* The sub-sitemaps come before what is left of their parents.
VisitIndex ==
  /\ Visit("index")
  /\ LET subs == site[NextFile.file].files IN
     /\ pending' = Visits(subs, NextFile.depth + 1) \o Tail(pending)
     /\ truncated' = (truncated \/ Len(subs) > MAX_SUBSITEMAPS_PER_INDEX)
  /\ UNCHANGED <<site, roots, entries, errors>>

SitemapNext == Skip \/ VisitUnreadable \/ VisitUrlset \/ VisitIndex

SitemapSpec == SitemapInit /\ [][SitemapNext]_sitemapVars

-----------------------------------------------------------------------------
(* inspect_sitemap, once the walk has ended *)

\* Which entries are probed is settled by a hash: any sample of the size.
Samples == kSubset(Min({SAMPLE_SIZE, Cardinality(entries)}), entries)

\* By the share that is reachable; blocked ones are neither dead nor reachable.
SampleGrade(sample) ==
  LET Answering(a) == Cardinality({e \in sample : e.page.answer = a})
      share        == 10 * Answering("ok")
      AtLeast(n)   == share >= n * Cardinality(sample)
  IN  IF Answering("dead") > 0
      THEN IF AtLeast(9) THEN "pass" ELSE IF AtLeast(7) THEN "warn" ELSE "fail"
      ELSE IF Answering("blocked") > 0 THEN "warn" ELSE "pass"

LastmodGrade ==
  LET dated == 100 * Cardinality({e \in entries : e.page.lastmod})
      all   == Cardinality(entries)
  IN  IF all = 0 THEN "fail" ELSE IF dated >= 80 * all THEN "pass"
      ELSE IF dated >= 40 * all THEN "warn" ELSE "fail"

\* The limit is per file.
Oversized == \E f \in seen : Cardinality({e \in entries : e.file = f}) > FILE_LIMIT

Listed == {e.page.name : e \in entries}

InspectSitemap(sample) ==
  IF roots = <<>>
  THEN [reachable |-> "fail", target |-> "fail", cross_domain |-> "fail", sampled |-> "fail",
        lastmod |-> "fail", size |-> "fail"]
  ELSE [reachable    |-> IF entries = {} THEN "fail" ELSE IF errors = {} THEN "pass" ELSE "warn",
        target       |-> IF Target \in Listed THEN "pass" ELSE IF truncated THEN "warn" ELSE "fail",
        cross_domain |-> IF \A e \in entries : e.page.own THEN "pass" ELSE "warn",
        sampled      |-> SampleGrade(sample),
        lastmod      |-> LastmodGrade,
        size         |-> IF Oversized THEN "warn" ELSE "pass"]

-----------------------------------------------------------------------------
(* Properties *)

\* Files that can be reached from the discovered ones, whatever the bounds: they
\* are in every set of files that has those and, with an index, what it lists.
Sub(f) == IF site[f].kind = "index" THEN ToSet(site[f].files) ELSE {}
Closed(files) == ToSet(roots) \subseteq files /\ \A f \in files : Sub(f) \subseteq files
Reachable == {f \in DOMAIN site : \A files \in SUBSET DOMAIN site : Closed(files) => f \in files}

\* The page is said to be missing from the sitemaps only if it is missing from
\* all of them: whatever the walk left out, by its bounds or because it had
\* seen the file on another way, was read or is owned up to -- unless a file
\* could not be read, which the check forgets (sitemap.py 162-205, 313-333).
\* And what is only shielded from robots is never graded as broken.
MissingMeansMissing ==
  pending = <<>> =>
    \A sample \in Samples :
      LET checks == InspectSitemap(sample) IN
      /\ (roots # <<>> /\ checks.target = "fail" /\ errors = {}) =>
           \A f \in Reachable : site[f].kind = "urlset" =>
             Target \notin {p.name : p \in site[f].pages}
      /\ checks.reachable = "pass" => errors = {} /\ (truncated \/ Reachable \subseteq seen)
      /\ (entries # {} /\ \A e \in sample : e.page.answer # "dead") => checks.sampled # "fail"
=============================================================================
