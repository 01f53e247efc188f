-------------------------------- MODULE MCSite --------------------------------
(* What is done for one site, part by part: the page audit and two of its     *)
(* inspectors, the opportunity queue, and the content loop.  They share no    *)
(* row, so a behaviour runs one of them and the others stand still.           *)
EXTENDS AuditPipeline, Robots, Sitemaps, OpportunityQueue, ContentLoop

CONSTANT MaxRepeats   \* bound: see FewRepeats

VARIABLE part

vars == <<part, auditVars, robotsVars, sitemapVars, queueVars, loopVars>>

-----------------------------------------------------------------------------
(* The page audit: four checks, one per way a check is decided, and the jobs  *)
(* one at a time, twice for one page, over a group of two, against a          *)
(* competitor and for a draft.                                                *)

Registry == {"a1", "h1", "i1", "j5"}

LetterOf == [a1 |-> "A", h1 |-> "H", i1 |-> "I", j5 |-> "J"]
WeightOf == [a1 |-> 3, h1 |-> 1, i1 |-> 1, j5 |-> 1]
MethodOf == [a1 |-> "llm", h1 |-> "comparative", i1 |-> "llm", j5 |-> "local"]
FixOf    == [a1 |-> "sitewide_template", h1 |-> "page_html", i1 |-> "schema",
             j5 |-> "offpage_entity"]
GeoOf    == [a1 |-> 0, h1 |-> 0, i1 |-> 1, j5 |-> 0]

Page(p) == [kind |-> "page", pages |-> <<p>>]

Jobs == {<<Page("own"), Page("own")>>,
         <<[kind |-> "group", pages |-> <<"own", "own2">>]>>,
         <<Page("own"), [kind |-> "compare", pages |-> <<"own">>]>>,
         <<[kind |-> "draft", pages |-> <<"draft">>]>>}

Result(host, rank, auditable) == [host |-> host, rank |-> rank, auditable |-> auditable]

Results == {<<Result("rival", 1, TRUE), Result("own", 2, TRUE)>>,
            <<Result("own", 1, TRUE), Result("rival", 2, TRUE)>>,
            <<Result("forum", 1, FALSE), Result("rival", 2, TRUE), Result("rival", 3, TRUE)>>}

Healthy == [hops |-> <<"ok">>, bots |-> TRUE, shell |-> FALSE, soft404 |-> FALSE,
            words |-> "rich", spa |-> FALSE, gated |-> FALSE, schema |-> TRUE]

Sites == {Healthy, [Healthy EXCEPT !.hops = <<"redirect", "redirect", "ok">>],
          [Healthy EXCEPT !.hops = <<"down">>], [Healthy EXCEPT !.shell = TRUE]}

Said == [a1 |-> {"pass", "warn", "fail"}, h1 |-> {"pass", "omitted"}, i1 |-> {"fail"}, j5 |-> {}]

Entry(title, host) == [title |-> title, spelt |-> title, host |-> host,
                       rating |-> 45, votes |-> 10, url |-> "/"]
Family == [j5 |-> "presence"]
Packs  == {<< <<Entry("Rival", "rival"), Entry("Own", "own")>> >>}

-----------------------------------------------------------------------------
(* robots.txt: "g" is a prefix of <<"g", "i">>, "o" of neither.               *)

Agent(token) == [kind |-> "user-agent", token |-> token]
Rule(kind, n, hits) == [kind |-> kind, pattern |-> [size |-> n, hits |-> hits]]

FileLines == {Agent(<<"*">>), Agent(<<"g">>), Agent(<<"g", "i">>), Agent(<<>>),
              Rule("disallow", 0, FALSE), Rule("disallow", 1, TRUE),
              Rule("allow", 1, TRUE), Rule("disallow", 2, TRUE),
              [kind |-> "crawl-delay"], [kind |-> "sitemap"]}
Bots == {<<"g">>, <<"g", "i">>, <<"o">>}
TheGooglebot == <<"g">>
TheAiBots == {<<"g", "i">>, <<"o">>}
AnyBot == <<"*">>

-----------------------------------------------------------------------------
(* Sitemaps: three files, every content and every order of an index.          *)

Files == {"default", "index", "more"}
Listing(name, answer, own, dated) ==
  [name |-> name, answer |-> answer, own |-> own, lastmod |-> dated]
PageSets == {{Listing("target", "ok", TRUE, TRUE), Listing("b", "blocked", TRUE, FALSE)},
             {Listing("x", "dead", FALSE, TRUE), Listing("y", "ok", TRUE, TRUE)}}
Orders == UNION {{s \in [1 .. n -> Files] : \A m, k \in 1 .. n : s[m] = s[k] => m = k} : n \in 1 .. 3}
Contents == {[kind |-> "down"], [kind |-> "bad"]}
              \union {[kind |-> "urlset", pages |-> p] : p \in PageSets}
              \union {[kind |-> "index", files |-> s] : s \in Orders}
SiteMaps == [Files -> Contents]
Declared == {<<>>, <<"more">>, <<"more", "more", "index">>, <<"more", "index", "default">>}

-----------------------------------------------------------------------------
(* The opportunity queue and the content loop                                 *)

Row(p, q, impressions, clicks, position) ==
  [page |-> p, query |-> q, impressions |-> impressions, clicks |-> clicks,
   position |-> position]
OnDay(day, row) == [date |-> day] @@ row
Clicks(now, before, lastYear) ==
  [page |-> "p", cur |-> now, prior |-> before, yoy |-> lastYear]

\* In the window p is shown 1000 times at 7.0 and r 600 times at 9.0; day 2 is
\* before it.
Seen == {
  [daily |-> {OnDay(30, Row("p", "q", 500, 4, 60)), OnDay(3, Row("p", "q", 500, 6, 80)),
              OnDay(30, Row("r", "q", 600, 5, 90)), OnDay(2, Row("s", "q", 9000, 1, 90))},
   aggregates |-> {}, latestFinal |-> 30, finalDays |-> 28,
   pages |-> {Clicks(20, 40, NoClicks)}, local |-> << >>],
  [daily |-> {}, aggregates |-> {Row("p", "q", 1000, 10, 20)}, latestFinal |-> 0, finalDays |-> 27,
   pages |-> {}, local |-> ("J-05" :> "warn" @@ "J-06" :> "pass")]}

Keyword(q, d, position, volume, relevant) ==
  [query |-> q, domain |-> d, position |-> position, volume |-> volume, relevant |-> relevant]
Ranked == {Keyword("implants", "a", 3, 50, TRUE), Keyword("implants", "b", 3, 20, TRUE),
           Keyword("whitening", "b", 12, 40, TRUE), Keyword("implants law", "a", 1, 90, FALSE)}

Domain(d, n, position) == [domain |-> d, intersections |-> n, position |-> position]
Rows  == {Domain("a", 4, 5), Domain("b", 4, 6), Domain("own", 9, 6), Domain("few", 2, 6)}
Named == {<<>>, <<"b">>}

Pages == {Healthy, [Healthy EXCEPT !.schema = FALSE], [Healthy EXCEPT !.hops = <<"down">>]}

-----------------------------------------------------------------------------

\* A part that does not run has one initial state.
AtRest ==
  /\ IF part = "audit" THEN TRUE ELSE workload = CHOOSE jobsToRun \in Workloads : TRUE
  /\ IF part = "sitemaps" THEN TRUE
     ELSE site = [f \in Files |-> [kind |-> "down"]] /\ roots = <<>>
  /\ IF part = "queue" THEN TRUE ELSE configured = <<>>

Init ==
  /\ part \in {"audit", "robots", "sitemaps", "queue", "content"}
  /\ AtRest
  /\ AuditInit /\ RobotsInit /\ SitemapInit /\ QueueInit /\ LoopInit

Next ==
  \/ part = "audit"    /\ AuditNext   /\ UNCHANGED <<part, robotsVars, sitemapVars, queueVars, loopVars>>
  \/ part = "robots"   /\ RobotsNext  /\ UNCHANGED <<part, auditVars, sitemapVars, queueVars, loopVars>>
  \/ part = "sitemaps" /\ SitemapNext /\ UNCHANGED <<part, auditVars, robotsVars, queueVars, loopVars>>
  \/ part = "queue"    /\ QueueNext   /\ UNCHANGED <<part, auditVars, robotsVars, sitemapVars, loopVars>>
  \/ part = "content"  /\ LoopNext    /\ UNCHANGED <<part, auditVars, robotsVars, sitemapVars, queueVars>>

Spec == Init /\ [][Next]_vars

Symmetry == Permutations(Workers)

\* Bound: of the jobs of the content loop one is claimed more than once.
FewRepeats ==
  \A k, l \in Keys : /\ jobs[k].runs <= MaxRepeats + 1
                     /\ k # l => jobs[k].runs <= 1 \/ jobs[l].runs <= 1

\* Bound: of the audit jobs the last is tried again, and requests in vain are
\* counted in its first audit: no later one reads the count.  The registry
\* changes after the first.
FewRetries ==
  /\ attempts > 1 => Len(workload) = 1
  /\ cur # NoAudit /\ cur.unanswered > 0 => Len(workload) = 1 /\ rows = <<>>
  /\ audits = <<>> => \A c \in Checks : versions[c] = 1

================================================================================
