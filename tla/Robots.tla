------------------------------- MODULE Robots -------------------------------
(***************************************************************************)
(* The robots.txt inspector, gm/audit/inspectors/robots.py: the parser     *)
(* reads the file line by line, the groups of a crawler are picked and its *)
(* access to the audited path is decided, against what RFC 9309 says of    *)
(* the same lines.                                                         *)
(*                                                                         *)
(* A product token is a sequence of parts, lower-cased, so that one is a   *)
(* prefix of another; a pattern is [size, hits], its length and whether it *)
(* matches the audited path.  Comments and blank lines are left out.       *)
(***************************************************************************)
EXTENDS Integers, Sequences, SequencesExt, FiniteSetsExt

CONSTANTS
  RobotsLines,   \* lines a file may have, see the kinds below
  MaxLines,      \* bound: lines read
  Crawlers,      \* BOTS_TO_CHECK: product tokens
  Googlebot, AiCrawlers,
  EveryCrawler   \* the token "*"

ASSUME RobotsAssumption ==
  /\ MaxLines \in Nat
  /\ {Googlebot} \union AiCrawlers \subseteq Crawlers
  /\ \A line \in RobotsLines :
       /\ line.kind \in {"user-agent", "allow", "disallow", "crawl-delay", "sitemap", "unknown"}
       /\ line.kind = "user-agent" => Len(line.token) \in Nat
       /\ line.kind \in {"allow", "disallow"} =>
            line.pattern.size \in Nat /\ line.pattern.hits \in BOOLEAN

VARIABLES
  lines,    \* what has been read of the file
  parser    \* [groups, agents, rules, lastWasAgent]: the parser's locals

robotsVars == <<lines, parser>>

RobotsInit ==
  /\ lines = <<>>
  /\ parser = [groups |-> <<>>, agents |-> <<>>, rules |-> <<>>, lastWasAgent |-> FALSE]

-----------------------------------------------------------------------------
(* The parser *)

\* Mutant: a group without rules is not kept.
CommitGroupWithRules(p) ==
  IF p.agents # <<>> /\ p.rules # <<>>
  THEN Append(p.groups, [agents |-> p.agents, rules |-> p.rules]) ELSE p.groups

\* A group that names agents is kept even without rules: it allows all.
CommitGroup(p) ==
  IF p.agents # <<>> THEN Append(p.groups, [agents |-> p.agents, rules |-> p.rules])
  ELSE p.groups

\* A user-agent line after a rule starts a new group.
Opened(p) ==
  IF p.lastWasAgent \/ (p.agents = <<>> /\ p.rules = <<>>) THEN p
  ELSE [p EXCEPT !.groups = CommitGroup(p), !.agents = <<>>, !.rules = <<>>]

Read(p, line) ==
  CASE line.kind = "user-agent" ->
         [Opened(p) EXCEPT !.lastWasAgent = TRUE,
                           !.agents = IF line.token = <<>> THEN @ ELSE Append(@, line.token)]
    [] line.kind \in {"allow", "disallow"} /\ p.agents # <<>> ->
         [p EXCEPT !.rules = Append(@, line), !.lastWasAgent = FALSE]
    [] line.kind = "crawl-delay" -> [p EXCEPT !.lastWasAgent = FALSE]
    [] OTHER -> p   \* sitemap, unknown, a rule before any agent

ReadLine ==
  /\ Len(lines) < MaxLines
  /\ \E line \in RobotsLines :
       lines' = Append(lines, line) /\ parser' = Read(parser, line)

RobotsNext == ReadLine

RobotsSpec == RobotsInit /\ [][RobotsNext]_robotsVars

-----------------------------------------------------------------------------
(* The groups of a crawler, and what they let it read *)

NamesBot(token, bot) == token # EveryCrawler /\ IsPrefix(token, bot)

\* The longest token that names the crawler, -1 when none does.
MatchLength(group, bot) ==
  Max({-1} \union {Len(t) : t \in {x \in ToSet(group.agents) : NamesBot(x, bot)}})

\* The groups among the chosen ones, in their order.  (The code lists a group that names
\* "*" twice a second time, which decides nothing anew.)
AmongGroups(groups, chosen) ==
  FlattenSeq([i \in DOMAIN groups |-> IF groups[i] \in chosen THEN <<groups[i]>> ELSE <<>>])

FindMatchingGroups(groups, bot) ==
  LET best   == Max({-1} \union {MatchLength(g, bot) : g \in ToSet(groups)})
      chosen == IF best >= 0 THEN {g \in ToSet(groups) : MatchLength(g, bot) = best}
                ELSE {g \in ToSet(groups) : EveryCrawler \in ToSet(g.agents)}
  IN  AmongGroups(groups, chosen)

\* One rule against the best so far, [size, allow].
Better(rule, best) ==
  IF rule.pattern.size = 0
  THEN IF rule.kind = "disallow" /\ best.size < 0 THEN [size |-> 0, allow |-> TRUE] ELSE best
  ELSE IF ~rule.pattern.hits THEN best
  ELSE IF rule.pattern.size > best.size
       THEN [size |-> rule.pattern.size, allow |-> rule.kind = "allow"]
  ELSE IF rule.pattern.size = best.size /\ rule.kind = "allow"
       THEN [best EXCEPT !.allow = TRUE] ELSE best

EvaluatePathAccess(groups) ==
  FoldLeft(LAMBDA best, rule : Better(rule, best), [size |-> -1, allow |-> TRUE],
           FlattenSeq([i \in DOMAIN groups |-> groups[i].rules])).allow

-----------------------------------------------------------------------------
(* The checks *)

\* What is known of each crawler once the file is read.
BotAccess(groups, bot) ==
  LET mine == FindMatchingGroups(groups, bot)
  IN  [allowed  |-> EvaluatePathAccess(mine),
       explicit |-> \E g \in ToSet(mine) : bot \in ToSet(g.agents)]

\* `body' is "none" when the fetch failed or answered an error, else "text".
InspectRobots(body, groups, sitemaps) ==
  LET bots   == [b \in Crawlers |-> BotAccess(groups, b)]
      ShutOut(S) == \E b \in S : ~bots[b].allowed
  IN  IF body = "none"
      THEN [reachable |-> "fail", declares_sitemap |-> "na", googlebot |-> "warn",
            ai_crawlers |-> "warn", target_path |-> "warn"]
      ELSE [reachable        |-> IF lines = <<>> THEN "warn" ELSE "pass",
            declares_sitemap |-> IF sitemaps # {} THEN "pass" ELSE "warn",
            googlebot        |-> IF bots[Googlebot].allowed THEN "pass" ELSE "fail",
            ai_crawlers      |-> IF ShutOut(AiCrawlers) THEN "fail"
                                 ELSE IF \A b \in AiCrawlers : bots[b].explicit THEN "pass"
                                 ELSE "warn",
            target_path      |-> IF ShutOut(Crawlers) THEN "fail" ELSE "pass"]

Sitemaps == {i \in DOMAIN lines : lines[i].kind = "sitemap"}

-----------------------------------------------------------------------------
(* Properties *)

\* RFC 9309 on the lines themselves.  An agent line heads a rule when no rule
\* comes between it and a later agent line before the rule.
Rules  == {n \in DOMAIN lines : lines[n].kind \in {"allow", "disallow", "crawl-delay"}}
Agents == {n \in DOMAIN lines : lines[n].kind = "user-agent" /\ lines[n].token # <<>>}
Heads(m, n) == m < n /\ ~\E i \in Rules, j \in DOMAIN lines :
                           m < i /\ i < j /\ j < n /\ lines[j].kind = "user-agent"

AgentsFor(bot) ==
  LET named   == {m \in Agents : NamesBot(lines[m].token, bot)}
      longest == Max({-1} \union {Len(lines[m].token) : m \in named})
  IN  IF named # {} THEN {m \in named : Len(lines[m].token) = longest}
      ELSE {m \in Agents : lines[m].token = EveryCrawler}

RfcAllows(bot) ==
  LET mine == {n \in Rules : /\ lines[n].kind # "crawl-delay"
                             /\ lines[n].pattern.size > 0 /\ lines[n].pattern.hits
                             /\ \E m \in AgentsFor(bot) : Heads(m, n)}
  IN  \/ mine = {}
      \/ \E a \in mine : /\ lines[a].kind = "allow"
                         /\ \A n \in mine : lines[n].pattern.size <= lines[a].pattern.size

\* Whatever the order and the grouping of the lines, a crawler is reported as
\* shut out exactly when the RFC shuts it out -- and a file that could not be
\* read shuts nobody out (robots.py 39-204, 216-372).
VerdictsFollowTheRfc ==
  LET groups == CommitGroup(parser)
      read   == InspectRobots("text", groups, Sitemaps)
      unread == InspectRobots("none", groups, Sitemaps)
      Shut(S) == \E b \in S : ~RfcAllows(b)
  IN  /\ read.googlebot = "fail" <=> Shut({Googlebot})
      /\ read.ai_crawlers = "fail" <=> Shut(AiCrawlers)
      /\ read.target_path = "fail" <=> Shut(Crawlers)
      /\ read.ai_crawlers = "pass" =>
           \A b \in AiCrawlers : \E m \in Agents : lines[m].token = b
      /\ "fail" \notin {unread.googlebot, unread.ai_crawlers, unread.target_path}
=============================================================================
