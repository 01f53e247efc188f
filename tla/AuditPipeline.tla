---------------------------- MODULE AuditPipeline ----------------------------
(***************************************************************************)
(* The audits of one site: the five-stage page audit and the draft audit   *)
(* of gm/audit/pipeline.py, the group audit of gm/audit/group.py and the   *)
(* comparison of gm/audit/compare.py, over the call budget of              *)
(* gm/infra/llm.py.                                                        *)
(*                                                                         *)
(* A job runs in one transaction, and what it wrote is seen by others only *)
(* once it commits: `rows' are the audits of the job that runs, `audits'   *)
(* those of the jobs before it.  The jobs of the site run one after the    *)
(* other; a job that meets a database error leaves nothing behind and is   *)
(* tried again.                                                            *)
(***************************************************************************)
EXTENDS Rollups, BotsEyeView, LocalPresence, SequencesExt

CONSTANTS
  Workloads,     \* sequences of jobs [kind, pages]; a page is its host too
  Snapshots,     \* search results a comparison may meet
  Client,        \* the site's own pages
  Worlds,        \* what a page may serve (see BotsEyeView)
  Answers,       \* [Checks -> what the classifier may say], "omitted" included
  LocalFamily,   \* [the local checks -> "presence", "nap" or "reviews"]
  LocalPacks,    \* snapshots the site's queries may have (see LocalPresence)
  CrawlOnly,     \* checks a draft has no evidence for
  Cap, Estimate, \* the cost cap of an audit, the worst case of one call
  MAX_RETRIES,   \* of a request that met a timeout or an overloaded provider
  Prices,        \* what a call may turn out to cost
  Revised,       \* checks a later registry revises
  MaxVersion,    \* bound: versions of a check
  MaxAttempts    \* attempts of a job

ASSUME AuditAssumption ==
  /\ Cap \in Nat /\ Estimate \in Nat /\ Prices \subseteq Nat /\ IsFiniteSet(Prices)
  /\ MAX_RETRIES \in Nat
  /\ MaxVersion \in Nat /\ MaxAttempts \in Nat \ {0}

VARIABLES
  workload,      \* jobs still to run
  attempts,   \* attempts the first of them has had
  versions,   \* [Checks -> Nat]: the check versions of the deployed registry
  audits,     \* the committed audits rows, in the order of their creation
  freshFrom,  \* audits from this one on are younger than fourteen days
  rollups,    \* committed group summaries: the audits they are made of, and the roll-up
  gaps,       \* committed comparisons: the client's audit, the rivals' and the gaps
  job,        \* the job that runs, or Idle
  rows,       \* the audits of that job
  cur         \* the audit it works on, or NoAudit

auditVars == <<workload, attempts, versions, audits, freshFrom, rollups, gaps, job, rows, cur>>

Idle    == [kind |-> "none"]
NoAudit == [stage |-> "none"]

Letters == <<"A", "B", "C", "D", "E", "F", "G", "H", "I", "J">>

AuditInit ==
  /\ workload \in Workloads
  /\ attempts = 0
  /\ versions = [c \in Checks |-> 1]
  /\ audits = <<>> /\ freshFrom = 1 /\ rollups = {} /\ gaps = {}
  /\ job = Idle /\ rows = <<>> /\ cur = NoAudit

-----------------------------------------------------------------------------
(* The jobs *)

\* The newest finished audit of the page that is not a competitor's.
FreshClientAudit(page) ==
  LET own == {i \in freshFrom .. Len(audits) :
                /\ audits[i].page = page
                /\ audits[i].status = "done"
                /\ audits[i].gate # "competitor_reference"}
  IN  IF own = {} THEN 0 ELSE Max(own)

BeginPages ==
  /\ Head(workload).kind \in {"page", "draft", "group"}
  /\ job' = [kind |-> Head(workload).kind, todo |-> Head(workload).pages, client |-> 0, rivals |-> {}]

BeginComparison ==
  /\ Head(workload).kind = "compare"
  /\ LET page == Head(workload).pages[1] IN
     \E results \in Snapshots :
       LET rivals == PickCompetitors(results, page, 3)
           known  == FreshClientAudit(page)
       IN  job' = [kind   |-> "compare",
                   todo   |-> IF known = 0 THEN <<page>> \o rivals ELSE rivals,
                   client |-> IF known = 0 THEN Len(audits) + 1 ELSE known,
                   rivals |-> {rivals[i] : i \in DOMAIN rivals}]

BeginJob ==
  /\ job = Idle /\ workload # <<>>
  /\ BeginPages \/ BeginComparison
  /\ attempts' = attempts + 1
  /\ UNCHANGED <<workload, versions, audits, freshFrom, rollups, gaps, rows, cur>>

\* Search results for a page: there are some when it has a tracked rank with a
\* snapshot.  Only the page job looks for them.
SerpContextForPage == IF job.kind = "page" THEN BOOLEAN ELSE {FALSE}

\* The audits row is created as running.  Of what the provider may have been
\* paid, `booked' is in the books, `refused' is the price of an answer that met
\* the cap, and `unanswered' counts the requests that brought no usable answer.
Started(stage, serp) ==
  [stage |-> stage, page |-> Head(job.todo), gate |-> "", serp |-> serp,
   found |-> << >>, left |-> {}, booked |-> 0, refused |-> 0, unanswered |-> 0,
   capHit |-> FALSE]

CreateAudit ==
  /\ job # Idle /\ job.kind # "draft" /\ cur = NoAudit /\ job.todo # <<>>
  /\ \E serp \in SerpContextForPage : cur' = Started("acquire", serp)
  /\ job' = [job EXCEPT !.todo = Tail(@)]
  /\ UNCHANGED <<workload, attempts, versions, audits, freshFrom, rollups, gaps, rows>>

\* A draft has no page to acquire.
CreateDraftAudit ==
  /\ job # Idle /\ job.kind = "draft" /\ cur = NoAudit /\ job.todo # <<>>
  /\ cur' = Started("evidence", FALSE)
  /\ job' = [job EXCEPT !.todo = Tail(@)]
  /\ UNCHANGED <<workload, attempts, versions, audits, freshFrom, rollups, gaps, rows>>

-----------------------------------------------------------------------------
(* The stages of an audit *)

\* The only write that ends an audit; a competitor's is tagged afterwards.
Finish(status, gate, found, score) ==
  /\ rows' = Append(rows,
       [page |-> cur.page, status |-> status, found |-> found, score |-> score,
        gate |-> IF cur.page \in job.rivals THEN "competitor_reference" ELSE gate,
        graded |-> gate, versions |-> versions])
  /\ cur' = NoAudit

Ungradeable(gate) ==
  Finish("inconclusive", gate, << >>, RecomputeScores(<< >>, gate).overall)

Acquire ==
  /\ cur.stage = "acquire"
  /\ \E world \in Worlds :
       LET outcome == Fetch(world.hops) IN
       CASE Raises(outcome) -> Ungradeable("transport_inconclusive")
         [] outcome = "ok"  -> cur' = [cur EXCEPT !.stage = "evidence"] /\ UNCHANGED rows
         [] OTHER           -> Ungradeable(TransportClass[outcome])
  /\ UNCHANGED <<workload, attempts, versions, audits, freshFrom, rollups, gaps, job>>

Decided(S, status) ==
  [c \in S |-> [status |-> status, version |-> versions[c], by |-> "deterministic"]]

Fallback(S) == Decided(S, "inconclusive")

\* Findings over earlier ones.
Over(found, earlier) ==
  [c \in DOMAIN found \union DOMAIN earlier |->
     IF c \in DOMAIN found THEN found[c] ELSE earlier[c]]

LocalChecks == DOMAIN LocalFamily

\* The family grades the client's own pages only, and its evaluation may crash.
LocalOverrides ==
  IF cur.page \notin Client THEN {Decided(LocalChecks, "na")}
  ELSE {Fallback(LocalChecks)} \union
       {[c \in LocalChecks |->
           Decided({c}, EvaluateLocalPresence(snapshots)[LocalFamily[c]])[c]] :
         snapshots \in LocalPacks}

\* Comparative checks need search results to be judged.
PageOverrides ==
  LET comparative == IF cur.serp THEN {} ELSE {c \in Checks : Method[c] = "comparative"}
  IN  {Over(Decided(comparative, "na"), local) : local \in LocalOverrides}

DraftOverrides ==
  Decided({c \in Checks : Method[c] \in {"comparative", "measured"}} \union CrawlOnly, "na")

Classified(gate, overrides) ==
  cur' = [cur EXCEPT !.stage = "classify", !.gate = gate, !.found = overrides,
                     !.left = {Letter[c] : c \in Checks \ DOMAIN overrides}]

\* The probes run after the page was acquired and may meet another page; when
\* they crash the audit goes on as if the page were fit to be graded.
CollectEvidence ==
  /\ cur.stage = "evidence" /\ job.kind # "draft"
  /\ \E world \in Worlds, crash \in BOOLEAN :
       LET gate == IF \/ crash \/ View(world).raised
                      \/ View(world).class \notin UngradeableGates
                   THEN "ok" ELSE View(world).class
       IN  IF gate = "ok" THEN /\ \E overrides \in PageOverrides : Classified("ok", overrides)
                               /\ UNCHANGED rows
           ELSE Ungradeable(gate)
  /\ UNCHANGED <<workload, attempts, versions, audits, freshFrom, rollups, gaps, job>>

CollectDraftEvidence ==
  /\ cur.stage = "evidence" /\ job.kind = "draft"
  /\ Classified("draft", DraftOverrides)
  /\ UNCHANGED <<workload, attempts, versions, audits, freshFrom, rollups, gaps, job, rows>>

NextLetter == Letters[Min({i \in DOMAIN Letters : Letters[i] \in cur.left})]

ChecksOf(letter) == {c \in Checks \ DOMAIN cur.found : Letter[c] = letter}

\* The letter is done with: its checks are left without an answer.
WithoutAnswer ==
  [cur EXCEPT !.found = Over(Fallback(ChecksOf(NextLetter)), @), !.left = @ \ {NextLetter}]

\* Once the cap was met the provider is asked no more.
PassOver == cur' = WithoutAnswer

\* Mutant: a request is tried once more than MAX_RETRIES.
CallFailsLate ==
  \E n \in 0 .. MAX_RETRIES + 2 : cur' = [WithoutAnswer EXCEPT !.unanswered = @ + n]

\* No answer after the retries, or one that cannot be read: the provider may
\* have been paid for every request that reached it, and nothing is booked.
CallFails ==
  \E n \in 0 .. MAX_RETRIES + 1 : cur' = [WithoutAnswer EXCEPT !.unanswered = @ + n]

\* Mutant: the letters after the one that met the cap are skipped.
CapReachedOnce(unpaid, lost) ==
  cur' = [WithoutAnswer EXCEPT !.left = {}, !.capHit = TRUE,
                               !.refused = @ + unpaid, !.unanswered = @ + lost]

\* Mutant: the cap is not remembered and the next letter is asked again.
CapReachedForgotten(unpaid, lost) ==
  cur' = [WithoutAnswer EXCEPT !.refused = @ + unpaid, !.unanswered = @ + lost]

\* A charge that meets the cap is neither counted nor booked: the provider has
\* answered by then, and the answer is thrown away.
CapReached(unpaid, lost) ==
  cur' = [WithoutAnswer EXCEPT !.capHit = TRUE,
                               !.refused = @ + unpaid, !.unanswered = @ + lost]

\* Checks the answer omits, and all of them when it is no list, fall back.
MergeCategoryResult(answer) ==
  [c \in DOMAIN answer |->
     IF answer[c] \in Statuses
     THEN [status |-> answer[c], version |-> versions[c], by |-> "llm"]
     ELSE Fallback({c})[c]]

AnswersTo(S) == {a \in [S -> UNION {Answers[c] : c \in S}] : \A c \in S : a[c] \in Answers[c]}

\* The answer came after `lost' requests that brought none.
Complete(price, lost) ==
  IF cur.booked + price > Cap THEN CapReached(price, lost)
  ELSE \E answer \in AnswersTo(ChecksOf(NextLetter)) :
         cur' = [cur EXCEPT !.found = Over(MergeCategoryResult(answer), @),
                            !.left = @ \ {NextLetter},
                            !.booked = @ + price, !.unanswered = @ + lost]

ClassifyChecks ==
  /\ cur.stage = "classify" /\ cur.left # {}
  /\ IF cur.capHit THEN PassOver
     ELSE IF cur.booked + Estimate > Cap THEN CapReached(0, 0)
     ELSE CallFails \/ \E price \in Prices, lost \in 0 .. MAX_RETRIES : Complete(price, lost)
  /\ UNCHANGED <<workload, attempts, versions, audits, freshFrom, rollups, gaps, job, rows>>

GradeAndPersist ==
  /\ cur.stage = "classify" /\ cur.left = {}
  /\ LET found == Validated(cur.found)
     IN  Finish("done", cur.gate, found, RecomputeScores(found, cur.gate).overall)
  /\ UNCHANGED <<workload, attempts, versions, audits, freshFrom, rollups, gaps, job>>

\* Any exception of a stage that leaves the transaction usable.
StageFails ==
  /\ cur # NoAudit
  /\ Finish("failed", "pipeline_error", << >>, NoScore)
  /\ UNCHANGED <<workload, attempts, versions, audits, freshFrom, rollups, gaps, job>>

-----------------------------------------------------------------------------
(* The end of a job *)

All == audits \o rows

Members == [i \in 1 .. Len(rows) |-> Len(audits) + i]

AssembleGroup ==
  IF job.kind = "group"
  THEN rollups' = rollups \union {[members |-> Members, rollup |-> RollUp(rows)]}
  ELSE UNCHANGED rollups

\* Rivals are audited after the client, in the order of their rank.
Compare ==
  IF job.kind = "compare"
  THEN LET audited == {i \in Len(audits) + 1 .. Len(All) :
                         All[i].page \in job.rivals /\ All[i].status = "done"}
           rivals  == SetToSortSeq(audited, LAMBDA x, y : x < y)
       IN  gaps' = gaps \union
             {[client |-> job.client, rivals |-> rivals,
               gaps |-> Gaps(All[job.client].found,
                             [i \in DOMAIN rivals |-> All[rivals[i]].found])]}
  ELSE UNCHANGED gaps

EndJob ==
  /\ job # Idle /\ cur = NoAudit /\ job.todo = <<>>
  /\ AssembleGroup /\ Compare
  /\ audits' = All
  /\ job' = Idle /\ rows' = <<>> /\ workload' = Tail(workload) /\ attempts' = 0
  /\ UNCHANGED <<versions, freshFrom, cur>>

\* A database error or a crash: the transaction takes everything with it.
JobFails ==
  /\ job # Idle
  /\ job' = Idle /\ rows' = <<>> /\ cur' = NoAudit
  /\ IF attempts < MaxAttempts THEN UNCHANGED <<workload, attempts>>
     ELSE workload' = Tail(workload) /\ attempts' = 0
  /\ UNCHANGED <<versions, audits, freshFrom, rollups, gaps>>

\* A new registry is deployed: the workers are restarted with it.
Deploy(c) ==
  /\ job = Idle /\ versions[c] < MaxVersion
  /\ versions' = [versions EXCEPT ![c] = @ + 1]
  /\ UNCHANGED <<workload, attempts, audits, freshFrom, rollups, gaps, job, rows, cur>>

FortnightPasses ==
  /\ job = Idle /\ freshFrom <= Len(audits)
  /\ freshFrom' = Len(audits) + 1
  /\ UNCHANGED <<workload, attempts, versions, audits, rollups, gaps, job, rows, cur>>

AuditNext ==
  \/ BeginJob \/ CreateAudit \/ CreateDraftAudit
  \/ Acquire \/ CollectEvidence \/ CollectDraftEvidence
  \/ ClassifyChecks \/ GradeAndPersist \/ StageFails \/ EndJob \/ JobFails
  \/ FortnightPasses \/ \E c \in Revised : Deploy(c)

AuditSpec == AuditInit /\ [][AuditNext]_auditVars

-----------------------------------------------------------------------------
(* Properties *)

Finding == [status : Statuses, version : 1 .. MaxVersion, by : {"llm", "deterministic"}]

RowTypeOK(row) ==
  /\ row.status \in {"done", "failed", "inconclusive"}
  /\ DOMAIN row.found \subseteq Checks
  /\ \A c \in DOMAIN row.found : row.found[c] \in Finding
  /\ row.score \in NoScore .. 1000

\* Types.  What is committed is in a terminal status: no audit is left running.
AuditTypeOK ==
  /\ attempts \in 0 .. MaxAttempts
  /\ versions \in [Checks -> 1 .. MaxVersion]
  /\ freshFrom \in 1 .. Len(audits) + 1
  /\ \A i \in DOMAIN All : RowTypeOK(All[i])
  /\ \A g \in gaps : g.client \in DOMAIN audits /\ g.gaps \subseteq Checks
  /\ (job = Idle) => (rows = <<>> /\ cur = NoAudit)

\* Whatever calls failed, whichever answers were short and wherever the cap was
\* met, a done audit has a finding for every check of the registry it ran
\* under, and its score is the one its stored findings give; an audit that is
\* not done has neither findings nor a score (pipeline.py 398-455, 596-623).
DoneIsWhole ==
  \A i \in DOMAIN All :
    LET row == All[i] IN
    IF row.status = "done"
    THEN /\ DOMAIN row.found = Checks
         /\ \A c \in Checks : row.found[c].version = row.versions[c]
         /\ row.score = RecomputeScores(row.found, row.graded).overall
    ELSE row.found = << >> /\ row.score = NoScore

\* The cost cap of an audit holds for the money that is booked only.  Beyond it
\* the provider was paid for at most one answer, the one whose charge met the
\* cap, and for the requests that brought none: at most MAX_RETRIES + 1 for each
\* letter that is done with, nothing for one that is still to come
\* (llm.py 96-111, 158-218, 245-278, pipeline.py 425-450).
UnbookedIsBounded ==
  cur # NoAudit =>
    /\ cur.booked <= Cap
    /\ cur.refused \in Prices \union {0}
    /\ cur.unanswered <= (MAX_RETRIES + 1) * Cardinality(Range(Letter) \ cur.left)

\* A score that fell between two audits of a page is accounted for: the delta
\* names a check that regressed, is new or cannot be compared, or the fall has
\* one of two causes the delta does not tell from no change at all: a check
\* that persists fell from warn to fail, or one that had points is no longer
\* judged.  Nothing else lowers a score: not an issue that is resolved or drops
\* out, not a section that empties or comes in, not the rounding of the section
\* scores and of their mean (delta.py 96-126, scoring.py 296-343).
FallIsAccountedFor ==
  \A i, j \in DOMAIN audits :
    LET before == audits[i]
        after  == audits[j]
        change == ScoreChange(before, after)
    IN  (/\ i < j /\ before.page = after.page /\ before.status = "done" /\ after.status = "done"
         /\ NoScore \notin {before.score, after.score} /\ change < 0)
        => \/ Regressed(before.found, after.found) # {}
           \/ NewIssues(before.found, after.found) # {}
           \/ NonComparable(before.found, after.found) # {}
           \/ \E c \in Persisting(before.found, after.found) :
                before.found[c].status = "warn" /\ after.found[c].status = "fail"
           \/ \E c \in Checks : /\ StatusIn(before.found, c) \in {"pass", "warn"}
                                /\ StatusIn(after.found, c) \in Neutral

\* Each check that fails on a page of a group is in the fix queue once, with
\* that page -- except a check found sitewide, which leaves out the pages that
\* have findings but no grade (group.py 245-281).
NoFailureDropped ==
  \A r \in rollups :
    LET group == [i \in DOMAIN r.members |-> audits[r.members[i]]] IN
    \A i \in DOMAIN group : \A c \in DOMAIN group[i].found :
      group[i].found[c].status = "fail" =>
        LET entries == {e \in r.rollup.queue : e.check = c}
        IN  /\ Cardinality(entries) = 1
            /\ \A e \in entries : i \in e.pages
                 \/ (e.scope = "sitewide" /\ group[i].score = NoScore)
=============================================================================
