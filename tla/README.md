# GrowthMonk platform: TLA+ models, model checks and proofs

This directory models the platform under `src/platform/src/gm` (Python, one
PostgreSQL database, `gm worker` processes, an API and a command line). The
paths below are relative to `src/platform/src/gm` unless they begin with
`src/` or `ops/` or `docs/` (both under `src/`).

Everything the platform does over time goes through one table of jobs: a
scheduler inserts them, workers claim them under a lease, a handler does its
work in a second database transaction and pays external services on the way.
The hard part of the system is what happens when those three - the row of the
job, the transaction of the handler, the outside world - come apart. The models
are about that.

## Inventory

| Part | State it keeps | Operations | Talks to | What makes it correct |
|---|---|---|---|---|
| Job queue (`infra/jobs.py`, retry in `api.py`) | `jobs` rows: status, attempts, owner, lease, run_after, key | enqueue, claim, heartbeat, complete, fail, reap, operator retry; the worker's commit | everybody | done means committed by the latest claim; quota of attempts exact; a live lease is respected; nothing is stranded |
| Scheduler (`infra/scheduler.py`) | `schedules.next_run_at`, a session's advisory lock | elect, sweep, enqueue a tick, advance | job queue | one effective leader; no tick lost or doubled; late, never bunched; no drift |
| Citation sampling (`intel/sampler.py`, `infra/costs.py`) | `citation_runs`, `citation_results`, `cost_events` | enqueue_run, the sampling handler | job queue, engines | books equal stored answers; a done run is complete; nothing stored is bought twice |
| Spend rail (`intel/spend.py`, `intel/serp.py`, `intel/rank_tracker.py`, `intel/labs.py`, `intel/competitors.py`, the buying half of `content/briefs.py`) | `cost_events`, `serp_snapshots`, `keyword_metrics`, `competitor_profiles`, `rank_history` | guard, reuse-before-buy, buy, refuse | DataForSEO, job queue | the monthly cap; no purchase while a fresh row serves; no refusal passed over |
| Monthly receipts (`core/schedules.py`, `delivery/receipts.py`, `gm receipt`) | `schedules`, `jobs` keys, `site_deltas` | first tick, tick, thin job, assemble, by hand | scheduler, job queue | a delivered receipt shows the whole month; one tick, one period; no month missed |
| Content loop (`content/*`, `delivery/wordpress.py`, `delivery/verify.py`) | `content_items.status`, `drafts`, `publish_events` | brief, close_fixes, publish, verify early and late, compute_delta | WordPress, engines, job queue | the status tells the truth whatever the order of the four jobs; no unrecorded post |
| Search Console ingest (`intel/gsc_ingest.py`) | `gsc_daily`, `gsc_page_daily`, `gsc_ingest_log`, `quota_ledgers` | initial pull, backfill chain, daily re-pull | Search Console, job queue | each day's slice is one pull's; the chain ends with every day final; the row cap |
| Page audit (`audit/*`, `infra/llm.py`) | `audits`, `audit_findings`, group summaries, comparisons | page, draft, group audit, compare, delta | pages, LLM gateway | every audit row ends terminal and whole; the cost cap; scores, deltas and roll-ups match their definition |
| Site inspectors (`audit/inspectors/robots.py`, `sitemap.py`) | - | parse, match, walk, grade | page audit | a verdict follows the RFC; what was not read is not reported missing |
| Opportunity queue (`intel/detectors.py`, `intel/labs.py`, `intel/discovery.py`) | `queue_items`, `sites.competitor_domains` | detect and upsert, keyword gap, discovery, confirm, dismiss, set-competitors | ingest, audit, spend rail | what was dismissed or done stays so, what returns is seen |
| Competitor intelligence (`intel/competitors.py`, `intel/feature_share.py`, `intel/variance.py`) | `competitor_profiles` | refresh, assemble | spend rail | no needless purchase; assembly of stored rows |
| Ads ingest (`intel/ads_ingest.py`, `connections/ads.py`, paid lines of `delivery/receipts.py`) | `ads_daily`, connections | daily pull, pull by hand, connect | ad platforms | a day holds one pull's rows; no sum over currencies |
| Leads (`delivery/whatsapp.py`, `delivery/leadcard.py`, webhook in `api.py`) | `booked_leads` | inbound webhook, weekly card | WhatsApp, job queue | one lead for each message; a card a week |
| Console, shares, evidence, report (`delivery/*`) | - | read and render | all tables | no state over time |
| LLM gateway, engine adapters (`infra/llm.py`, `intel/engines`) | - | one call with retries | external services | callers see an answer, a refusal or an error |
| Vault, configuration, CLI, migrations | credentials, schema | one transaction each | - | no behaviour over time |

Behaviours that are hard here, and where they bite, are listed as hazards in
`PROJECT.json`, each with the properties that cover it or the reason why none
does: leases that expire under a running handler, commits no fence guards,
crashes between two autocommitted statements, sessions lost with the lock they
hold, rollbacks that cannot return money, checks read before and used after
concurrent commits, cadences against calendars.

## Modules

| Module | Models | State and actions against the code |
|---|---|---|
| `JobQueue` | `infra/jobs.py`, `admin_retry_job` | One function per column of `jobs`; each SQL statement is one action (they autocommit). A worker's program counter stands for where `run_forever` / `run_once` / `_run_job` is: `top`, `poll`, `working` (handler running), `committed`, `failed`. `Commit` is a step of its own and asks nobody; its answer may be lost. `Crash` stands for kills and for the database errors nothing catches. The clock is kept relative (`lockedFor`, `dueIn`). |
| `JobLifecycle` | what the queue promises | `absent -> queued -> running -> done / dead`, a quota of runs, the effects of any past run may appear at any time, finished only by the latest run. |
| `Scheduler` | `infra/scheduler.py` | `EnqueueTick`, `ReadClock` and `Advance` are the three statements of the sweep. `SessionLost` ends a session anywhere; the lock goes with it at once, or lingers until `ServerNotices`. |
| `Sampler` | `intel/sampler.py`, `infra/costs.py` | EXTENDS `JobQueue`: the handler replaces the queue's anonymous work. `Begin` takes the lock on the run's row, `Beat` is the queue's `Heartbeat`, `Sample` a call to an engine, `CommitRun` the queue's `Commit` plus the tables, `Raise` and `CrashSampling` roll back. What was paid for stays paid (`paid`). |
| `SpendRail` | `intel/spend.py`, `intel/serp.py`, `intel/rank_tracker.py`, `intel/labs.py`, `intel/competitors.py`, `content/briefs.py` | A job's transaction sees the committed ledger and its own uncommitted costs. A snapshot has the depth it was read at, and serves a query of at most that depth (`Serves`). The look into the cache, the guard and the call are separate steps. A rollback forgets everything but the money. Four kinds of job: trackers and briefs are guarded at each snapshot, a brief takes a refusal of its volumes for a note, a gap job is guarded once for all its calls, a refresh of profiles never. `Together` says which jobs meet. |
| `MonthlyReceipts` | `core/schedules.py`, `delivery/receipts.py`, `gm receipt` | Days of a real calendar, starting in any month of `StartMonths`, leap year or not. The scheduler's catch-up rule, the job's `created_at`, the receipt's key. |
| `BotsEyeView` | `audit/fetch.py`, `audit/bev.py` | A page as redirect hops, what bots and browsers are served, soft 404, words, shell, gate; `Fetch` and `View` are the outcome of the transport and the readability class. |
| `Scoring` | `audit/scoring.py` | Grade validation, category and overall scores as integers per mille, the gates that end without a grade. |
| `Rollups` | `audit/delta.py`, `audit/group.py`, `audit/compare.py` | Audit delta, sitewide roll-up and fix queue, picking of competitors and gaps, as operators on findings. |
| `LocalPresence` | `intel/local_presence.py` | Identity of an entry of a local pack and the statuses of the presence checks. |
| `AuditPipeline` | `audit/pipeline.py`, `infra/llm.py`, handlers of `audit/group.py`, `audit/compare.py` | EXTENDS the four above. `cur` is the audit under way and its stage, `rows` what the job's transaction has written, `audits` what is committed. One call for each letter of the registry (`ClassifyChecks`), with the cap checked before it against an estimate and after it against its price. `CallFails` is a call without a usable answer: up to `MAX_RETRIES + 1` requests the provider may have been paid for, none of them charged or booked; an answer may follow such requests too (`Complete`). `Deploy` changes versions between jobs. |
| `Robots` | `audit/inspectors/robots.py` | The parser line by line (`ReadLine`), the choice of groups and of the rule, the graded verdicts. A user agent is a sequence, so that prefixes exist. |
| `Sitemaps` | `audit/inspectors/sitemap.py` | Discovery, the depth-first walk as a stack, the checks graded from what it collected. |
| `Detectors` | `intel/detectors.py`, `intel/labs.py`, `intel/discovery.py` | The 28-day window, the four detectors, the local-presence findings, the keyword gap, the filter of candidates: operators from rows to the keys of what is found. What is at stake in a finding, and which words make a keyword relevant, are left out. |
| `OpportunityQueue` | the same, with the verbs of `gm/cli.py` | `queue` by kind and target. The paid jobs read the list of competitors before they buy and write after (`Buy`, `Finish...`). |
| `ContentLoop` | `content/fixcloser.py`, `delivery/wordpress.py`, `delivery/verify.py`, `compute_delta` of `delivery/receipts.py` | The `status` column that four kinds of job write; a run is known by its claim, a run whose lease is lost (`Reap`) goes on, and the operator may retry a dead job (`Retry`) beside it; `lost` remembers the runs that lost a lease or the answer to a COMMIT. |
| `GscIngest` | `intel/gsc_ingest.py` | One action per SQL statement of a pull, under READ COMMITTED: a row carries the transaction that wrote it and the one that deletes it; `Wait` freezes what a waiting statement saw; row locks, unique keys and deadlocks are those of PostgreSQL. `overlapped` and `lagging` remember the days two pulls met on and those whose roll-up had to wait. |
| `Http` | the retry loop of the HTTP ports | The sequences of answers a call may get. |
| `AdsIngest` | `intel/ads_ingest.py`, `connections/ads.py`, `roas_lines` | A pull is one transaction over all channels; deletes see what is committed when they begin. |
| `Leads` | `delivery/whatsapp.py`, `delivery/leadcard.py`, webhook of `api.py` | Messages delivered any number of times, the tick, the card built, sent and committed as three steps. |
| `JobQueueProofs` | - | Theorems about `JobQueue`, its refinement of `JobLifecycle`, and `Sampler`, which runs on it (below). |
| `SchedulerProofs`, `SpendRailProofs`, `MonthlyReceiptsProofs`, `ContentLoopProofs` | - | Theorems about the module each is named after. |
| `SiteProofs` | - | Theorems about `OpportunityQueue`, `AuditPipeline` with `Scoring` and `Rollups`, `Sitemaps` and `Robots`. |
| `MeasurementProofs` | - | Theorems about `GscIngest`, `AdsIngest` and `Leads`. |
| `FiniteSums` | - | Lemmas of arithmetic for the last two: least and greatest numbers, counting up, totals over finite sets, functions made step by step. |
| `MC*` | - | Constants, symmetry and instances for the runs. `MCSite` and `MCMeasurement` put several components into one run: what is modelled of them shares no row, so `part` names the one a behaviour runs and the others stand still, which checks each of them on its whole state space. |

Operators named in comments `Mutant:` are variations of the definition that
follows them, of the kind a slip in the code would produce. No specification
uses them; substituted for that definition, each one breaks the property it is
paired with in `PROJECT.json`, which shows that the property depends on the
line in question.

## Runs

| Run | Shows | Bounds and why they are enough |
|---|---|---|
| `queue` | The fence, the quotas, finality, the lease and the refinement of `JobLifecycle` with two workers competing for two jobs, and an operator's retry of a dead job beside a worker that is still at it | Two workers are what it takes to take a job from each other, two jobs what it takes for a worker to move on and come back. Two attempts: one retry and one dead-letter. A lease of one tick can run out under any step. One crash, at any point. One retry by the operator, of a job that is alone in the table (`RevivedAlone`): what follows a retry is between the workers and that job. Jobs and workers are symmetric. |
| `queue_live` | Termination under fairness | One worker: the worst case for liveness, since nobody else reaps for it. One crash, one operator retry, two jobs so that one can starve the other. No symmetry (liveness). |
| `scheduler` | Election, catch-up and service | Two processes, cadences 2 and 3 from different starts (their lattices meet and part within 4 units), two faults: enough to lose a leader twice, or a leader and its successor. |
| `sampler` | Booking, completeness and resumption of one run, and the bound on what was paid in vain | Two workers claim the same run, two cells (one before and one after any interruption), one crash, one operator retry. |
| `sampler_spend` | violated: `NeverPaidTwice` | as `sampler` |
| `spend` | Cap and cache for the jobs that buy | Cap 3 and calls at 2: the second call overshoots. Two trackers want the same query at different depths, the shallow one before and after the deep one, and one in common; two briefs share a query and a question; two refreshes share a competitor; the meetings are the sets in which jobs share something or the guard differs. Two months, so that the guard and the books can disagree; one expiry. The jobs stop when they are done or dead, so deadlock is not checked. |
| `spend_refusal` | violated: `RefusedRetriesAreFree` | as `spend`, one tracker |
| `receipts_gap` | violated: `NoGapWithoutOutage` | A schedule created in November, five months, no late tick at all. |
| `site` | The audit, robots.txt and sitemaps, the opportunity queue, the content loop | Audit: four checks, one for each way a check is decided; cap 9 with an estimate of 6 and prices 3 and 10, so that the cap is met before a call, after one, and not at all; two attempts of the last job, one registry change, after the first; one retry of a request, so that a call costs nothing, an answer in vain or two, counted where nothing else grows with them (`FewRetries`). Files of five lines hold two agents, a rule, and what separates groups. Three sitemap files: an index that names itself, one reached twice at two depths, and one cut off. Three days and a snooze of one: before, during and after. One item, two workers, one lost lease or COMMIT answer, two attempts; one of the five jobs is claimed up to three times (`FewRepeats`): its second attempt and its claim after the operator's retry; what fails before it commits leaves nothing behind, so with one loss the repeats of one job are those that tell. All of them stop at a bound, so deadlock is not checked. |
| `measurement` | Search Console and ads pulls, leads, the monthly receipts | Two days in the window, two workers, batches of two, a throttle met by the first row, failures of the backfill, two dates (midnight falls inside a pull). Two channels in two currencies, two pulls that overlap, one restatement. One message, one lead by hand, a week of two days seen for two weeks, two cards, one retry. Receipt schedules created in November (January and February ahead) and in February, leap year or not, five months, one late tick, one receipt by hand, one job waiting overnight. Bounds end the behaviours, so deadlock is not checked. |
| `lead_card` | violated: `FirstCardCoversAFullWeek` | as `measurement` |
| `gsc_chain` | violated: `ReenqueuesWhileNonEmpty` | No pages: the chain is about days. A window of four and batches of one make a chain of three links, final after two days; one midnight, and a pull by hand on either side of it. |

The exact values are in the `.cfg` files. `MaxOverdue` bounds how long the order
of overdue jobs is remembered; at 0 all due jobs tie, which allows more orders
than the code's, not fewer.

### What the violated runs say

1. `sampler_spend`. `intel/sampler.py:4-5` and `ops/runbooks/deploy-railway.md`
   promise that a retried sampling job duplicates no spend. The rows it skips by
   are inserted in the worker's single transaction, so until the whole run is
   committed there are none: any interruption pays for every answer again. What
   does hold is `StoredNeverRebought`: after the commit nothing is bought again.
2. `spend_refusal`. `intel/spend.py:42-43` calls each retry of a refused job a
   cheap no-spend refusal. The refusal rolls back what the transaction bought
   before it, the books included, so the retry finds budget and buys again.
3. `receipts_gap`. `core/schedules.py:15-18` speaks of missed months after an
   outage. Ticks 30 days apart pass over January by themselves for a schedule
   created in November. `GapOnlyBeforeFebruary` shows that this is the only way.
4. `lead_card`. `core/schedules.py:60-61` says that the first card covers a full
   week. It is built on a Monday at 06:00 for the week that contains that moment,
   which has just begun. `CardsAddUp` is what holds of the figures all the same.
5. `gsc_chain`. `gsc_ingest.py:361-362` says that a backfill batch re-enqueues
   while the plan is non-empty. The key of the next batch names its first day and
   today. When a pull that began before midnight commits its entry, not final
   yet, over the final one of a batch of today, that day is back in the plan, the
   job that would pull it is there and done, and nothing is enqueued: days of the
   window are left that no job will pull. The attempt to prove `ChainCarriesOn`
   found this; the property now names the cut (`chainCut`), which needs such an
   entry, and says that nothing else ends the chain early.

### What the passing properties had to leave room for

The model follows the code where the two readings differ; these are reachable
and the properties say so:

* *Spend.* The refresh of profiles and the discovery of competitors never call
  `require_dfs_budget`; a brief turns a refusal of its volumes into a note.
  `ReuseBeforeBuy` holds between jobs that were not open at the same time.
* *Sampling.* What a rolled-back claim has paid for is lost (finding 1);
  `LossesAreLostClaims` bounds it by one answer for each cell and claim.
* *Audit.* The cap is a cap on what is booked. Its check before a call ignores
  the price of the input, so one answer may be paid, refused at the cap and not
  booked; and a request that timed out or came back unreadable may have been paid
  too, is sent again (`llm.py:182-214`) and is charged to nobody, letter after letter
  (`pipeline.py:441-447`). `UnbookedIsBounded` says how much that is at most. A comparison reuses
  the client's audit of the last fortnight and does not look at the versions of
  its checks. A delta has a name for a check that regressed, is new or cannot be
  compared; a score may also fall because a check went on from warn to fail, or
  because one that had points is no longer judged, and the delta names neither
  (`FallIsAccountedFor` says that these five are all). The sitewide half
  of a fix queue leaves out pages without a grade, the local half does not
  (`group.py:262`, `NoFailureDropped`).
* *Sitemaps.* An unreadable file is not counted as a cut, so the target may be
  reported as missing although it was never looked for in that file;
  `MissingMeansMissing` is about files that were readable.
* *Opportunity queue.* `FINAL_MODE_MIN_DAYS` counts final days anywhere, not in
  the window. `set-competitors` does not look at the queue, and a candidate
  confirmed without a row can be queued by a discovery that had read the old
  list (`unseen`).
* *Content.* No code enqueues `compute_delta`; nothing moves a brief out of `draft`. The
  verification's key names the item, so a second publication is not verified; a
  late verdict overwrites `measured`; a late close_fixes run takes a published
  item back to review, also when the job went dead meanwhile and was retried, so
  that its row shows a first attempt. It takes two runs that commit, one of which
  lost its lease or the answer to its COMMIT (`ReviewOnlyAfterALoss`).
* *Search Console and ads.* Both are called idempotent (`gsc_ingest.py:8-9`,
  `ads_ingest.py:3-6`). They are as long as no two pulls of a day overlap; after
  an overlap both answers may stay (`overlapped`, `mixed`), and a pull begun
  before midnight may take a day's final mark away. The roll-up is said to be
  recomputed "from what is now in gsc_daily" (`gsc_ingest.py:214`); with three
  pulls of one day open together it may not be. The first commits when the second
  has cleared the roll-up, and a third deletes the first's rows and figures; the
  second's INSERT still counts those rows, waits for the third on the key of a
  page, and writes that sum after the third has committed their deletion. The
  attempt to prove `RollupMatchesSlice` found this, and a run of three daily jobs
  (`DailyDays = {4, 5, 6}`, `Trailing = <<4, 3, 2>>`, three workers; too large for
  the runs kept here) shows it; the property now leaves out the days whose
  committed roll-up had to wait (`lagging`), and says all it said of the others.
  The row quota is a throttle, no limit. A refusal other than of the credential marks an ads connection broken.

## Fairness

* `JobQueue!Fairness`: weak fairness of each worker's own steps (claim, run,
  commit or raise, complete, restart) and of time. Handlers bound their network
  calls by timeouts, so a handler returns or raises. That a worker that exits is
  started again is assumed of the hosting: the repository configures no restart
  policy, but its runbook relies on one ("a killed worker's jobs are reaped and
  requeued after lease expiry", `ops/runbooks/deploy-railway.md:20-21`). Heartbeats,
  crashes, enqueues and operator retries are not fair: nothing in the code makes
  them happen. The number of crashes is bounded, as termination within a quota
  of attempts needs no further assumption only then.
* `Scheduler!Fairness`: weak fairness of each process's loop, its restart
  included, and of the server noticing a dead client (TCP keepalive). Sessions
  and processes are lost at most `MaxFaults` times. Weak fairness of the lock is
  enough, since a lock once taken is freed only by a fault.
* All other modules state safety only. What the queue promises of a job
  (`JobTerminates`) holds of theirs; that the backfill chain then comes to its end
  is stated as an invariant (`ChainCarriesOn`): once no batch is queued, running or
  dead, the window is complete or the chain was cut short.

## Proofs

Each theorem holds for every value of the constants that the module's ASSUME
admits: any sets of workers, jobs, items, pages, domains, channels and messages,
any cadence, cap, price, quota and bound. Each rests on one inductive invariant,
stated first in its proof module as a conjunction of named parts, with one lemma
per action below it. None of the properties is inductive alone; what each
invariant adds is said here.

**The job queue** (`JobQueueProofs`, from `QueueAssumption`). `IInv` joins the
types with what the claim, commit and fence rules maintain together. That a done
job was committed by its latest claim needs `FenceIsLatestClaim` for the step
`Complete`; that in turn needs `HolderInv`, a worker that holds a job holds one,
under a claim number no greater than the job's; a `Claim` keeps the fence because
a queued row has no owner (`RowInv`) and the claimer holds nothing. `TrustedInv`
is the history half: while no lease of a job was reaped and no COMMIT answer
lost, whoever holds the job owns its row, and nothing of it was committed
before. From it `Typing`, `DoneIsCommitted`, `FenceSuffices`, `QuotaHonoured`,
`AtMostOnceWhenTrusted`, `LeaseIsRespected`, `FinishedIsFinal`, and `Refinement`:
each step maps to a step of `JobLifecycle` or leaves it.

**The scheduler** (`SchedulerProofs`). A process that believes to lead on an open
session holds the lock (`BeliefInv`), so at most one does: `OneLeader`. The row
such a leader has in hand is the schedule's present tick; before its advance the
tick's job exists, and the value it is about to write lies past that insertion
and on the lattice of the first run (`AdvanceInv`); no job is inserted ahead of
`next_run_at`, and `next_run_at` is past the insertion of every earlier tick
(`EnqueuedInv`). From that `MissedTicksCollapse`, `CadenceNeverDrifts`,
`AdvancesAreSafe`. The lattice is carried as the existence of a multiple, so no
remainder by a variable is reasoned about.

**Sampling** (`JobQueueProofs`). Sampling is built from the queue's actions, so
`IInv` of the queue carries over (`LEMMA SamplerRefinesQueue`). On top of it `SInv`: the run's row is locked by the one claim that is
past its first update (`RunLockInv`), a skip rests on a row that is stored, what
has landed is a whole run, the books name what is stored. From both
`AnswersBookedOnce`, `DoneRunsAreWhole` (a done job has landed, by the queue's
theorem) and the action property `StoredIsNotRebought`. `LossesBounded` counts: a
claim pays for a cell once at most, and a claim that commits books what it paid.

**Spend** (`SpendRailProofs`). Of two jobs that are open together each has met the
other (`MetInv`); hence what a job that has met nobody saw of the ledger at its
guard is still so at its charge (`PaidInv`, `GapInv`), and what fills the gap it
looked into was bought by a job it has met (`WantInv`, `MissInv`).
From that `SoloJobsRespectTheCap`, `GapOvershoot`, `PurchasesAreReused`,
`TrackersAreDoneInFull`. The sums over what a job has bought need no induction:
the ledger is carried as a number, and the overshoot is bounded by the last call.

**Receipts** (`MonthlyReceiptsProofs`). Months follow one another without a hole
(`CalendarInv`); a tick comes after the month it began in (`ClockInv`); a key is
that of a month that is over (`KeysInv`); the periods under way are no more than
the ticks (`OnePeriodPerTick`, by cardinality); ticks served on their day leave
out no month as long as the cadence (`CadenceInv`). From that
`DeliveredReceiptsAreFinal`, `OnePeriodATick`, `OnlyShortMonthsArePassedOver`. The
calendar is a table of the days before each month, so that its arithmetic is
that of two entries.

**The content loop** (`ContentLoopProofs`). A run is one claim of its job and
nobody else's (`RunsInv`); a run that writes has read the committed versions or
was overtaken, and one at most has inserted (`VersionsInv`); a draft is by the
operator or by a run that commits no more (`AuthorsInv`); what a run has read of
the trail stays true (`TrailInv`). From that `DraftsAreVersioned`,
`StatusIsBacked`. A run that no longer owns its job has lost its lease, and one that
committed and is not done is the holder still, or lost (`LossInv`): of two runs that
commit a draft one is in `lost`, whatever the operator did between them, which is
the action property `ReviewsFollowLosses`.

**The opportunity queue and the audits** (`SiteProofs`). `QueueInv`: a configured
competitor that did not become one behind the queue's back is marked, or is on
the list each discovery under way has read; with the guard of the upsert it gives
the action property `DecisionsStand`. `AuditInv`: rows are whole when they are
written (`RowsInv`), the audit under way is within its budget (`BudgetInv`), each
check without a finding has its letter still to be asked about (`FoundInv`),
and a summary stands for the audits it names (`RollupsInv`). The requests in vain are
counted against the letters that are done with, one call for each. From that
`DoneAuditsAreWhole`, `BudgetsHold`, `FailuresAreQueued`. For `FallsAreAccountedFor`
take two audits where none of the five causes is there: every check is judged with
points no fewer than before, or comes in with a pass, or drops out with a fail
(`NoWorse`). Of two weighted means of such marks, the products of the one's points
and the other's weights compare (`MeansRise`, from the totals of `FiniteSums`),
which carries over to the quotient rounded to per mille (`RoundedRises`,
`SectionsRise`), and the same again to the mean of the sections that count
(`PcrRises`).

**The inspectors** (`SiteProofs`). `SitemapInv`: unless the walk
was truncated, the discovered files and what a file it has seen lists are seen or
wait on its stack (`NothingLost`), and the pages of every file it has read are kept
(`PagesKept`). At its end the stack is empty, so what was seen
is closed under the indexes: `MissingPagesAreMissing`. For `VerdictsAreTheRfcs`,
`ParserInv` relates the parser's locals to the lines themselves: the agents of the
group under way are those of the agent lines no later group has cut off, its rules
are the rules that each of them heads (`OpenGroupInv`), and each finished group has
the rules of its agent lines (`ClosedGroupsInv`). An agent line starts a group
exactly when a rule has come behind the open ones, and that is what
`lastWasAgent` remembers. With the last group committed, the groups with the
longest matching token are those of the RFC's agents (`RulesMatched`); and the
fold over their rules keeps the longest that says something of the path, with
allow before disallow on a tie (`BetterStands`, rule after rule), which is the
RFC's verdict (`AccessIsDecided`, `RfcIsDecided`).

**Search Console** (`MeasurementProofs`). `GscInv` relates what each transaction
sees, not only what is committed: the roll-up that a pull sees of a day it has
recomputed fits the rows it sees (`OwnMatch`), and a reader's fits a reader's
(`CommittedMatch`). A commit makes what the one saw what all see. It cannot spoil
the view of another pull of the day, for of two that have recomputed it one at
most has touched a page (`OneWriter`): a pull that writes or deletes a row writes
or deletes its figure too (`OwnFigure`, `GoneFigure`), and two figures of one page
are one that replaces the other, the primary key of `gsc_page_daily` (`KeyInv`).
`ClearedInv` is what is left between the DELETE and the INSERT of a roll-up. From
that `RollupsMatchTheirSlices`. For `SlicesAreOnePull`, two transactions that
touch a day both know it (`OverlapsInv`), so one that knows of none deletes all
there is of the day and its rows are its own answer, which the log counts.
`ChainInv` is about days instead of rows: a batch of today that is done has pulled
the day its key names, finally where that is due, or a batch of tomorrow goes on
(`DoneInv`); an entry of the log that is final stays so but for pulls that overlap
its day (`LogInv`, `Settled`); a running batch still has its first day before it or
in its entries (`RunOK`). So when the key of the next batch is taken and done, the day
it names is in the plan only by such an overlap: `ChainsCarryOn`.

**Ads and leads** (`MeasurementProofs`). Two pulls that have deleted the slice of
one day both know it (`ClashInv`), so a pull that knows of none has doomed all
that is stored of the day (`DoomInv`): what others inserted behind its delete
would be a clash. A commit then leaves the rows it wrote, one for a day
(`SliceInv`): `SlicesAreTheLastPulls`. The receipt adds up rows, the property what
the platforms told, and the rows of a line are not numbered; `SpendInv` makes them
finitely many with figures that are numbers, and the two totals are compared
by classes (`TotalsByClass`): the rows of one channel and day add up to what its
last pull was told, and the rows of all of them, split by channel and day or by the
receipt's lines, to one total: `SpendsAreTheLastPulls`. `LeadsInv`: a message is recorded once, a
week a card told of still has as many leads, and the figures fit in the order
they were read: `CardFiguresAddUp`.

The assumptions beside types and bounds, and what in the code warrants them: the
marks `None` and `"lingering"` of `Scheduler` are no process; `0` is among the
delays of `Sampler`, since a sampling run is due at once; there is a
dearest price in `SpendRail`, for DataForSEO charges by a price list; the lists
the queue reads are JSON arrays (`list \in Seq(...)`); a channel of `AdsIngest`
has one reader, as connections are unique by site and kind (`gm/cli.py` 778-779),
there are finitely many of them, and a spend is a natural number of cents, for
`ads_ingest.py:87` rounds what a platform reports to two decimals and what it
reports is a cost; the lengths of a token and of a pattern of
`Robots` are natural numbers; the indexes `Sitemaps` meets list files of the site;
the marks `Committed` and `Nobody` of `GscIngest` are no
transaction, and its window is shorter than the days before the first; in `Scoring` the
checks with a GEO number are those of section I (`audit/scoring.py` 262-271). TLC
evaluates each of them in the runs.

Every invariant, action property and refinement that a passing run checks is
stated by a theorem. Only model-checked, and why:

* `JobTerminates`, `DueIsServed`: liveness under fairness, and ENABLED.
* The violations: a counterexample is found, not proved.

## What is not modelled

* Contents: prompts, answers, texts, rankings. A model keeps of them what a
  property tells apart (answered or failed, whole month or part of it, a status
  of a check). What a brief says (`content/briefs.py`), the request to the content
  engine, the evidence of a page and `audit/inspectors/schema_markup.py` are choices of
  the world.
* The operator's retry of a dead job (`api.py:228-241`) outside `JobQueue`, `Sampler`
  and `ContentLoop`. It puts the row back with a fresh quota, so to a handler such
  a job is one that waited in the queue for longer and has more attempts: no
  property of `GscIngest`, `SpendRail` and `AuditPipeline` tells a dead job from a
  queued one to its advantage, and their theorems hold for every number of attempts.
  `Leads`, `MonthlyReceipts`, `AdsIngest` and `OpportunityQueue` count no attempts:
  there a job that failed may always run again, or run twice.
* Priorities and job types in `claim_one`: every call site uses the default
  priority and a worker registers every handler. `concurrency_key` is written
  and read by nobody.
* `every_minutes <= 0`: the scheduler's catch-up loop then never ends
  (`infra/scheduler.py:43`); the assumption on `Every` excludes it.
* The row locks of `quota_ledgers` (`infra/costs.py:28`) as the sampler takes
  them; `GscIngest` has those of its own ledger.
* In `SpendRail`, the wait of two trackers for the same `rank_history` row: the
  model allows the orders it excludes.
* WordPress drafts nobody has recorded, which a retried POST or a rollback leaves
  (`delivery/wordpress.py:151`): the model has the POST before the commit, the
  tables say nothing of them.
* The sample of 500 entries of the cross-domain check of sitemaps; the receipt's
  `prior` period; the next-action line of the lead card.
* `ensure_default_schedules` called twice at once (`core/schedules.py:125`), a
  hazard without a property: the tables have no constraint that a property could
  hold by, and a second row is what the code would leave.
* `intel/feature_share.py`, `intel/variance.py`, `sampler.window_stats`, the
  console, shares, evidence and reports: they assemble and render stored rows
  and change nothing.
* The vault, configuration, migrations, deployment and registry data, each with
  its reason in `PROJECT.json`.

## Plan

1. Done: the queue with its abstract specification, since every other part runs on
   it; scheduler, sampler, spend rail, receipts; then the audit with its
   operators, the inspectors, the opportunity queue, the content loop, the
   Search Console and ads ingests, the leads.
2. Done: the inductive invariants and theorems of all of these, down to the chain of
   backfill batches, the sums of scores and receipts, and the two inspectors.
3. Extensions worth their size: the assembly of a brief with its comparison,
   feature share, the windows of the sampler's statistics.
