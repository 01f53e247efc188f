------------------------------ MODULE GscIngest ------------------------------
(***************************************************************************)
(* The Search Console ingest of one site, gm/intel/gsc_ingest.py: the      *)
(* whole-window pull after a connection, the chain of backfill batches and *)
(* the daily re-pull of the trailing window, under the transactions of     *)
(* PostgreSQL at READ COMMITTED.                                           *)
(*                                                                         *)
(* A day's slice is replaced by DELETE and COPY and its roll-up recomputed *)
(* from what the transaction sees.  A statement works on the rows it sees  *)
(* when it starts and waits, keeping that view, while another transaction  *)
(* holds one of them.  A row is a record with an `id' of its own, `from',  *)
(* the transaction that wrote it or Committed, and `dead', the transaction *)
(* that deletes it or Nobody.                                              *)
(***************************************************************************)
EXTENDS Integers, Sequences, FiniteSets, FiniteSetsExt, SequencesExt

CONSTANTS
  Runs,        \* workers that run this site's ingest jobs
  Pages,       \* pages a day's pull may bring, one click each
  Window,      \* days kept by Search Console, from today back
  FinalLag,    \* FINAL_LAG_DAYS
  Batch,       \* BACKFILL_BATCH_DAYS
  Throttle,    \* THROTTLE_ROWS
  Trailing,    \* the offsets of the daily pull, in order
  FirstDay, LastDay,   \* bound: the days that pass
  VerbDays, DailyDays, \* bound: the dates `gm gsc pull' and the scheduler enqueue on
  MaxAttempts, \* attempts of a job
  Failing      \* bound: the kinds of job that fail of themselves, once in all

ASSUME GscAssumption ==
  /\ Window \in Nat \ {0} /\ FinalLag \in Nat /\ Throttle \in Nat
  /\ Batch \in Nat \ {0} /\ MaxAttempts \in Nat \ {0} /\ Trailing \in Seq(Nat)
  /\ FirstDay \in Nat /\ LastDay \in Nat /\ Window < FirstDay /\ FirstDay <= LastDay
  /\ IsFiniteSet(Runs) /\ IsFiniteSet(Pages)
  /\ "committed" \notin Runs /\ "nobody" \notin Runs

Committed == "committed"
Nobody    == "nobody"
Days      == 1 .. LastDay

VARIABLES
  today,       \* the date, in UTC
  jobs,        \* the site's ingest jobs by idempotency key
  rows,        \* gsc_daily: [day, page, id, from, dead]
  rollups,     \* gsc_page_daily: [day, page, clicks, id, from, dead]
  log,         \* gsc_ingest_log: [days pulled -> [rows, final]]
  used,        \* the gsc_rows ledger: [days -> rows]
  connection,  \* "ok" or "broken"
  aggregates,  \* the day of the last whole-window pull, 0 before it
  detecting,   \* days a compute_queue job was enqueued on
  run,         \* [Runs -> the transaction of a worker]
  failed,      \* bound: whether one did
  overlapped,  \* history: days whose last committed pull overlapped another
  lagging,     \* history: days whose committed roll-up had to wait for another pull's
  chainEnd,    \* history: the day the last batch found nothing left to plan, 0 if it did
  chainCut     \* history: it did, but the job of the first day was there already, and the
               \* day's entry one that overlapping pulls have written

tables == <<rows, rollups, log, used>>
history == <<overlapped, lagging, chainEnd, chainCut>>
gscVars == <<today, jobs, tables, connection, aggregates, detecting, run, history, failed>>

NoRun == [pc |-> "idle"]

GscInit ==
  /\ today = FirstDay
  /\ jobs = << >> /\ rows = {} /\ rollups = {} /\ log = << >>
  /\ used = [d \in Days |-> 0]
  /\ connection = "ok" /\ aggregates = 0 /\ detecting = {}
  /\ run = [r \in Runs |-> NoRun]
  /\ overlapped = {} /\ lagging = {} /\ chainEnd = 0 /\ chainCut = FALSE /\ failed = FALSE

-----------------------------------------------------------------------------
(* What a transaction sees *)

Visible(r, table) == {x \in table : x.from \in {Committed, r} /\ x.dead # r}

VisibleLog(r) ==
  LET own == run[r].logs
  IN  [d \in DOMAIN own \union DOMAIN log |-> IF d \in DOMAIN own THEN own[d] ELSE log[d]]

Holders(S) == {x.dead : x \in S} \ {Nobody}

-----------------------------------------------------------------------------
(* The plan *)

IsFinal(day) == day < today - FinalLag

\* Newest first: the days without a pull, and those whose pull was not final
\* and now would be.
Needed(known, d) == d \notin DOMAIN known \/ (~known[d].final /\ d <= today - FinalLag - 1)
BackfillPlan(known) ==
  LET plan[n \in 0 .. Window - 1] ==
        IF n = 0 THEN <<>>
        ELSE IF Needed(known, today - 1 - n) THEN Append(plan[n-1], today - 1 - n) ELSE plan[n-1]
  IN  plan[Window - 1]

NewJob(days, after) == [days |-> days, after |-> after, status |-> "queued", attempts |-> 0]

\* A key that exists already, whatever became of its job, enqueues nothing.
Enqueue(queue, key, job) ==
  IF key \in DOMAIN queue THEN queue
  ELSE [k \in DOMAIN queue \union {key} |-> IF k = key THEN job ELSE queue[k]]

\* Mutant: the key of a batch does not name the day it may run from.
BackfillKeyByDayOnly(first, keyDay) == <<"backfill", first, 0>>

BackfillKey(first, keyDay) == <<"backfill", first, keyDay>>

\* A throttled chain resumes tomorrow.
NextBackfillRun == today + 1

EnqueueBackfill(queue, known, throttled) ==
  LET plan == BackfillPlan(known)
      from == IF throttled THEN NextBackfillRun ELSE today
  IN  IF plan = <<>> THEN queue
      ELSE Enqueue(queue, BackfillKey(plan[1], from),
                   NewJob(SubSeq(plan, 1, Min({Batch, Len(plan)})), from))

NoteChain(queue, known, throttled) ==
  LET plan == BackfillPlan(known)
  IN  /\ chainEnd' = IF plan = <<>> THEN today ELSE 0
      /\ chainCut' = (/\ plan # <<>> /\ plan[1] \in overlapped'
                      /\ EnqueueBackfill(queue, known, throttled) = queue)

\* `gm gsc pull', at most once a day.
PullVerb ==
  /\ today \in VerbDays
  /\ jobs' = Enqueue(jobs, <<"initial", 0, today>>, NewJob(<<>>, today))
  /\ jobs' # jobs
  /\ UNCHANGED <<today, tables, connection, aggregates, detecting, run, history, failed>>

\* The scheduler enqueues the daily job, or misses the day.
ScheduleDaily ==
  /\ today \in DailyDays
  /\ jobs' = Enqueue(jobs, <<"daily", 0, today>>, NewJob(<<>>, today))
  /\ jobs' # jobs
  /\ UNCHANGED <<today, tables, connection, aggregates, detecting, run, history, failed>>

DayPasses ==
  /\ today < LastDay
  /\ today' = today + 1
  /\ UNCHANGED <<jobs, tables, connection, aggregates, detecting, run, history, failed>>

-----------------------------------------------------------------------------
(* A job *)

\* current_date is the date the transaction began, for all of it.
Claim(r, key) ==
  /\ run[r] = NoRun
  /\ jobs[key].status = "queued" /\ jobs[key].after <= today
  /\ jobs' = [jobs EXCEPT ![key].status = "running", ![key].attempts = @ + 1]
  /\ run' = [run EXCEPT ![r] =
       [pc |-> IF key[1] = "initial" THEN "window" ELSE "next", key |-> key, began |-> today,
        todo |-> IF key[1] = "daily" THEN [i \in DOMAIN Trailing |-> today - Trailing[i]]
                 ELSE jobs[key].days,
        throttled |-> FALSE, day |-> 0, got |-> {}, final |-> FALSE, waits |-> FALSE,
        targets |-> {}, sums |-> {}, logs |-> << >>, bumped |-> 0, ledger |-> FALSE,
        overlap |-> {}, late |-> {}]]
  /\ UNCHANGED <<today, tables, connection, aggregates, detecting, history, failed>>

AfterFailure(attempts) == IF attempts < MaxAttempts THEN "queued" ELSE "dead"

\* The transaction ends and none of its rows or locks remain.
Abort(r) ==
  LET Undo(table) == {[x EXCEPT !.dead = IF @ = r THEN Nobody ELSE @] :
                        x \in {y \in table : y.from # r}}
      key == run[r].key
  IN  /\ rows' = Undo(rows) /\ rollups' = Undo(rollups)
      /\ jobs' = [jobs EXCEPT ![key].status = AfterFailure(jobs[key].attempts)]
      /\ run' = [run EXCEPT ![r] = NoRun]
      /\ UNCHANGED <<today, log, used, aggregates, detecting, history>>

MayFail(r) == run[r].key[1] \in Failing /\ ~failed /\ failed' = TRUE

\* An error of the API or the database, or the loss of the worker.
JobFails(r) == run[r] # NoRun /\ MayFail(r) /\ Abort(r) /\ UNCHANGED connection

\* A refused credential: the connection is marked in a transaction of its own.
AuthFails(r) ==
  /\ run[r].pc \in {"window", "next"}
  /\ connection' = "broken"
  /\ MayFail(r) /\ Abort(r)

\* The whole-window pull and, with it, the first batch.
InitialPull(r) ==
  /\ run[r].pc = "window"
  /\ aggregates' = today
  /\ connection' = "ok"
  /\ detecting' = detecting \union {today}
  /\ run' = [run EXCEPT ![r] = NoRun]
  /\ UNCHANGED <<today, tables, overlapped, lagging, failed>>
  /\ LET done == [jobs EXCEPT ![run[r].key].status = "done"]
     IN  jobs' = EnqueueBackfill(done, log, FALSE) /\ NoteChain(done, log, FALSE)

\* A batch looks at the ledger before each of its days; the daily job does not.
OverThrottle(r) ==
  /\ run[r].key[1] = "backfill"
  /\ used[run[r].began] + run[r].bumped > Throttle

StopEarly(r) ==
  /\ run[r].pc = "next" /\ run[r].todo # <<>> /\ OverThrottle(r)
  /\ run' = [run EXCEPT ![r].todo = <<>>, ![r].throttled = TRUE]
  /\ UNCHANGED <<today, jobs, tables, connection, aggregates, detecting, history, failed>>

-----------------------------------------------------------------------------
(* The pull of a day *)

Touches(u, day) == run[u] # NoRun /\ (run[u].day = day \/ day \in DOMAIN run[u].logs)

\* The answers the provider may give, fetched until one of its pages is empty.
QueryAll == SUBSET Pages

PullDay(r) ==
  /\ run[r].pc = "next" /\ run[r].todo # <<>> /\ ~OverThrottle(r)
  /\ LET day    == Head(run[r].todo)
         others == {u \in Runs \ {r} : Touches(u, day)}
     IN  \E got \in QueryAll :
           run' = [u \in Runs |->
             CASE u = r -> [run[r] EXCEPT !.pc = "slice", !.todo = Tail(@), !.day = day,
                              !.got = got, !.final = IsFinal(day),
                              !.overlap = IF others = {} THEN @ ELSE @ \union {day}]
               [] u \in others -> [run[u] EXCEPT !.overlap = @ \union {day}]
               [] OTHER -> run[u]]
  /\ UNCHANGED <<today, jobs, tables, connection, aggregates, detecting, history, failed>>

\* What the statement under way works on: the view of one that waits, else now.
Targets(r, table) ==
  IF run[r].waits THEN run[r].targets
  ELSE {<<x.page, x.id>> : x \in {y \in Visible(r, table) : y.day = run[r].day}}

Targeted(r, table) ==
  {x \in table : x.day = run[r].day /\ x.from \in {Committed, r}
                   /\ <<x.page, x.id>> \in Targets(r, table)}

\* Those of the targets that are still there.
Deleted(r, table) == {IF x \in Targeted(r, table) THEN [x EXCEPT !.dead = r] ELSE x : x \in table}

\* An id no row has and no waiting statement remembers or is to insert.
FreshId(table) ==
  LET active == {u \in Runs : run[u] # NoRun}
      taken  == {x.id : x \in table} \union
                UNION {{t[2] : t \in run[u].targets} : u \in active} \union
                UNION {{x.id : x \in run[u].sums} : u \in active}
  IN  CHOOSE n \in 1 .. Cardinality(taken) + 1 : n \notin taken

\* Mutant: the old slice is left where it is.
SliceAdded(r) ==
  rows \union {[day |-> run[r].day, page |-> p, id |-> FreshId(rows), from |-> r, dead |-> Nobody] :
                 p \in run[r].got}

SliceReplaced(r) ==
  Deleted(r, rows) \union
    {[day |-> run[r].day, page |-> p, id |-> FreshId(rows), from |-> r, dead |-> Nobody] :
       p \in run[r].got}

\* The roll-up of a day is late when one of its two statements had to wait.
Proceed(r, pc) ==
  run' = [run EXCEPT ![r].pc = pc, ![r].waits = FALSE, ![r].targets = {}, ![r].sums = {},
            ![r].late = IF run[r].waits /\ run[r].pc # "slice"
                        THEN @ \union {run[r].day} ELSE @]

ReplaceSlice(r) ==
  /\ run[r].pc = "slice"
  /\ Holders(Targeted(r, rows)) \subseteq {r}
  /\ rows' = SliceReplaced(r)
  /\ Proceed(r, "clear")
  /\ UNCHANGED <<today, jobs, rollups, log, used, connection, aggregates, detecting,
                 history, failed>>

ClearRollup(r) ==
  /\ run[r].pc = "clear"
  /\ Holders(Targeted(r, rollups)) \subseteq {r}
  /\ rollups' = Deleted(r, rollups)
  /\ Proceed(r, "sum")
  /\ UNCHANGED <<today, jobs, rows, log, used, connection, aggregates, detecting,
                 history, failed>>

\* One click a row.
RollupOf(r, S) ==
  {[day |-> run[r].day, page |-> p, clicks |-> Cardinality({x.id : x \in {y \in S : y.page = p}}),
    id |-> FreshId(rollups), from |-> r, dead |-> Nobody] : p \in {x.page : x \in S}}

\* Mutant: the roll-up is computed from the rows just pulled.
SummedFromPull(r) ==
  IF run[r].waits THEN run[r].sums
  ELSE RollupOf(r, {x \in rows : x.day = run[r].day /\ x.from = r})

\* From what is now in gsc_daily, as the statement sees it.
Summed(r) ==
  IF run[r].waits THEN run[r].sums
  ELSE RollupOf(r, {x \in Visible(r, rows) : x.day = run[r].day})

\* Rows with the primary key of one that is to be inserted.
Rivals(r) ==
  {x \in rollups : x.dead # r /\ \E y \in Summed(r) : y.day = x.day /\ y.page = x.page}

Undecided(r) == {x \in Rivals(r) : x.from # Committed \/ x.dead # Nobody}

InsertRollup(r) ==
  /\ run[r].pc = "sum"
  /\ Rivals(r) = {}
  /\ rollups' = rollups \union Summed(r)
  /\ Proceed(r, "log")
  /\ UNCHANGED <<today, jobs, rows, log, used, connection, aggregates, detecting,
                 history, failed>>

UniqueViolation(r) ==
  /\ run[r].pc = "sum"
  /\ Rivals(r) # {} /\ Undecided(r) = {}
  /\ Abort(r) /\ UNCHANGED <<connection, failed>>

LogHolders(r) == {u \in Runs \ {r} : run[u] # NoRun /\ run[r].day \in DOMAIN run[u].logs}

UpsertLog(r) ==
  /\ run[r].pc = "log"
  /\ LogHolders(r) = {}
  /\ run' = [run EXCEPT ![r].pc = "ledger",
       ![r].logs = [d \in DOMAIN run[r].logs \union {run[r].day} |->
                      IF d = run[r].day
                      THEN [rows |-> Cardinality(run[r].got), final |-> run[r].final]
                      ELSE run[r].logs[d]]]
  /\ UNCHANGED <<today, jobs, tables, connection, aggregates, detecting, history, failed>>

LedgerHolders(r) ==
  {u \in Runs \ {r} : run[u] # NoRun /\ run[u].ledger /\ run[u].began = run[r].began}

BumpQuota(r) ==
  /\ run[r].pc = "ledger"
  /\ LedgerHolders(r) = {}
  /\ run' = [run EXCEPT ![r].pc = "next", ![r].ledger = TRUE,
                        ![r].bumped = @ + Cardinality(run[r].got)]
  /\ UNCHANGED <<today, jobs, tables, connection, aggregates, detecting, history, failed>>

\* The transactions a statement has to wait for.
WaitsFor(r) ==
  CASE run[r].pc = "slice"  -> Holders(Targeted(r, rows)) \ {r}
    [] run[r].pc = "clear"  -> Holders(Targeted(r, rollups)) \ {r}
    [] run[r].pc = "sum"    -> ({x.from : x \in Undecided(r)} \ {Committed})
                                 \union Holders(Undecided(r))
    [] run[r].pc = "log"    -> LogHolders(r)
    [] run[r].pc = "ledger" -> LedgerHolders(r)
    [] OTHER -> {}

\* A statement that has to wait keeps the view it started with.
Wait(r) ==
  /\ run[r].pc \in {"slice", "clear", "sum"} /\ ~run[r].waits
  /\ WaitsFor(r) # {}
  /\ run' = [run EXCEPT ![r].waits = TRUE,
       ![r].targets = CASE run[r].pc = "slice" -> Targets(r, rows)
                        [] run[r].pc = "clear" -> Targets(r, rollups)
                        [] OTHER -> {},
       ![r].sums = IF run[r].pc = "sum" THEN Summed(r) ELSE {}]
  /\ UNCHANGED <<today, jobs, tables, connection, aggregates, detecting, history, failed>>

\* Transactions that wait on one another: the database aborts one of them.
DeadlockVictim(r) ==
  /\ \E knot \in SUBSET Runs :
       r \in knot /\ \A u \in knot : WaitsFor(u) \intersect knot # {}
  /\ Abort(r) /\ UNCHANGED <<connection, failed>>

-----------------------------------------------------------------------------
(* The end of a batch or of the daily job, and its commit *)

Finish(r) ==
  /\ run[r].pc = "next" /\ run[r].todo = <<>>
  /\ overlapped' = (overlapped \ DOMAIN run[r].logs) \union run[r].overlap
  /\ lagging' = (lagging \ (DOMAIN run[r].logs \ run[r].overlap)) \union run[r].late
  /\ LET Publish(table) == {[x EXCEPT !.from = IF @ = r THEN Committed ELSE @] :
                              x \in {y \in table : y.dead # r}}
         known == VisibleLog(r)
         done  == [jobs EXCEPT ![run[r].key].status = "done"]
         daily == run[r].key[1] = "daily"
     IN  /\ rows' = Publish(rows) /\ rollups' = Publish(rollups)
         /\ log' = known
         /\ used' = [used EXCEPT ![run[r].began] = @ + run[r].bumped]
         /\ jobs' = IF daily THEN done ELSE EnqueueBackfill(done, known, run[r].throttled)
         /\ detecting' = IF daily THEN detecting \union {run[r].began} ELSE detecting
         /\ IF daily THEN UNCHANGED <<chainEnd, chainCut>> ELSE NoteChain(done, known, run[r].throttled)
  /\ connection' = "ok"
  /\ run' = [run EXCEPT ![r] = NoRun]
  /\ UNCHANGED <<today, aggregates, failed>>

Step(r) ==
  \/ \E key \in DOMAIN jobs : Claim(r, key)
  \/ JobFails(r) \/ AuthFails(r) \/ InitialPull(r) \/ StopEarly(r) \/ PullDay(r)
  \/ ReplaceSlice(r) \/ ClearRollup(r) \/ InsertRollup(r) \/ Wait(r)
  \/ UniqueViolation(r) \/ UpsertLog(r) \/ BumpQuota(r)
  \/ DeadlockVictim(r) \/ Finish(r)

GscNext == PullVerb \/ ScheduleDaily \/ DayPasses \/ \E r \in Runs : Step(r)

GscSpec == GscInit /\ [][GscNext]_gscVars

-----------------------------------------------------------------------------
(* Properties *)

TypeOK ==
  /\ today \in FirstDay .. LastDay
  /\ \A x \in rows : x.day \in Days /\ x.page \in Pages /\ x.id \in Nat
  /\ \A x \in rows \union rollups :
       x.from \in Runs \union {Committed} /\ x.dead \in Runs \union {Nobody}
  /\ \A x \in rollups : x.day \in Days /\ x.page \in Pages /\ x.clicks \in Nat \ {0}
  /\ DOMAIN log \subseteq Days
  /\ used \in [Days -> Nat]
  /\ connection \in {"ok", "broken"}
  /\ \A key \in DOMAIN jobs : /\ jobs[key].status \in {"queued", "running", "done", "dead"}
                              /\ jobs[key].attempts \in 0 .. MaxAttempts

RowsOf(day) == {x \in rows : x.day = day /\ x.from = Committed}

\* The roll-up a reader sees is the sum of the rows a reader sees, page by
\* page, however pulls of the same day overlap, fail or deadlock -- as long as
\* no statement that writes it had to wait: the one that waits writes what it
\* saw before, and of three pulls of a day the last to commit may then leave
\* the sums of the first (gsc_ingest.py 214-231).
RollupMatchesSlice ==
  \A day \in Days \ lagging :
    {[page |-> x.page, clicks |-> x.clicks] : x \in {y \in rollups : y.day = day /\ y.from = Committed}}
    = {[page |-> p, clicks |-> Cardinality({x.id : x \in {y \in RowsOf(day) : y.page = p}})] :
         p \in {x.page : x \in RowsOf(day)}}

\* A day's slice is the answer of one pull, the one its log row counts --
\* unless that pull overlapped another of the day, in which case both answers
\* may stay (gsc_ingest.py 8-9, 200-212: nothing but the DELETE makes the
\* re-pull idempotent).
SliceIsOnePull ==
  \A day \in Days \ overlapped :
    /\ \A x, y \in RowsOf(day) : x.id = y.id
    /\ Cardinality(RowsOf(day)) = IF day \in DOMAIN log THEN log[day].rows ELSE 0

\* Once the ingest was started, a batch is queued or running, or one died, or
\* the chain came to its end: every day of the window was then pulled, and
\* those past the lag finally -- unless a pull that overlapped it, begun before
\* midnight, overwrote a final entry with its own.  The chain is cut short
\* only by such an entry, when the job that would pull the day again has run
\* already (gsc_ingest.py 233-241, 246-278, 321-339, 379-380).
ChainCarriesOn ==
  LET batches == {key \in DOMAIN jobs : key[1] = "backfill"}
  IN  /\ (aggregates # 0 /\ \A key \in batches : jobs[key].status = "done")
           => chainEnd # 0 \/ chainCut
      /\ chainEnd # 0 =>
           \A day \in chainEnd - Window .. chainEnd - 2 :
             /\ day \in DOMAIN log
             /\ (day < chainEnd - FinalLag /\ day \notin overlapped) => log[day].final

\* What the handler says of itself: "Re-enqueues while the plan is non-empty"
\* (gsc_ingest.py 361-363), so the chain ends only with nothing left to pull.
ReenqueuesWhileNonEmpty ==
  (aggregates # 0 /\ \A key \in DOMAIN jobs : key[1] = "backfill" => jobs[key].status = "done")
    => chainEnd # 0
=============================================================================
