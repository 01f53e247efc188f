----------------------------- MODULE ContentLoop -----------------------------
(***************************************************************************)
(* The content items of one site and the jobs that move them: close_fixes  *)
(* (gm/content/fixcloser.py over gm/content/engine_port.py), publish       *)
(* (gm/delivery/wordpress.py), verify_publish (gm/delivery/verify.py) and  *)
(* compute_delta (gm/delivery/receipts.py), with the verbs of gm/cli.py    *)
(* that start them.                                                        *)
(*                                                                         *)
(* One status column is written by four jobs.  A job runs in a transaction *)
(* of its own; its lease is two minutes and no handler extends it, so a    *)
(* job that takes longer is given to another worker while the first goes   *)
(* on, and the first may still commit (gm/infra/jobs.py).  A dead job is   *)
(* queued again by the operator, with a fresh quota (gm/api.py).           *)
(***************************************************************************)
EXTENDS BotsEyeView, FiniteSets

CONSTANTS
  Items, Workers,
  LoopAttempts,  \* max_attempts of a job
  MaxLost,      \* bound: runs that lose their lease or the answer to their COMMIT
  Served,       \* what a page may serve to the probes (see BotsEyeView)
  Costs         \* what an engine answer may say it cost, 0 when it does not say

ASSUME LoopAssumption ==
  /\ LoopAttempts \in Nat \ {0} /\ MaxLost \in Nat /\ Costs \subseteq Nat

VARIABLES
  status,   \* [Items -> content_items.status, "absent" before there is one]
  drafts,   \* committed drafts rows: [item, version, cost, by], by naming the run
  bills,    \* committed cost events of the engine: [item, cost, by]
  events,   \* [Items -> the committed publish events, each with or without a url]
  verdict,  \* [Items -> what the last late probe said since the last publish]
  deltas,   \* [Items -> the events content_deltas rows pivot on]
  jobs,     \* [keys -> [status, attempts, runs, owner]]: the jobs of the loop,
            \*   with the claims of each so far
  work,     \* [Workers -> the run it is in, known by its claim]
  lost      \* <<key, run>>: who lost a lease or the answer to a COMMIT

loopVars == <<status, drafts, bills, events, verdict, deltas, jobs, work, lost>>

Kinds == {"close", "publish", "early", "late", "delta"}
Keys  == Kinds \X Items

NoRun == [phase |-> "idle"]
NoJob == [status |-> "none", attempts |-> 0, runs |-> 0, owner |-> "nobody"]
Live  == {"published", "verified", "verify_failed", "measured"}

LoopInit ==
  /\ status = [i \in Items |-> "absent"]
  /\ drafts = {} /\ bills = {}
  /\ events = [i \in Items |-> <<>>]
  /\ verdict = [i \in Items |-> "none"]
  /\ deltas = [i \in Items |-> {}]
  /\ jobs = [k \in Keys |-> NoJob]
  /\ work = [w \in Workers |-> NoRun]
  /\ lost = {}

-----------------------------------------------------------------------------
(* The jobs table, as these jobs see it *)

\* Every key is enqueued once in the life of its item.
Enqueued(table, ks) ==
  [k \in Keys |-> IF k \in ks /\ table[k] = NoJob THEN [NoJob EXCEPT !.status = "queued"]
                  ELSE table[k]]

Requeued(job) ==
  [job EXCEPT !.status = IF job.attempts >= LoopAttempts THEN "dead" ELSE "queued",
              !.owner = "nobody"]

Owns(w, k) == jobs[k].status = "running" /\ jobs[k].owner = w

Claim(w, k) ==
  /\ work[w] = NoRun /\ jobs[k].status = "queued"
  /\ jobs' = [jobs EXCEPT ![k] = [status |-> "running", attempts |-> @.attempts + 1,
                                  runs |-> @.runs + 1, owner |-> w]]
  /\ work' = [work EXCEPT ![w] = [phase |-> "begun", kind |-> k[1], item |-> k[2],
                                  run |-> jobs[k].runs + 1]]
  /\ UNCHANGED <<status, drafts, bills, events, verdict, deltas, lost>>

\* The run loses its lease, or the answer to its COMMIT.
Loses(k, run) ==
  /\ lost' = lost \union {<<k, run>>}
  /\ Cardinality(lost') <= MaxLost

\* The lease has run out: the run, if there still is one, does not notice.
Reap(k) ==
  /\ jobs[k].status = "running" /\ Loses(k, jobs[k].runs)
  /\ jobs' = [jobs EXCEPT ![k] = Requeued(@)]
  /\ UNCHANGED <<status, drafts, bills, events, verdict, deltas, work>>

\* Mutant: a job that runs is retried as well.
DeadOrRunning(k) == jobs[k].status \in {"dead", "running"}

Dead(k) == jobs[k].status = "dead"

\* The operator's retry of a dead job; a run of it may still be going on.
Retry(k) ==
  /\ Dead(k)
  /\ jobs' = [jobs EXCEPT ![k] = [@ EXCEPT !.status = "queued", !.attempts = 0, !.owner = "nobody"]]
  /\ UNCHANGED <<status, drafts, bills, events, verdict, deltas, work, lost>>

Running(w, kind, phase) == work[w] # NoRun /\ work[w].kind = kind /\ work[w].phase = phase

\* An exception, told to the queue if the job is still this worker's: before
\* the commit all is rolled back; after it the answer to the COMMIT is lost, and
\* committed work is reported as failed.  A crash tells nobody: it is the loss
\* of the lease (Reap) of a run that comes to nothing.
Fails(w) ==
  /\ work[w] # NoRun
  /\ LET k == <<work[w].kind, work[w].item>> IN
     /\ jobs' = IF Owns(w, k) THEN [jobs EXCEPT ![k] = Requeued(@)] ELSE jobs
     /\ IF work[w].phase = "committed" THEN Loses(k, work[w].run) ELSE UNCHANGED lost
  /\ work' = [work EXCEPT ![w] = NoRun]
  /\ UNCHANGED <<status, drafts, bills, events, verdict, deltas>>

Completes(w) ==
  /\ work[w] # NoRun /\ work[w].phase = "committed"
  /\ LET k == <<work[w].kind, work[w].item>> IN
     jobs' = IF Owns(w, k) THEN [jobs EXCEPT ![k].status = "done", ![k].owner = "nobody"]
             ELSE jobs
  /\ work' = [work EXCEPT ![w] = NoRun]
  /\ UNCHANGED <<status, drafts, bills, events, verdict, deltas, lost>>

Phase(w, phase) == work' = [work EXCEPT ![w].phase = phase]

-----------------------------------------------------------------------------
(* close_fixes: the engine writes a draft, our registry grades it *)

Versions(i) == {d.version : d \in {x \in drafts : x.item = i}}

NextVersion(i) == Max(Versions(i) \union {0}) + 1

\* Drafts that other transactions have inserted and not committed.
Inserting(w) == {u \in Workers \ {w} : Running(u, "close", "inserted")}

Rivals(w, i, version) ==
  {u \in Inserting(w) : work[u].item = i /\ work[u].version = version}

\* The engine has answered, and is paid; the version is read now.
EngineAnswers(w) ==
  /\ Running(w, "close", "begun")
  /\ \E cost \in Costs :
       work' = [work EXCEPT ![w] =
         [phase |-> "writing", kind |-> "close", item |-> @.item, run |-> @.run,
          version |-> NextVersion(@.item), cost |-> cost]]
  /\ UNCHANGED <<status, drafts, bills, events, verdict, deltas, jobs, lost>>

\* Mutant: the unique key of drafts is gone.
InsertAnyway(w) == TRUE

\* The insert waits for an uncommitted rival and fails on a committed one.
InsertAllowed(w) ==
  /\ Rivals(w, work[w].item, work[w].version) = {}
  /\ work[w].version \notin Versions(work[w].item)

InsertDraft(w) ==
  /\ Running(w, "close", "writing") /\ InsertAllowed(w)
  /\ Phase(w, "inserted")
  /\ UNCHANGED <<status, drafts, bills, events, verdict, deltas, jobs, lost>>

\* Our audit has graded the draft.  The status is written whatever it is.
CommitDraft(w) ==
  /\ Running(w, "close", "inserted")
  /\ LET r == work[w] IN
     /\ drafts' = drafts \union {[item |-> r.item, version |-> r.version, cost |-> r.cost, by |-> r.run]}
     /\ bills' = IF r.cost > 0 THEN bills \union {[item |-> r.item, cost |-> r.cost, by |-> r.run]}
                 ELSE bills
     /\ status' = [status EXCEPT ![r.item] = "review"]
  /\ Phase(w, "committed")
  /\ UNCHANGED <<events, verdict, deltas, jobs, lost>>

\* gm close-fixes --now: the item and its draft in one transaction, or neither.
CloseFixesNow(i) ==
  /\ status[i] = "absent"
  /\ status' = [status EXCEPT ![i] = "review"]
  /\ \E cost \in Costs :
       /\ drafts' = drafts \union {[item |-> i, version |-> 1, cost |-> cost, by |-> 0]}
       /\ bills' = IF cost > 0 THEN bills \union {[item |-> i, cost |-> cost, by |-> 0]} ELSE bills
  /\ UNCHANGED <<events, verdict, deltas, jobs, work, lost>>

CloseFixes(i) ==
  /\ status[i] = "absent"
  /\ status' = [status EXCEPT ![i] = "briefed"]
  /\ jobs' = Enqueued(jobs, {<<"close", i>>})
  /\ UNCHANGED <<drafts, bills, events, verdict, deltas, work, lost>>

-----------------------------------------------------------------------------
(* publish: the latest draft becomes a WordPress draft *)

\* gm publish: nothing but the key keeps an item from being published again.
Publish(i) ==
  /\ status[i] # "absent" /\ jobs[<<"publish", i>>] = NoJob
  /\ jobs' = Enqueued(jobs, {<<"publish", i>>})
  /\ UNCHANGED <<status, drafts, bills, events, verdict, deltas, work, lost>>

\* Mutant: an item without a draft is published empty.
AnyItem(i) == TRUE

HasDraft(i) == Versions(i) # {}

\* The POST, which no rollback takes back; the answer may carry no link.
PostDraft(w) ==
  /\ Running(w, "publish", "begun") /\ HasDraft(work[w].item)
  /\ \E url \in BOOLEAN :
       work' = [work EXCEPT ![w] = [phase |-> "posted", kind |-> "publish", item |-> @.item,
                                    run |-> @.run, url |-> url]]
  /\ UNCHANGED <<status, drafts, bills, events, verdict, deltas, jobs, lost>>

VerifyJobs(i) == {<<"early", i>>, <<"late", i>>}

CommitPublish(w) ==
  /\ Running(w, "publish", "posted")
  /\ LET i == work[w].item IN
     /\ events' = [events EXCEPT ![i] = Append(@, work[w].url)]
     /\ status' = [status EXCEPT ![i] = "published"]
     /\ verdict' = [verdict EXCEPT ![i] = "none"]
     /\ jobs' = Enqueued(jobs, VerifyJobs(i))
  /\ Phase(w, "committed")
  /\ UNCHANGED <<drafts, bills, deltas, lost>>

-----------------------------------------------------------------------------
(* verify_publish and compute_delta *)

WithUrl(i) == {n \in DOMAIN events[i] : events[i][n]}

\* The event is read before the probes go out.
BeginVerify(w) ==
  /\ Running(w, "early", "begun") \/ Running(w, "late", "begun")
  /\ WithUrl(work[w].item) # {}
  /\ work' = [work EXCEPT ![w] = [phase |-> "probing", kind |-> @.kind, item |-> @.item,
                                  run |-> @.run, event |-> Max(WithUrl(@.item))]]
  /\ UNCHANGED <<status, drafts, bills, events, verdict, deltas, jobs, lost>>

\* Readable to browsers and bots, and with structured data in what is served.
ProbesPass(page) ==
  Fetch(page.hops) = "ok" /\ View(page).class \in ContentOk /\ page.bots /\ page.schema

\* Only the late probe moves the item, from whatever status it has by then.
CommitVerify(w) ==
  /\ Running(w, "early", "probing") \/ Running(w, "late", "probing")
  /\ \E page \in {x \in Served : ~View(x).raised} :
       IF work[w].kind = "early" THEN UNCHANGED <<status, verdict>>
       ELSE /\ status' = [status EXCEPT ![work[w].item] =
                            IF ProbesPass(page) THEN "verified" ELSE "verify_failed"]
            /\ verdict' = [verdict EXCEPT ![work[w].item] =
                             IF ProbesPass(page) THEN "passed" ELSE "failed"]
  /\ Phase(w, "committed")
  /\ UNCHANGED <<drafts, bills, events, deltas, jobs, lost>>

\* No code enqueues compute_delta: its row is written by hand.
AskForDelta(i) ==
  /\ status[i] # "absent" /\ jobs[<<"delta", i>>] = NoJob
  /\ jobs' = Enqueued(jobs, {<<"delta", i>>})
  /\ UNCHANGED <<status, drafts, bills, events, verdict, deltas, work, lost>>

\* Mutant: whatever is live may be measured.
MeasurableOnceLive(now) == now \in Live

Measurable(now) == now \in {"published", "verified"}

\* The latest event is the pivot; a publication that commits now is missed.
BeginDelta(w) ==
  /\ Running(w, "delta", "begun")
  /\ events[work[w].item] # <<>>
  /\ work' = [work EXCEPT ![w] = [phase |-> "comparing", kind |-> "delta", item |-> @.item,
                                  run |-> @.run, event |-> Len(events[@.item])]]
  /\ UNCHANGED <<status, drafts, bills, events, verdict, deltas, jobs, lost>>

\* The delta is stored in any case; the status is advanced from two of them.
CommitDelta(w) ==
  /\ Running(w, "delta", "comparing")
  /\ LET i == work[w].item IN
     /\ deltas' = [deltas EXCEPT ![i] = @ \union {work[w].event}]
     /\ status' = [status EXCEPT ![i] = IF Measurable(@) THEN "measured" ELSE @]
  /\ Phase(w, "committed")
  /\ UNCHANGED <<drafts, bills, events, verdict, jobs, lost>>

LoopNext ==
  \/ \E i \in Items : CloseFixesNow(i) \/ CloseFixes(i) \/ Publish(i) \/ AskForDelta(i)
  \/ \E k \in Keys : Reap(k) \/ Retry(k) \/ \E w \in Workers : Claim(w, k)
  \/ \E w \in Workers :
       \/ EngineAnswers(w) \/ InsertDraft(w) \/ CommitDraft(w)
       \/ PostDraft(w) \/ CommitPublish(w)
       \/ BeginVerify(w) \/ CommitVerify(w) \/ BeginDelta(w) \/ CommitDelta(w)
       \/ Fails(w) \/ Completes(w)

LoopSpec == LoopInit /\ [][LoopNext]_loopVars

-----------------------------------------------------------------------------
(* Properties *)

DraftsOf(i) == {d \in drafts : d.item = i}

\* However many runs of one close_fixes job overlap, the drafts of an item are
\* versions 1 to n, each of one run, and the books name the drafts that cost
\* something and no others (fixcloser.py 143-148, 186-206).
DraftsAreASequence ==
  \A i \in Items :
    /\ Versions(i) = 1 .. Cardinality(DraftsOf(i))
    /\ {b.by : b \in {x \in bills : x.item = i}} = {d.by : d \in {x \in DraftsOf(i) : x.cost > 0}}

\* The status never says more than the trail behind it: what is live has a
\* publish event and both verifications asked for, what was probed has a url
\* to be probed, and a measured item has a delta and no failed verdict since
\* it was last published (wordpress.py 398-447, verify.py 146-153, receipts.py
\* 1447-1459).
StatusHasItsTrail ==
  \A i \in Items :
    /\ status[i] \in Live => events[i] # <<>> /\ HasDraft(i)
    /\ events[i] # <<>> => NoJob \notin {jobs[<<"early", i>>], jobs[<<"late", i>>]}
    /\ status[i] \in {"verified", "verify_failed"} => WithUrl(i) # {}
    /\ status[i] = "measured" => deltas[i] # {} /\ verdict[i] # "failed"

\* What is live goes back to review for one reason only: two runs of its
\* close_fixes job committed a draft, and one of them had lost its lease or the
\* answer to its COMMIT.  Neither a failure nor the operator's retry of a dead
\* job takes an item back by itself (fixcloser.py 237-240, jobs.py 206-235,
\* api.py 228-241).
ReviewOnlyAfterALoss ==
  [][\A i \in Items : (status[i] \in Live /\ status'[i] = "review")
       => \E d \in drafts' : d.item = i /\ <<<<"close", i>>, d.by>> \in lost]_loopVars
=============================================================================
