--------------------------- MODULE OpportunityQueue ---------------------------
(***************************************************************************)
(* The opportunity queue of one site, queue_items: the jobs that fill it   *)
(* (compute_queue of gm/intel/detectors.py, keyword_gap of gm/intel/       *)
(* labs.py, discover_competitors of gm/intel/discovery.py) and the         *)
(* operator who confirms or dismisses candidates (discovery.py, gm/cli.py).*)
(*                                                                         *)
(* The two jobs that buy from DataForSEO read the site's competitors before *)
(* the paid calls and write the queue after them; meanwhile the operator   *)
(* and the other jobs go on.  A row of the queue is known by its key, the  *)
(* kind and the target.                                                    *)
(***************************************************************************)
EXTENDS Detectors, TLC

CONSTANTS
  Sights,      \* what the detectors may see: [daily, aggregates, latestFinal, finalDays, pages, local]
  NoClicks,    \* a window without clicks to compare
  Buyers,      \* workers in which paid jobs run
  Keywords,    \* ranked keywords a purchase may return
  Present,     \* queries the site is already found for
  Ranking,     \* rows of competing domains a purchase may return
  ClientHosts, Denied,
  Limits,      \* limits a discovery may be asked for
  Lists,       \* competitor lists the operator may set
  Domains,     \* domains the operator decides about
  SnoozeDays,
  LastDay      \* bound: days counted

ASSUME QueueAssumption ==
  /\ SnoozeDays \in Nat /\ LastDay \in Nat /\ Limits \subseteq Int
  /\ \A list \in Lists : list \in Seq(Range(list))

VARIABLES
  queue,       \* [keys -> [status, until]]: the rows of queue_items
  configured,  \* sites.competitor_domains
  today,
  buying,      \* [Buyers -> the paid job it runs, with the list it has read]
  unseen       \* history: domains configured while, or in a way that, the
               \* candidate's row was not marked

queueVars == <<queue, configured, today, buying, unseen>>

NoPurchase == [job |-> "none", list |-> <<>>, limit |-> 0]
Candidate(d) == <<"competitor_candidate", <<d>>>>
NotSnoozed == 0

QueueInit ==
  /\ queue = << >>
  /\ configured \in Lists
  /\ today = 1
  /\ buying = [w \in Buyers |-> NoPurchase]
  /\ unseen = {}

-----------------------------------------------------------------------------
(* queue_items *)

Key(finding) == <<finding.kind, finding.target>>

\* Mutant: the conflict clause has no where.
MayRefreshAny(row) == TRUE

\* What the upsert may overwrite: open rows and those whose snooze is over.
MayRefresh(row) ==
  \/ row.status = "open"
  \/ row.status = "dismissed" /\ row.until # NotSnoozed /\ row.until < today

\* Every finding once; rows that no finding names are left alone.
Upserted(found) ==
  LET opened == [status |-> "open", until |-> NotSnoozed]
      fresh  == {Key(f) : f \in found} \ {k \in DOMAIN queue : ~MayRefresh(queue[k])}
  IN  [k \in fresh \union DOMAIN queue |-> IF k \in fresh THEN opened ELSE queue[k]]

-----------------------------------------------------------------------------
(* The jobs *)

ComputeQueueJob ==
  /\ \E seen \in Sights : queue' = Upserted(ComputeQueue(seen, NoClicks))
  /\ UNCHANGED <<configured, today, buying, unseen>>

Buy(w, job, limit) ==
  /\ buying[w] = NoPurchase
  /\ buying' = [buying EXCEPT ![w] = [job |-> job, list |-> configured, limit |-> limit]]
  /\ UNCHANGED <<queue, configured, today, unseen>>

\* Without competitors nothing is bought.
StartKeywordGap(w) == configured # <<>> /\ Buy(w, "keyword_gap", 0)

\* A limit above the maximum is refused, never cut.
StartDiscovery(w, limit) == limit \in 1 .. MAX_COMPETITORS /\ Buy(w, "discover_competitors", limit)

Done(w) == buying' = [buying EXCEPT ![w] = NoPurchase]

FinishKeywordGap(w) ==
  /\ buying[w].job = "keyword_gap"
  /\ \E ranked \in SUBSET Keywords :
       queue' = Upserted(KeywordGap(buying[w].list, ranked, Present, 10, 10))
  /\ Done(w)
  /\ UNCHANGED <<configured, today, unseen>>

\* The candidates are filtered by the list that was read before the purchase.
FinishDiscovery(w) ==
  /\ buying[w].job = "discover_competitors"
  /\ \E rows \in SUBSET Ranking :
       queue' = Upserted(Candidates(rows, Range(buying[w].list), ClientHosts, Denied,
                                    buying[w].limit))
  /\ Done(w)
  /\ UNCHANGED <<configured, today, unseen>>

\* The spend guard or the provider refuses, or the worker dies: nothing is queued.
PurchaseFails(w) ==
  /\ buying[w] # NoPurchase /\ Done(w)
  /\ UNCHANGED <<queue, configured, today, unseen>>

-----------------------------------------------------------------------------
(* The operator *)

Decidable(d) ==
  Candidate(d) \in DOMAIN queue /\ queue[Candidate(d)].status \in {"open", "dismissed"}

\* Mutant: the domain is configured and its row stays open.
ConfirmedQueueOnly(d) == queue

ConfirmedQueue(d) ==
  IF Decidable(d)
  THEN [queue EXCEPT ![Candidate(d)].status = "actioned", ![Candidate(d)].until = NotSnoozed]
  ELSE queue

\* Without a row the domain is configured all the same, and nothing keeps a
\* discovery that has read the list before from queueing it.
Confirm(d) ==
  /\ configured' = IF d \in Range(configured) THEN configured ELSE Append(configured, d)
  /\ queue' = ConfirmedQueue(d)
  /\ unseen' = IF /\ Candidate(d) \notin DOMAIN queue
                  /\ \E w \in Buyers : /\ buying[w].job = "discover_competitors"
                                        /\ d \notin Range(buying[w].list)
               THEN unseen \union {d} ELSE unseen
  /\ UNCHANGED <<today, buying>>

Dismiss(d) ==
  /\ Decidable(d)
  /\ queue' = [queue EXCEPT ![Candidate(d)].status = "dismissed",
                            ![Candidate(d)].until = today + SnoozeDays]
  /\ UNCHANGED <<configured, today, buying, unseen>>

\* gm site set-competitors overwrites the list and does not look at the queue.
SetCompetitors(list) ==
  /\ configured' = list
  /\ unseen' = unseen \union (Range(list) \ Range(configured))
  /\ UNCHANGED <<queue, today, buying>>

NextDay ==
  /\ today < LastDay /\ today' = today + 1
  /\ UNCHANGED <<queue, configured, buying, unseen>>

QueueNext ==
  \/ ComputeQueueJob \/ NextDay
  \/ \E w \in Buyers :
       StartKeywordGap(w) \/ FinishKeywordGap(w) \/ FinishDiscovery(w) \/ PurchaseFails(w)
         \/ \E limit \in Limits : StartDiscovery(w, limit)
  \/ \E d \in Domains : Confirm(d) \/ Dismiss(d)
  \/ \E list \in Lists : SetCompetitors(list)

QueueSpec == QueueInit /\ [][QueueNext]_queueVars

-----------------------------------------------------------------------------
(* Properties *)

\* No job undoes what the operator has decided: no row is lost, an actioned
\* row stays so, a dismissed one comes back after its snooze only
\* (detectors.py 110-123) -- and no competitor the operator has confirmed is
\* queued as a candidate, unless it became one behind the queue's back: by
\* set-competitors, or with no row to mark while a discovery was paying for
\* the list it had read (discovery.py 130, 164, 244-257).
OperatorDecisionsStand ==
  [][/\ \A k \in DOMAIN queue :
          /\ k \in DOMAIN queue'
          /\ queue[k].status = "actioned" => queue'[k].status = "actioned"
          /\ (queue[k].status = "dismissed" /\ queue'[k].status = "open")
               => queue[k].until < today
     /\ \A d \in Range(configured') \ unseen' :
          Candidate(d) \in DOMAIN queue' => queue'[Candidate(d)].status # "open"]_queueVars
=============================================================================
