------------------------------ MODULE SpendRail ------------------------------
(***************************************************************************)
(* The monthly DataForSEO cap (gm/intel/spend.py) as the jobs that spend   *)
(* meet it: track_serps (gm/intel/rank_tracker.py) buys SERP snapshots     *)
(* through the reuse-before-buy cache of gm/intel/serp.py, generate_brief  *)
(* (gm/content/briefs.py) a snapshot and the volumes of its questions,     *)
(* keyword_gap (gm/intel/labs.py) one keyword list per competitor, and     *)
(* refresh_competitor_profiles (gm/intel/competitors.py), which no guard   *)
(* stops, one overview per competitor and one bulk estimate.               *)
(*                                                                         *)
(* A job's statements run in one READ COMMITTED transaction: it sees what  *)
(* is committed and what it wrote itself, and a rollback forgets its cost  *)
(* events but not the money.  cost_events.created_at is the time the       *)
(* transaction began, the guard looks at the month it is called in.        *)
(***************************************************************************)
EXTENDS Integers, Sequences, FiniteSets

CONSTANTS
  Trackers,     \* track_serps jobs of one site
  Gaps,         \* keyword_gap jobs
  Briefs,       \* generate_brief jobs
  Refreshes,    \* refresh_competitor_profiles jobs
  Together,     \* sets of jobs that are enqueued together
  Wants,        \* what a tracker or a brief asks of the cache, [q, depth], in
                \* order: the active tracked queries; the one query
  Terms,        \* what a brief wants the volumes of: the query and its questions
  Competitors,  \* competitor_domains of the site of a gap job, how many
  Profiled,     \* competitor_domains of the site of a refresh
  Prices,       \* what a call may cost, in cents
  Cap,          \* GM_DFS_MONTHLY_BUDGET_CENTS
  MaxAttempts,
  \* Bounds of the model:
  Months,       \* calendar months, from 1
  MaxExpiries   \* times snapshots outlive their TTL

Readers == Trackers \union Briefs
Jobs    == Readers \union Gaps \union Refreshes

ASSUME SpendAssumption ==
  /\ Trackers \intersect Gaps = {} /\ Trackers \intersect Briefs = {}
  /\ Refreshes \intersect (Readers \union Gaps) = {} /\ Gaps \intersect Briefs = {}
  /\ Together \subseteq SUBSET Jobs
  /\ \A j \in Readers : Wants[j] \in Seq([q : STRING, depth : Nat])
  /\ \A j \in Briefs : Len(Wants[j]) = 1
  /\ \A j \in Gaps : Competitors[j] \in Nat
  /\ \A j \in Briefs : IsFiniteSet(Terms[j])
  /\ \A j \in Refreshes : IsFiniteSet(Profiled[j])
  /\ Prices \subseteq Nat \ {0} /\ \E p \in Prices : \A o \in Prices : o <= p
  /\ Cap \in Nat
  /\ MaxAttempts \in Nat \ {0}
  /\ Months \in Nat \ {0}
  /\ MaxExpiries \in Nat

VARIABLES
  month,
  ledger,    \* committed cost_events, in cents by month
  cache,     \* committed purchases within their TTL, [table, q, depth, by]: the
             \* rows of serp_snapshots, keyword_metrics, competitor_profiles
  ranked,    \* committed rank_history rows: [q, by, depth], with the depth of
             \* the snapshot the rank was read from
  state,     \* "absent", "queued", "open", "done", "dead"
  attempts,
  began,     \* the month the open transaction began in
  step,      \* "look", "guard", "call", "terms", "charge", "store"
  at,        \* the position in the loop, from 1
  misses,    \* terms or domains without a fresh row when they were looked up
  bought,    \* purchases inserted in the open transaction
  noted,     \* rank_history rows of the open transaction
  owed,      \* cents of the cost events of the open transaction
  expiries,
  \* history: who was refused this month, which jobs were open together,
  \* whether the month turned over an attempt, failed snapshots
  refused, met, turned, failedAt

tables == <<ledger, cache, ranked>>
queue  == <<state, attempts>>
work   == <<began, step, at, misses, bought, noted, owed>>
seen   == <<refused, met, turned, failedAt>>
vars   == <<month, tables, queue, work, expiries, seen>>

Init ==
  /\ month = 1
  /\ ledger = [m \in 1..Months |-> 0]
  /\ cache = {}
  /\ ranked = {}
  /\ \E here \in Together : state = [j \in Jobs |-> IF j \in here THEN "queued" ELSE "absent"]
  /\ attempts = [j \in Jobs |-> 0]
  /\ began = [j \in Jobs |-> 1]
  /\ step = [j \in Jobs |-> "look"]
  /\ at = [j \in Jobs |-> 1]
  /\ misses = [j \in Jobs |-> {}]
  /\ bought = [j \in Jobs |-> {}]
  /\ noted = [j \in Jobs |-> {}]
  /\ owed = [j \in Jobs |-> 0]
  /\ expiries = 0
  /\ refused = [j \in Jobs |-> FALSE]
  /\ met = [j \in Jobs |-> {}]
  /\ turned = [j \in Jobs |-> FALSE]
  /\ failedAt = [j \in Jobs |-> {}]

-----------------------------------------------------------------------------
(* The queue around the handlers *)

Open == {j \in Jobs : state[j] = "open"}

Begin(j) ==
  /\ state[j] = "queued"
  /\ state' = [state EXCEPT ![j] = "open"]
  /\ attempts' = [attempts EXCEPT ![j] = @ + 1]
  /\ began' = [began EXCEPT ![j] = month]
  /\ step' = [step EXCEPT ![j] = IF j \in Gaps THEN "guard" ELSE "look"]
  /\ met' = [i \in Jobs |-> IF i = j THEN Open
                            ELSE IF i \in Open THEN met[i] \union {j} ELSE met[i]]
  /\ UNCHANGED <<month, tables, at, misses, bought, noted, owed, expiries, refused,
                 turned, failedAt>>

\* The transaction of j ends.
Forget(j) ==
  /\ began' = [began EXCEPT ![j] = 1]
  /\ step' = [step EXCEPT ![j] = "look"]
  /\ at' = [at EXCEPT ![j] = 1]
  /\ misses' = [misses EXCEPT ![j] = {}]
  /\ bought' = [bought EXCEPT ![j] = {}]
  /\ noted' = [noted EXCEPT ![j] = {}]
  /\ owed' = [owed EXCEPT ![j] = 0]
  /\ turned' = [turned EXCEPT ![j] = FALSE]

\* The handler raised, or its worker died and the lease was reaped.
Rollback(j) ==
  /\ state' = [state EXCEPT ![j] = IF attempts[j] < MaxAttempts THEN "queued" ELSE "dead"]
  /\ failedAt' = [failedAt EXCEPT ![j] = {}]
  /\ Forget(j)
  /\ UNCHANGED <<month, tables, attempts, expiries, met>>

Finish(j) ==
  /\ state[j] = "open"
  /\ \/ j \in Trackers /\ step[j] = "look" /\ at[j] > Len(Wants[j])
     \/ j \in Gaps /\ step[j] = "call" /\ at[j] > Competitors[j]
     \/ j \in Briefs \union Refreshes /\ step[j] = "store"
  /\ state' = [state EXCEPT ![j] = "done"]
  /\ ledger' = [ledger EXCEPT ![began[j]] = @ + owed[j]]
  /\ cache' = cache \union bought[j]
  /\ ranked' = IF j \in Trackers THEN ranked \union noted[j] ELSE ranked
  /\ Forget(j)
  /\ UNCHANGED <<month, attempts, expiries, refused, met, failedAt>>

-----------------------------------------------------------------------------
(* require_dfs_budget *)

\* Mutant: the guard looks from a connection of its own.
SpentCommitted(j) == ledger[month]

\* What the transaction of j sees of this month's cost events.
Spent(j) == ledger[month] + (IF began[j] = month THEN owed[j] ELSE 0)

Exceeded(j) == Spent(j) >= Cap

-----------------------------------------------------------------------------
(* get_snapshot, which track_site calls for each tracked query and           *)
(* generate_brief for its one                                                *)

Want(j) == Wants[j][at[j]]

\* Mutants: snapshots of any depth serve; those of the depth asked for only.
ServesAnyDepth(s, want) == s.table = "snapshots" /\ s.q = want.q
ServesSameDepth(s, want) == s.table = "snapshots" /\ s.q = want.q /\ s.depth = want.depth

\* A deeper snapshot serves a shallower request, never the reverse.
Serves(s, want) == s.table = "snapshots" /\ s.q = want.q /\ s.depth >= want.depth

Purchase(table, q, depth, j) == [table |-> table, q |-> q, depth |-> depth, by |-> j]

\* Mutant: only the job's own purchases are looked at.
CoveredByOwn(j) == \E s \in bought[j] : Serves(s, Want(j))

Covered(j) == \E s \in cache \union bought[j] : Serves(s, Want(j))

\* The rank is noted and the loop moves on to the next query.  Two trackers of
\* one day wait for each other at the row they both write; here neither waits,
\* which allows every order they can end up in, and more.
Note(j, depth) ==
  /\ noted' = [noted EXCEPT ![j] = @ \union {[q |-> Want(j).q, by |-> j, depth |-> depth]}]
  /\ at' = [at EXCEPT ![j] = @ + 1]
  /\ step' = [step EXCEPT ![j] = "look"]

Look(j) ==
  /\ j \in Readers /\ state[j] = "open" /\ step[j] = "look"
  /\ at[j] <= Len(Wants[j])
  /\ \/ \E s \in cache \union bought[j] : Serves(s, Want(j)) /\ Note(j, s.depth)
     \/ /\ ~Covered(j)
        /\ step' = [step EXCEPT ![j] = "guard"]
        /\ UNCHANGED <<noted, at>>
  /\ UNCHANGED <<month, tables, queue, began, misses, bought, owed, expiries, seen>>

Pass(j) ==
  /\ j \in Readers /\ state[j] = "open" /\ step[j] = "guard"
  /\ ~Exceeded(j)
  /\ step' = [step EXCEPT ![j] = "call"]
  /\ UNCHANGED <<month, tables, queue, began, at, misses, bought, noted, owed, expiries, seen>>

\* Mutant: the refusal is counted like a failed snapshot.
RefuseSkips(j) ==
  /\ j \in Readers /\ state[j] = "open" /\ step[j] = "guard"
  /\ Exceeded(j)
  /\ at' = [at EXCEPT ![j] = @ + 1]
  /\ step' = [step EXCEPT ![j] = "look"]
  /\ UNCHANGED <<month, tables, queue, began, misses, bought, noted, owed, expiries, seen>>

\* BudgetExceeded is no SerpError: it leaves track_site and fails the job.
Refuse(j) ==
  /\ j \in Readers /\ state[j] = "open" /\ step[j] = "guard"
  /\ Exceeded(j)
  /\ refused' = [refused EXCEPT ![j] = TRUE]
  /\ Rollback(j)

Buy(j, price) ==
  /\ j \in Readers /\ state[j] = "open" /\ step[j] = "call"
  /\ owed' = [owed EXCEPT ![j] = @ + price]
  /\ bought' = [bought EXCEPT ![j] =
                  @ \union {Purchase("snapshots", Want(j).q, Want(j).depth, j)}]
  /\ Note(j, Want(j).depth)
  /\ UNCHANGED <<month, tables, queue, began, misses, expiries, refused, met, turned, failedAt>>

\* SerpError: track_site counts it, logs it, and the loop goes on.
SnapshotFails(j) ==
  /\ j \in Trackers /\ state[j] = "open" /\ step[j] = "call"
  /\ failedAt' = [failedAt EXCEPT ![j] = @ \union {at[j]}]
  /\ at' = [at EXCEPT ![j] = @ + 1]
  /\ step' = [step EXCEPT ![j] = "look"]
  /\ UNCHANGED <<month, tables, queue, began, misses, bought, noted, owed, expiries,
                 refused, met, turned>>

-----------------------------------------------------------------------------
(* keyword_gap: guarded once, a refusal is a result with a note *)

\* Mutant: the refusal is only noted.
GapGuardNotes(j) ==
  /\ j \in Gaps /\ state[j] = "open" /\ step[j] = "guard"
  /\ step' = [step EXCEPT ![j] = "call"]
  /\ UNCHANGED <<month, tables, queue, began, at, misses, bought, noted, owed, expiries, seen>>

GapGuard(j) ==
  /\ j \in Gaps /\ state[j] = "open" /\ step[j] = "guard"
  /\ step' = [step EXCEPT ![j] = "call"]
  /\ at' = [at EXCEPT ![j] = IF Competitors[j] > 0 /\ Exceeded(j)
                             THEN Competitors[j] + 1 ELSE 1]
  /\ UNCHANGED <<month, tables, queue, began, misses, bought, noted, owed, expiries, seen>>

GapBuy(j, price) ==
  /\ j \in Gaps /\ state[j] = "open" /\ step[j] = "call"
  /\ at[j] <= Competitors[j]
  /\ owed' = [owed EXCEPT ![j] = @ + price]
  /\ at' = [at EXCEPT ![j] = @ + 1]
  /\ UNCHANGED <<month, tables, queue, began, step, misses, bought, noted, expiries,
                 refused, met, turned, failedAt>>

-----------------------------------------------------------------------------
(* get_volumes, which generate_brief calls after its snapshot *)

\* What has no row that is fresh and that the transaction of j sees.
Missing(j, table, names) ==
  {q \in names : ~\E s \in cache \union bought[j] : s.table = table /\ s.q = q}

VolumesLook(j) ==
  /\ j \in Briefs /\ state[j] = "open" /\ step[j] = "look" /\ at[j] > Len(Wants[j])
  /\ misses' = [misses EXCEPT ![j] = Missing(j, "volumes", Terms[j])]
  /\ step' = [step EXCEPT ![j] = IF misses'[j] = {} THEN "store" ELSE "terms"]
  /\ UNCHANGED <<month, tables, queue, began, at, bought, noted, owed, expiries, seen>>

\* The brief takes a refusal, like any error of the call, for a note.
VolumesGuard(j) ==
  /\ j \in Briefs /\ state[j] = "open" /\ step[j] = "terms"
  /\ step' = [step EXCEPT ![j] = IF Exceeded(j) THEN "store" ELSE "charge"]
  /\ UNCHANGED <<month, tables, queue, began, at, misses, bought, noted, owed, expiries, seen>>

VolumesFail(j) ==
  /\ j \in Briefs /\ state[j] = "open" /\ step[j] = "charge"
  /\ step' = [step EXCEPT ![j] = "store"]
  /\ UNCHANGED <<month, tables, queue, began, at, misses, bought, noted, owed, expiries, seen>>

-----------------------------------------------------------------------------
(* refresh_competitor_profiles: no guard *)

RefreshLook(j) ==
  /\ j \in Refreshes /\ state[j] = "open" /\ step[j] = "look"
  /\ misses' = [misses EXCEPT ![j] = Missing(j, "profiles", Profiled[j])]
  /\ step' = [step EXCEPT ![j] = IF misses'[j] = {} THEN "store" ELSE "call"]
  /\ UNCHANGED <<month, tables, queue, began, at, bought, noted, owed, expiries, seen>>

\* One overview for each miss; its row waits for the bulk estimate.
OverviewBuy(j, price) ==
  /\ j \in Refreshes /\ state[j] = "open" /\ step[j] = "call"
  /\ owed' = [owed EXCEPT ![j] = @ + price]
  /\ at' = [at EXCEPT ![j] = @ + 1]
  /\ step' = [step EXCEPT ![j] = IF at[j] = Cardinality(misses[j]) THEN "charge" ELSE "call"]
  /\ UNCHANGED <<month, tables, queue, began, misses, bought, noted, expiries,
                 refused, met, turned, failedAt>>

\* One call for all misses, whose rows are then upserted: search_volume, and
\* bulk_traffic_estimation.
BulkBuy(j, price) ==
  /\ state[j] = "open" /\ step[j] = "charge"
  /\ LET table == IF j \in Briefs THEN "volumes" ELSE "profiles" IN
     bought' = [bought EXCEPT ![j] = @ \union {Purchase(table, q, 0, j) : q \in misses[j]}]
  /\ owed' = [owed EXCEPT ![j] = @ + price]
  /\ step' = [step EXCEPT ![j] = "store"]
  /\ UNCHANGED <<month, tables, queue, began, at, misses, noted, expiries,
                 refused, met, turned, failedAt>>

-----------------------------------------------------------------------------
(* All of them, and the calendar *)

\* Any other error: a SerpError of the gap's client, a statement, a crash.
Break(j) ==
  /\ state[j] = "open"
  /\ Rollback(j)
  /\ UNCHANGED refused

Expire ==
  /\ expiries < MaxExpiries
  /\ expiries' = expiries + 1
  /\ cache # {}
  /\ \E kept \in SUBSET cache : kept # cache /\ cache' = kept
  /\ UNCHANGED <<month, ledger, ranked, queue, work, seen>>

NewMonth ==
  /\ month < Months
  /\ month' = month + 1
  /\ refused' = [j \in Jobs |-> FALSE]
  /\ turned' = [j \in Jobs |-> turned[j] \/ j \in Open]
  /\ UNCHANGED <<tables, queue, work, expiries, met, failedAt>>

JobStep(j) ==
  \/ Begin(j) \/ Look(j) \/ Pass(j) \/ Refuse(j) \/ SnapshotFails(j)
  \/ VolumesLook(j) \/ VolumesGuard(j) \/ VolumesFail(j)
  \/ GapGuard(j) \/ RefreshLook(j) \/ Break(j) \/ Finish(j)
  \/ \E price \in Prices :
       Buy(j, price) \/ GapBuy(j, price) \/ OverviewBuy(j, price) \/ BulkBuy(j, price)

Next == (\E j \in Jobs : JobStep(j)) \/ Expire \/ NewMonth

Spec == Init /\ [][Next]_vars

-----------------------------------------------------------------------------
(* Properties *)

Dearest == CHOOSE p \in Prices : \A o \in Prices : o <= p

TypeOK ==
  /\ month \in 1..Months
  /\ ledger \in [1..Months -> Nat]
  /\ state \in [Jobs -> {"absent", "queued", "open", "done", "dead"}]
  /\ attempts \in [Jobs -> 0..MaxAttempts]
  /\ step \in [Jobs -> {"look", "guard", "call", "terms", "charge", "store"}]
  /\ \A s \in cache : s.by \in Jobs \ Gaps /\ state[s.by] = "done"
  /\ \A r \in ranked : r.by \in Trackers /\ state[r.by] = "done"
  /\ owed \in [Jobs -> Nat]
  /\ \A j \in Jobs : state[j] # "open" => owed[j] = 0 /\ bought[j] = {} /\ at[j] = 1

\* A tracker or a brief that meets no other spender and no month's end takes
\* the month past the cap by less than the price of its last call: it sees its
\* own uncommitted cost events, so one transaction cannot spend blindly.
SoloRespectsCap ==
  \A j \in Readers :
    state[j] = "open" /\ met[j] = {} /\ ~turned[j] /\ owed[j] > 0
    => ledger[month] + owed[j] < Cap + Dearest

\* A gap job is guarded once for all its calls; alone, it overshoots by less
\* than what its competitors cost.
GapOvershootBounded ==
  \A j \in Gaps :
    state[j] = "open" /\ met[j] = {} /\ ~turned[j] /\ owed[j] > 0
    => ledger[month] + owed[j] < Cap + Dearest * Competitors[j]

\* No snapshot, volume or profile is bought while a fresh one that is at least as
\* deep is there to be seen, unless it comes from another job that was open at the
\* same time, whose purchase the lookup could not see before it committed
\* (serp.py 411-427, 489-503; competitors.py 86-95).
ReuseBeforeBuy ==
  [][\A j \in Jobs :
       \A p \in bought'[j] \ bought[j], s \in cache \union bought[j] :
         s.table = p.table /\ s.q = p.q /\ s.depth >= p.depth => s.by \in met[j]]_vars

\* A refusal is never passed over in silence, and a deep query is never served
\* from a shallow snapshot: a tracker is done only with a rank, read as deep as
\* was asked, for every query whose snapshot did not itself fail.
DoneMeansTracked ==
  \A j \in Trackers : state[j] = "done" =>
    \A i \in 1..Len(Wants[j]) :
      \/ i \in failedAt[j]
      \/ \E r \in ranked : /\ r.q = Wants[j][i].q /\ r.by = j
                           /\ r.depth >= Wants[j][i].depth

\* `each one is a cheap no-spend refusal' (spend.py:42-43): once refused, a
\* job spends nothing more that month.
RefusedRetriesAreFree ==
  [][\A j \in Jobs : refused[j] => owed'[j] <= owed[j]]_vars

=============================================================================
