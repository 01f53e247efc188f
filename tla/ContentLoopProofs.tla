-------------------------- MODULE ContentLoopProofs --------------------------
(* Proofs about the content loop, for any items, workers and lost leases.     *)
EXTENDS ContentLoop, FiniteSetTheorems, WellFoundedInduction, TLAPS

-----------------------------------------------------------------------------
(* The inductive invariant *)

Job == [status : {"none", "queued", "running", "done", "dead"}, attempts : Nat,
        runs : Nat, owner : Workers \union {"nobody"}]

Begun     == [phase : {"begun"}, kind : Kinds, item : Items, run : Nat]
Writing   == [phase : {"writing", "inserted", "committed"}, kind : {"close"},
              item : Items, run : Nat, version : Nat \ {0}, cost : Costs]
Posted    == [phase : {"posted", "committed"}, kind : {"publish"}, item : Items,
              run : Nat, url : BOOLEAN]
Probing   == [phase : {"probing", "committed"}, kind : {"early", "late"},
              item : Items, run : Nat, event : Nat]
Comparing == [phase : {"comparing", "committed"}, kind : {"delta"},
              item : Items, run : Nat, event : Nat]

TypeInv ==
  /\ jobs \in [Keys -> Job]
  /\ work \in [Workers -> {NoRun} \union Begun \union Writing \union Posted
                            \union Probing \union Comparing]
  /\ drafts \subseteq [item : Items, version : Nat \ {0}, cost : Costs, by : Nat]
  /\ bills \subseteq [item : Items, cost : Nat, by : Nat]
  /\ status \in [Items -> {"absent", "briefed", "review"} \union Live]
  /\ events \in [Items -> Seq(BOOLEAN)]
  /\ verdict \in [Items -> {"none", "passed", "failed"}]
  /\ DOMAIN deltas = Items

\* A run is one of its job's claims, and nobody else's.
RunsInv ==
  /\ \A w \in Workers : work[w] # NoRun =>
       work[w].run \in 1 .. jobs[<<work[w].kind, work[w].item>>].runs
  /\ \A u, w \in Workers :
       u # w /\ work[u] # NoRun /\ work[w] # NoRun
         /\ work[u].kind = work[w].kind /\ work[u].item = work[w].item
         => work[u].run # work[w].run

\* Before an item is created nothing is known of it.
AbsentInv ==
  \A i \in Items : status[i] = "absent" =>
    /\ DraftsOf(i) = {} /\ events[i] = <<>>
    /\ \A b \in bills : b.item # i
    /\ \A kind \in Kinds : jobs[<<kind, i>>] = NoJob

\* The committed versions are 1 to n; who writes has read one of them or the
\* next, and one run at most has inserted, the next.
VersionsInv ==
  /\ \A i \in Items : /\ IsFiniteSet(DraftsOf(i))
                      /\ Versions(i) = 1 .. Cardinality(DraftsOf(i))
  /\ \A w \in Workers : Running(w, "close", "writing") =>
       work[w].version <= Cardinality(DraftsOf(work[w].item)) + 1
  /\ \A w \in Workers : Running(w, "close", "inserted") =>
       /\ work[w].version = Cardinality(DraftsOf(work[w].item)) + 1
       /\ \A u \in Workers \ {w} :
            Running(u, "close", "inserted") => work[u].item # work[w].item

\* The books name the drafts that cost something.
BooksInv ==
  \A i \in Items :
    {b.by : b \in {x \in bills : x.item = i}} = {d.by : d \in {x \in DraftsOf(i) : x.cost > 0}}

\* A draft is by the operator, and its item has no close job, or by a run that
\* does not commit again.
AuthorsInv ==
  \A d \in drafts :
    /\ d.by = 0 => jobs[<<"close", d.item>>] = NoJob
    /\ d.by <= jobs[<<"close", d.item>>].runs
    /\ \A w \in Workers :
         (work[w] # NoRun /\ work[w].kind = "close" /\ work[w].item = d.item
            /\ work[w].phase # "committed") => work[w].run # d.by

\* What a run has read of the trail stays true.
TrailInv ==
  /\ \A i \in Items :
       /\ events[i] # <<>> =>
            HasDraft(i) /\ jobs[<<"early", i>>] # NoJob /\ jobs[<<"late", i>>] # NoJob
       /\ status[i] \in Live => events[i] # <<>>
       /\ status[i] \in {"verified", "verify_failed"} => WithUrl(i) # {}
       /\ status[i] \in {"published", "verified", "measured"} => verdict[i] # "failed"
       /\ status[i] = "measured" => deltas[i] # {}
  /\ \A w \in Workers :
       /\ Running(w, "publish", "posted") => HasDraft(work[w].item)
       /\ Running(w, "early", "probing") \/ Running(w, "late", "probing")
            => WithUrl(work[w].item) # {}

KeyOf(w) == <<work[w].kind, work[w].item>>

\* The run holds its job, and is the latest of it.
Holds(w) == Owns(w, KeyOf(w)) /\ jobs[KeyOf(w)].runs = work[w].run

\* A committed draft is the last word of its job: the job is done, or is held by
\* the run that committed it.
LastWord(d) ==
  LET k == <<"close", d.item>> IN
  /\ jobs[k].runs = d.by
  /\ \/ jobs[k].status = "done"
     \/ \E w \in Workers : /\ work[w] # NoRun /\ KeyOf(w) = k /\ work[w].run = d.by
                           /\ work[w].phase = "committed" /\ Owns(w, k)

HeldOrLost(w) == Holds(w) \/ <<KeyOf(w), work[w].run>> \in lost

LastOrLost(d) == LastWord(d) \/ <<<<"close", d.item>>, d.by>> \in lost

\* A run that does not hold its job lost it, and a draft that is not the last
\* word is of a run that lost its lease or the answer to its COMMIT.
LossInv ==
  /\ \A w \in Workers : work[w] # NoRun => HeldOrLost(w)
  /\ \A d \in drafts : d.by # 0 => LastOrLost(d)

IInv == /\ TypeInv /\ RunsInv /\ AbsentInv /\ VersionsInv /\ BooksInv
        /\ AuthorsInv /\ TrailInv /\ LossInv

-----------------------------------------------------------------------------
(* Numbers *)

\* The least-number principle, for a set.
LEMMA LeastNatural ==
  ASSUME NEW T, T \subseteq Nat, T # {}
  PROVE  \E m \in T : \A k \in T : m <= k
<1>. DEFINE Less == OpToRel(<, Nat)
<1>1. IsWellFoundedOn(Less, Nat)
  BY NatLessThanWellFounded
<1>2. \A x, y \in Nat : y < x => <<y, x>> \in Less
  BY DEF OpToRel
<1>. HIDE DEF Less
<1>3. PICK m \in T : \A k \in T : ~(<<k, m>> \in Less)
  BY <1>1, WFMin
<1>4. \A k \in T : ~(k < m) /\ k \in Nat /\ m \in Nat
  BY <1>2, <1>3
<1>5. \A k \in T : m <= k
  BY <1>4
<1>. QED
  BY <1>5

\* A bounded set has a greatest element.
LEMMA GreatestNatural ==
  ASSUME NEW T, T \subseteq Nat, T # {}, NEW n \in Nat, \A k \in T : k <= n
  PROVE  \E m \in T : \A k \in T : k <= m
<1>. DEFINE R == {x \in Nat : \E k \in T : x = n - k}
<1>0. \A k \in T : n - k \in Nat /\ n - k \in R
  OBVIOUS
<1>1. R \subseteq Nat /\ R # {}
  BY <1>0
<1>. HIDE DEF R
<1>2. PICK r \in R : \A x \in R : r <= x
  BY <1>1, LeastNatural
<1>3. PICK m \in T : r = n - m
  BY DEF R
<1>4. \A k \in T : n - m <= n - k /\ k \in Nat /\ m \in Nat
  BY <1>0, <1>2, <1>3
<1>5. \A k \in T : k <= m
  BY <1>4
<1>. QED
  BY <1>5

\* The next version is one more than there are drafts.
LEMMA NextVersionIs ==
  ASSUME VersionsInv, NEW i \in Items
  PROVE  /\ Cardinality(DraftsOf(i)) \in Nat
         /\ NextVersion(i) = Cardinality(DraftsOf(i)) + 1
<1>. DEFINE n == Cardinality(DraftsOf(i))
<1>1. n \in Nat /\ Versions(i) = 1 .. n
  BY FS_CardinalityType DEF VersionsInv
<1>. HIDE DEF n
<1>2. Versions(i) \union {0} = 0 .. n
  BY <1>1
<1>3. Max(0 .. n) = n
  BY <1>1 DEF Max
<1>. QED
  BY <1>1, <1>2, <1>3 DEF NextVersion, n

\* The latest event with a url is one.
LEMMA LatestIsEvent ==
  ASSUME TypeInv, NEW i \in Items, WithUrl(i) # {}
  PROVE  Max(WithUrl(i)) \in Nat
<1>1. events[i] \in Seq(BOOLEAN)
  BY DEF TypeInv
<1>2. WithUrl(i) \subseteq Nat /\ Len(events[i]) \in Nat /\ \A k \in WithUrl(i) : k <= Len(events[i])
  BY <1>1 DEF WithUrl
<1>3. PICK m \in WithUrl(i) : \A k \in WithUrl(i) : k <= m
  BY <1>2, GreatestNatural
<1>4. \A k \in WithUrl(i) : m >= k
  BY <1>2, <1>3
<1>. QED
  BY <1>2, <1>4 DEF Max

-----------------------------------------------------------------------------
(* Runs *)

\* What a run is, by its phase.
LEMMA RunShapes ==
  ASSUME TypeInv, NEW w \in Workers
  PROVE  /\ work[w] # NoRun => /\ work[w].kind \in Kinds /\ work[w].item \in Items
                               /\ work[w].run \in Nat /\ work[w].phase # "idle"
         /\ work[w].phase = "begun" => work[w] \in Begun
         /\ work[w].phase \in {"writing", "inserted"} => work[w] \in Writing
         /\ work[w].phase = "posted" => work[w] \in Posted
         /\ work[w].phase = "probing" => work[w] \in Probing
         /\ work[w].phase = "comparing" => work[w] \in Comparing
BY DEF TypeInv, NoRun, Begun, Writing, Posted, Probing, Comparing, Kinds

\* A run that changes its phase keeps everything else.
LEMMA PhaseShapes ==
  /\ \A r \in Writing : \A p \in {"writing", "inserted", "committed"} :
       LET q == [r EXCEPT !.phase = p] IN
       q \in Writing /\ q.phase = p /\ q.kind = r.kind /\ q.item = r.item /\ q.run = r.run
         /\ q.version = r.version
  /\ \A r \in Posted :
       LET q == [r EXCEPT !.phase = "committed"] IN
       q \in Posted /\ q.phase = "committed" /\ q.kind = r.kind /\ q.item = r.item /\ q.run = r.run
  /\ \A r \in Probing :
       LET q == [r EXCEPT !.phase = "committed"] IN
       q \in Probing /\ q.phase = "committed" /\ q.kind = r.kind /\ q.item = r.item /\ q.run = r.run
  /\ \A r \in Comparing :
       LET q == [r EXCEPT !.phase = "committed"] IN
       q \in Comparing /\ q.phase = "committed" /\ q.kind = r.kind /\ q.item = r.item /\ q.run = r.run
BY DEF Writing, Posted, Probing, Comparing

SameRun(w) ==
  /\ work[w] # NoRun /\ work'[w] # NoRun
  /\ work'[w].kind = work[w].kind /\ work'[w].item = work[w].item
  /\ work'[w].run = work[w].run

Others(w) == \A u \in Workers \ {w} : work'[u] = work[u]

\* Any number of new keys leaves the claims and the jobs that are there.
LEMMA EnqueuedKeeps ==
  ASSUME TypeInv, NEW ks \in SUBSET Keys, jobs' = Enqueued(jobs, ks)
  PROVE  /\ jobs' \in [Keys -> Job]
         /\ \A k \in Keys : /\ jobs'[k].runs = jobs[k].runs
                            /\ jobs[k] # NoJob => jobs'[k] = jobs[k]
                            /\ jobs'[k] = NoJob <=> jobs[k] = NoJob /\ k \notin ks
<1>1. NoJob \in Job /\ [NoJob EXCEPT !.status = "queued"] \in Job
  BY DEF NoJob, Job
<1>2. /\ [NoJob EXCEPT !.status = "queued"].runs = NoJob.runs
      /\ [NoJob EXCEPT !.status = "queued"].status # NoJob.status
  BY DEF NoJob
<1>. QED
  BY <1>1, <1>2 DEF Enqueued, TypeInv

\* A job that is queued again keeps its claims.
LEMMA RequeuedKeeps ==
  ASSUME NEW job \in Job
  PROVE  Requeued(job) \in Job /\ Requeued(job).runs = job.runs /\ Requeued(job) # NoJob
<1>1. Requeued(job).status \in {"dead", "queued"}
  BY DEF Requeued, Job
<1>. QED
  BY <1>1 DEF Requeued, Job, NoJob

Shapes == {NoRun} \union Begun \union Writing \union Posted \union Probing \union Comparing

\* A step of a run within its transaction.
Moves(w) ==
  \/ EngineAnswers(w) \/ InsertDraft(w) \/ CommitDraft(w)
  \/ PostDraft(w) \/ CommitPublish(w)
  \/ BeginVerify(w) \/ CommitVerify(w) \/ BeginDelta(w) \/ CommitDelta(w)

\* It stays the same run.
LEMMA MovesStay ==
  ASSUME TypeInv, VersionsInv, NEW w \in Workers, Moves(w)
  PROVE  work' \in [Workers -> Shapes] /\ SameRun(w) /\ Others(w) /\ work'[w].phase # "begun"
<1>0. DOMAIN work = Workers /\ work \in [Workers -> Shapes]
  BY DEF TypeInv, Shapes
<1>1. ASSUME NEW r, work' = [work EXCEPT ![w] = r], r \in Shapes \ {NoRun}, r.phase # "begun",
             r.kind = work[w].kind, r.item = work[w].item, r.run = work[w].run, work[w] # NoRun
      PROVE  work' \in [Workers -> Shapes] /\ SameRun(w) /\ Others(w) /\ work'[w].phase # "begun"
  BY <1>0, <1>1 DEF SameRun, Others
<1>2. \A r \in Writing \union Posted \union Probing \union Comparing :
        r.phase # "begun" => r \in Shapes \ {NoRun}
  BY DEF Shapes, NoRun, Writing, Posted, Probing, Comparing
<1>3. CASE EngineAnswers(w)
  <2>1. work[w] \in Begun /\ work[w].kind = "close" /\ work[w] # NoRun
    BY <1>3, RunShapes DEF EngineAnswers, Running
  <2>2. PICK cost \in Costs : work' = [work EXCEPT ![w] =
         [phase |-> "writing", kind |-> "close", item |-> work[w].item, run |-> work[w].run,
          version |-> NextVersion(work[w].item), cost |-> cost]]
    BY <1>3 DEF EngineAnswers
  <2>3. work[w].item \in Items /\ work[w].run \in Nat
    BY <2>1 DEF Begun
  <2>4. NextVersion(work[w].item) \in Nat \ {0}
    BY <2>3, NextVersionIs
  <2>5. [phase |-> "writing", kind |-> "close", item |-> work[w].item, run |-> work[w].run,
         version |-> NextVersion(work[w].item), cost |-> cost] \in Writing
    BY <2>3, <2>4 DEF Writing
  <2>6. PICK r \in Writing : /\ work' = [work EXCEPT ![w] = r] /\ r.phase # "begun"
                             /\ r.kind = work[w].kind /\ r.item = work[w].item
                             /\ r.run = work[w].run
    BY <2>1, <2>2, <2>5
  <2>. QED
    BY <1>1, <1>2, <2>1, <2>6
<1>4. CASE InsertDraft(w) \/ CommitDraft(w)
  <2>1. work[w] \in Writing /\ work[w] # NoRun
    BY <1>4, RunShapes DEF InsertDraft, CommitDraft, Running
  <2>2. PICK p \in {"inserted", "committed"} : work' = [work EXCEPT ![w] = [work[w] EXCEPT !.phase = p]]
    BY <1>4 DEF InsertDraft, CommitDraft, Phase
  <2>. QED
    BY <1>1, <1>2, <2>1, <2>2, PhaseShapes
<1>5. CASE PostDraft(w)
  <2>1. work[w] \in Begun /\ work[w].kind = "publish" /\ work[w] # NoRun
    BY <1>5, RunShapes DEF PostDraft, Running
  <2>2. PICK url \in BOOLEAN : work' = [work EXCEPT ![w] =
         [phase |-> "posted", kind |-> "publish", item |-> work[w].item, run |-> work[w].run,
          url |-> url]]
    BY <1>5 DEF PostDraft
  <2>3. [phase |-> "posted", kind |-> "publish", item |-> work[w].item, run |-> work[w].run,
         url |-> url] \in Posted
    BY <2>1 DEF Begun, Posted
  <2>4. PICK r \in Posted : /\ work' = [work EXCEPT ![w] = r] /\ r.phase # "begun"
                             /\ r.kind = work[w].kind /\ r.item = work[w].item
                             /\ r.run = work[w].run
    BY <2>1, <2>2, <2>3
  <2>. QED
    BY <1>1, <1>2, <2>1, <2>4
<1>6. CASE CommitPublish(w)
  <2>1. work[w] \in Posted /\ work[w] # NoRun
    BY <1>6, RunShapes DEF CommitPublish, Running
  <2>2. work' = [work EXCEPT ![w] = [work[w] EXCEPT !.phase = "committed"]]
    BY <1>6 DEF CommitPublish, Phase
  <2>. QED
    BY <1>1, <1>2, <2>1, <2>2, PhaseShapes
<1>7. CASE BeginVerify(w)
  <2>1. /\ work[w] \in Begun /\ work[w].kind \in {"early", "late"} /\ work[w] # NoRun
        /\ WithUrl(work[w].item) # {}
    BY <1>7, RunShapes DEF BeginVerify, Running
  <2>2. work' = [work EXCEPT ![w] =
         [phase |-> "probing", kind |-> work[w].kind, item |-> work[w].item, run |-> work[w].run,
          event |-> Max(WithUrl(work[w].item))]]
    BY <1>7 DEF BeginVerify
  <2>3. work[w].item \in Items /\ work[w].run \in Nat /\ Max(WithUrl(work[w].item)) \in Nat
    BY <2>1, LatestIsEvent DEF Begun
  <2>4. [phase |-> "probing", kind |-> work[w].kind, item |-> work[w].item, run |-> work[w].run,
         event |-> Max(WithUrl(work[w].item))] \in Probing
    BY <2>1, <2>3 DEF Probing
  <2>5. PICK r \in Probing : /\ work' = [work EXCEPT ![w] = r] /\ r.phase # "begun"
                             /\ r.kind = work[w].kind /\ r.item = work[w].item
                             /\ r.run = work[w].run
    BY <2>1, <2>2, <2>4
  <2>. QED
    BY <1>1, <1>2, <2>1, <2>5
<1>8. CASE CommitVerify(w)
  <2>1. work[w] \in Probing /\ work[w] # NoRun
    BY <1>8, RunShapes DEF CommitVerify, Running
  <2>2. work' = [work EXCEPT ![w] = [work[w] EXCEPT !.phase = "committed"]]
    BY <1>8 DEF CommitVerify, Phase
  <2>. QED
    BY <1>1, <1>2, <2>1, <2>2, PhaseShapes
<1>9. CASE BeginDelta(w)
  <2>1. work[w] \in Begun /\ work[w].kind = "delta" /\ work[w] # NoRun
    BY <1>9, RunShapes DEF BeginDelta, Running
  <2>2. work' = [work EXCEPT ![w] =
         [phase |-> "comparing", kind |-> "delta", item |-> work[w].item, run |-> work[w].run,
          event |-> Len(events[work[w].item])]]
    BY <1>9 DEF BeginDelta
  <2>3. work[w].item \in Items /\ work[w].run \in Nat
    BY <2>1 DEF Begun
  <2>4. Len(events[work[w].item]) \in Nat
    BY <2>3 DEF TypeInv
  <2>5. [phase |-> "comparing", kind |-> "delta", item |-> work[w].item, run |-> work[w].run,
         event |-> Len(events[work[w].item])] \in Comparing
    BY <2>3, <2>4 DEF Comparing
  <2>6. PICK r \in Comparing : /\ work' = [work EXCEPT ![w] = r] /\ r.phase # "begun"
                             /\ r.kind = work[w].kind /\ r.item = work[w].item
                             /\ r.run = work[w].run
    BY <2>1, <2>2, <2>5
  <2>. QED
    BY <1>1, <1>2, <2>1, <2>6
<1>10. CASE CommitDelta(w)
  <2>1. work[w] \in Comparing /\ work[w] # NoRun
    BY <1>10, RunShapes DEF CommitDelta, Running
  <2>2. work' = [work EXCEPT ![w] = [work[w] EXCEPT !.phase = "committed"]]
    BY <1>10 DEF CommitDelta, Phase
  <2>. QED
    BY <1>1, <1>2, <2>1, <2>2, PhaseShapes
<1>. QED
  BY <1>3, <1>4, <1>5, <1>6, <1>7, <1>8, <1>9, <1>10 DEF Moves
-----------------------------------------------------------------------------
(* What a step does to the jobs and to the runs *)

\* Who runs has a job, and so an item.
LEMMA RunHasJob ==
  ASSUME TypeInv, RunsInv, AbsentInv, NEW w \in Workers, work[w] # NoRun
  PROVE  /\ <<work[w].kind, work[w].item>> \in Keys
         /\ jobs[<<work[w].kind, work[w].item>>] # NoJob
         /\ status[work[w].item] # "absent"
<1>1. work[w].kind \in Kinds /\ work[w].item \in Items
  BY RunShapes
<1>2. <<work[w].kind, work[w].item>> \in Keys
  BY <1>1 DEF Keys
<1>3. jobs[<<work[w].kind, work[w].item>>].runs # 0
  <2>1. /\ jobs[<<work[w].kind, work[w].item>>].runs \in Nat
        /\ work[w].run \in 1 .. jobs[<<work[w].kind, work[w].item>>].runs
    BY <1>2 DEF RunsInv, TypeInv, Job
  <2>. QED
    BY <2>1
<1>4. jobs[<<work[w].kind, work[w].item>>] # NoJob
  BY <1>3 DEF NoJob
<1>. QED
  BY <1>1, <1>2, <1>4 DEF AbsentInv

Claims == \E w \in Workers, k \in Keys : Claim(w, k)

\* Jobs stay, their runs are counted by claims only, and a new job is the
\* close_fixes of a new item or another job of an item that is there.
JobsGoOn ==
  /\ jobs' \in [Keys -> Job]
  /\ \A k \in Keys :
       /\ jobs[k] # NoJob => jobs'[k] # NoJob
       /\ ~Claims => jobs'[k].runs = jobs[k].runs
       /\ jobs[k] = NoJob /\ jobs'[k] # NoJob =>
            CloseFixes(k[2]) \/ (k[1] # "close" /\ status[k[2]] # "absent")

\* Every step leaves the jobs so.
LEMMA JobsStep ==
  ASSUME TypeInv, RunsInv, AbsentInv, LoopNext
  PROVE  JobsGoOn
<1>0. jobs \in [Keys -> Job]
  BY DEF TypeInv
<1>1. CASE UNCHANGED jobs
  BY <1>0, <1>1 DEF JobsGoOn
<1>2. ASSUME NEW ks \in SUBSET Keys, jobs' = Enqueued(jobs, ks),
             \A k \in ks : CloseFixes(k[2]) \/ (k[1] # "close" /\ status[k[2]] # "absent")
      PROVE  JobsGoOn
  BY <1>0, <1>2, EnqueuedKeeps DEF JobsGoOn
<1>3. ASSUME NEW k \in Keys, NEW job \in Job, jobs' = [jobs EXCEPT ![k] = job],
             jobs[k] # NoJob, job # NoJob, Claims \/ job.runs = jobs[k].runs
      PROVE  JobsGoOn
  BY <1>0, <1>3 DEF JobsGoOn
<1>4. \A k \in Keys : jobs[k].status # "none" => jobs[k] # NoJob
  BY DEF NoJob
<1>5. ASSUME NEW i \in Items, CloseFixes(i)
      PROVE  JobsGoOn
  <2>1. {<<"close", i>>} \in SUBSET Keys /\ \A k \in {<<"close", i>>} : k[2] = i
    BY DEF Keys, Kinds
  <2>. QED
    BY <1>2, <1>5, <2>1 DEF CloseFixes
<1>6. ASSUME NEW i \in Items, Publish(i) \/ AskForDelta(i)
      PROVE  JobsGoOn
  <2>1. PICK kind \in {"publish", "delta"} : jobs' = Enqueued(jobs, {<<kind, i>>}) /\ status[i] # "absent"
    BY <1>6 DEF Publish, AskForDelta
  <2>2. {<<kind, i>>} \in SUBSET Keys /\ \A k \in {<<kind, i>>} : k[2] = i /\ k[1] # "close"
    BY DEF Keys, Kinds
  <2>. QED
    BY <1>2, <2>1, <2>2
<1>7. ASSUME NEW w \in Workers, CommitPublish(w)
      PROVE  JobsGoOn
  <2>. DEFINE i == work[w].item
  <2>1. work[w] # NoRun /\ jobs' = Enqueued(jobs, VerifyJobs(i))
    BY <1>7 DEF CommitPublish, Running
  <2>2. i \in Items /\ status[i] # "absent"
    BY <2>1, RunHasJob, RunShapes
  <2>. HIDE DEF i
  <2>3. VerifyJobs(i) \in SUBSET Keys /\ \A k \in VerifyJobs(i) : k[2] = i /\ k[1] # "close"
    BY <2>2 DEF Keys, Kinds, VerifyJobs
  <2>. QED
    BY <1>2, <2>1, <2>2, <2>3
<1>8. ASSUME NEW k \in Keys, Reap(k)
      PROVE  JobsGoOn
  <2>1. jobs[k] \in Job /\ jobs[k] # NoJob /\ jobs' = [jobs EXCEPT ![k] = Requeued(jobs[k])]
    BY <1>0, <1>4, <1>8 DEF Reap
  <2>. QED
    BY <1>3, <2>1, RequeuedKeeps
<1>r. ASSUME NEW k \in Keys, Retry(k)
      PROVE  JobsGoOn
  <2>. DEFINE job == [jobs[k] EXCEPT !.status = "queued", !.attempts = 0, !.owner = "nobody"]
  <2>1. jobs[k] \in Job /\ jobs[k] # NoJob /\ jobs' = [jobs EXCEPT ![k] = job]
    BY <1>0, <1>4, <1>r DEF Retry, Dead
  <2>2. job \in Job /\ job.runs = jobs[k].runs /\ job # NoJob
    BY <2>1 DEF Job, NoJob
  <2>. HIDE DEF job
  <2>. QED
    BY <1>3, <2>1, <2>2
<1>9. ASSUME NEW w \in Workers, NEW k \in Keys, Claim(w, k)
      PROVE  JobsGoOn
  <2>. DEFINE job == [status |-> "running", attempts |-> jobs[k].attempts + 1,
                      runs |-> jobs[k].runs + 1, owner |-> w]
  <2>1. jobs[k] # NoJob /\ jobs' = [jobs EXCEPT ![k] = job] /\ Claims
    BY <1>4, <1>9 DEF Claim, Claims
  <2>2. job \in Job /\ job # NoJob
    BY <1>0 DEF Job, NoJob
  <2>. HIDE DEF job
  <2>. QED
    BY <1>3, <2>1, <2>2
<1>10. ASSUME NEW w \in Workers, Fails(w) \/ Completes(w)
       PROVE  JobsGoOn
  <2>. DEFINE k == <<work[w].kind, work[w].item>>
              done == [jobs[k] EXCEPT !.status = "done", !.owner = "nobody"]
  <2>1. k \in Keys /\ jobs[k] # NoJob
    BY <1>10, RunHasJob DEF Fails, Completes
  <2>2. \/ UNCHANGED jobs
        \/ jobs' = [jobs EXCEPT ![k] = Requeued(jobs[k])]
        \/ jobs' = [jobs EXCEPT ![k] = done]
    BY <1>10 DEF Fails, Completes
  <2>3. jobs[k] \in Job
    BY <1>0, <2>1
  <2>4. done \in Job /\ done.runs = jobs[k].runs /\ done # NoJob
    BY <2>3 DEF Job, NoJob
  <2>. HIDE DEF k, done
  <2>. QED
    BY <1>1, <1>3, <2>1, <2>2, <2>3, <2>4, RequeuedKeeps
<1>11. ASSUME NEW w \in Workers, Moves(w), ~CommitPublish(w)
       PROVE  JobsGoOn
  BY <1>1, <1>11 DEF Moves, EngineAnswers, InsertDraft, CommitDraft, PostDraft, BeginVerify,
       CommitVerify, BeginDelta, CommitDelta
<1>12. ASSUME NEW i \in Items, CloseFixesNow(i)
       PROVE  JobsGoOn
  BY <1>1, <1>12 DEF CloseFixesNow
<1>. QED
  BY <1>5, <1>6, <1>7, <1>8, <1>r, <1>9, <1>10, <1>11, <1>12 DEF LoopNext, Moves

\* A run stays what it is, goes on, ends, or has just begun.
WorkGoesOn ==
  /\ work' \in [Workers -> Shapes]
  /\ \A w \in Workers :
       \/ work'[w] = NoRun
       \/ work'[w] = work[w]
       \/ SameRun(w) /\ Moves(w) /\ work'[w].phase # "begun"
       \/ \E k \in Keys : Claim(w, k)

\* Every step leaves the runs so.
LEMMA WorkStep ==
  ASSUME TypeInv, VersionsInv, LoopNext
  PROVE  WorkGoesOn
<1>0. work \in [Workers -> Shapes]
  BY DEF TypeInv, Shapes
<1>1. CASE UNCHANGED work
  BY <1>0, <1>1 DEF WorkGoesOn
<1>2. ASSUME NEW w \in Workers, Moves(w)
      PROVE  WorkGoesOn
  BY <1>2, MovesStay DEF WorkGoesOn, Others
<1>3. ASSUME NEW w \in Workers, Fails(w) \/ Completes(w)
      PROVE  WorkGoesOn
  <2>1. work' = [work EXCEPT ![w] = NoRun]
    BY <1>3 DEF Fails, Completes
  <2>. QED
    BY <1>0, <2>1 DEF WorkGoesOn, Shapes
<1>4. ASSUME NEW w \in Workers, NEW k \in Keys, Claim(w, k)
      PROVE  WorkGoesOn
  <2>. DEFINE r == [phase |-> "begun", kind |-> k[1], item |-> k[2], run |-> jobs[k].runs + 1]
  <2>1. work' = [work EXCEPT ![w] = r]
    BY <1>4 DEF Claim
  <2>2. k[1] \in Kinds /\ k[2] \in Items /\ jobs[k].runs + 1 \in Nat
    BY DEF Keys, TypeInv, Job
  <2>3. r \in Begun
    BY <2>2 DEF Begun
  <2>. HIDE DEF r
  <2>4. r \in Shapes
    BY <2>3 DEF Shapes
  <2>. QED
    BY <1>0, <1>4, <2>1, <2>4 DEF WorkGoesOn
<1>5. ASSUME NEW i \in Items, CloseFixesNow(i) \/ CloseFixes(i) \/ Publish(i) \/ AskForDelta(i)
      PROVE  WorkGoesOn
  BY <1>1, <1>5 DEF CloseFixesNow, CloseFixes, Publish, AskForDelta
<1>6. ASSUME NEW k \in Keys, Reap(k) \/ Retry(k)
      PROVE  WorkGoesOn
  BY <1>1, <1>6 DEF Reap, Retry
<1>. QED
  BY <1>2, <1>3, <1>4, <1>5, <1>6 DEF LoopNext, Moves

\* The step that takes a run to a phase.
LEMMA PhaseComesFrom ==
  ASSUME TypeInv, NEW w \in Workers, Moves(w)
  PROVE  /\ work'[w].phase = "writing" => EngineAnswers(w)
         /\ work'[w].phase = "inserted" => InsertDraft(w)
         /\ work'[w].phase = "posted" => PostDraft(w)
         /\ work'[w].phase = "probing" => BeginVerify(w)
<1>0. DOMAIN work = Workers
  BY DEF TypeInv
<1>1. CASE CommitDraft(w) \/ CommitPublish(w) \/ CommitVerify(w) \/ CommitDelta(w)
  <2>1. work[w] \in Writing \union Posted \union Probing \union Comparing
    BY <1>1, RunShapes DEF CommitDraft, CommitPublish, CommitVerify, CommitDelta, Running
  <2>2. work' = [work EXCEPT ![w] = [work[w] EXCEPT !.phase = "committed"]]
    BY <1>1 DEF CommitDraft, CommitPublish, CommitVerify, CommitDelta, Phase
  <2>3. work'[w].phase = "committed"
    BY <1>0, <2>1, <2>2 DEF Writing, Posted, Probing, Comparing
  <2>. QED
    BY <2>3
<1>2. CASE InsertDraft(w)
  <2>1. work[w] \in Writing
    BY <1>2, RunShapes DEF InsertDraft, Running
  <2>2. work' = [work EXCEPT ![w] = [work[w] EXCEPT !.phase = "inserted"]]
    BY <1>2 DEF InsertDraft, Phase
  <2>3. work'[w].phase = "inserted"
    BY <1>0, <2>1, <2>2 DEF Writing
  <2>. QED
    BY <1>2, <2>3
<1>3. CASE EngineAnswers(w)
  <2>1. work'[w].phase = "writing"
    BY <1>0, <1>3 DEF EngineAnswers
  <2>. QED
    BY <1>3, <2>1
<1>4. CASE PostDraft(w)
  <2>1. work'[w].phase = "posted"
    BY <1>0, <1>4 DEF PostDraft
  <2>. QED
    BY <1>4, <2>1
<1>5. CASE BeginVerify(w)
  <2>1. work'[w].phase = "probing"
    BY <1>0, <1>5 DEF BeginVerify
  <2>. QED
    BY <1>5, <2>1
<1>6. CASE BeginDelta(w)
  <2>1. work'[w].phase = "comparing"
    BY <1>0, <1>6 DEF BeginDelta
  <2>. QED
    BY <2>1
<1>. QED
  BY <1>1, <1>2, <1>3, <1>4, <1>5, <1>6 DEF Moves

\* A run is in one of its later phases because it was, or by that step.
LEMMA PhaseStep ==
  ASSUME TypeInv, VersionsInv, LoopNext, NEW w \in Workers,
         work'[w].phase \in {"writing", "inserted", "posted", "probing"},
         work'[w] # work[w]
  PROVE  /\ Moves(w) /\ SameRun(w) /\ Others(w)
         /\ work'[w].phase = "writing" => EngineAnswers(w)
         /\ work'[w].phase = "inserted" => InsertDraft(w)
         /\ work'[w].phase = "posted" => PostDraft(w)
         /\ work'[w].phase = "probing" => BeginVerify(w)
<1>1. work'[w] # NoRun
  BY DEF NoRun
<1>2. ASSUME NEW k \in Keys, Claim(w, k)
      PROVE  work'[w].phase = "begun"
  <2>1. DOMAIN work = Workers
    BY DEF TypeInv
  <2>. QED
    BY <1>2, <2>1 DEF Claim
<1>3. Moves(w)
  BY <1>1, <1>2, WorkStep DEF WorkGoesOn
<1>. QED
  BY <1>3, MovesStay, PhaseComesFrom

-----------------------------------------------------------------------------
(* What a step does to the drafts, the bills and the trail *)

\* Drafts and bills are added by the commit of a run and by close-fixes --now.
LEMMA DraftsStep ==
  ASSUME TypeInv, LoopNext
  PROVE  \/ UNCHANGED <<drafts, bills>>
         \/ \E i \in Items : CloseFixesNow(i)
         \/ \E w \in Workers : CommitDraft(w)
<1>1. ASSUME NEW w \in Workers, Moves(w), ~CommitDraft(w)
      PROVE  UNCHANGED <<drafts, bills>>
  BY <1>1 DEF Moves, EngineAnswers, InsertDraft, PostDraft, CommitPublish, BeginVerify,
       CommitVerify, BeginDelta, CommitDelta
<1>2. ASSUME NEW w \in Workers, Fails(w) \/ Completes(w)
      PROVE  UNCHANGED <<drafts, bills>>
  BY <1>2 DEF Fails, Completes
<1>3. ASSUME NEW i \in Items, CloseFixes(i) \/ Publish(i) \/ AskForDelta(i)
      PROVE  UNCHANGED <<drafts, bills>>
  BY <1>3 DEF CloseFixes, Publish, AskForDelta
<1>4. ASSUME NEW k \in Keys, Reap(k) \/ Retry(k) \/ \E w \in Workers : Claim(w, k)
      PROVE  UNCHANGED <<drafts, bills>>
  BY <1>4 DEF Reap, Retry, Claim
<1>. QED
  BY <1>1, <1>2, <1>3, <1>4 DEF LoopNext, Moves

\* What a committing run of close_fixes adds.
LEMMA CommitAdds ==
  ASSUME TypeInv, NEW w \in Workers, CommitDraft(w)
  PROVE  \E d \in [item : Items, version : Nat \ {0}, cost : Costs, by : Nat] :
           /\ d.item = work[w].item /\ d.version = work[w].version /\ d.by = work[w].run
           /\ drafts' = drafts \union {d}
           /\ bills' = IF d.cost > 0 THEN bills \union {[item |-> d.item, cost |-> d.cost, by |-> d.by]}
                       ELSE bills
<1>. DEFINE d == [item |-> work[w].item, version |-> work[w].version, cost |-> work[w].cost,
                  by |-> work[w].run]
<1>1. work[w] \in Writing
  BY RunShapes DEF CommitDraft, Running
<1>2. d \in [item : Items, version : Nat \ {0}, cost : Costs, by : Nat]
  BY <1>1 DEF Writing
<1>3. drafts' = drafts \union {d}
  BY DEF CommitDraft
<1>4. bills' = IF d.cost > 0 THEN bills \union {[item |-> d.item, cost |-> d.cost, by |-> d.by]}
               ELSE bills
  BY DEF CommitDraft
<1>5. d.item = work[w].item /\ d.version = work[w].version /\ d.by = work[w].run
  OBVIOUS
<1>. QED
  BY <1>2, <1>3, <1>4, <1>5

\* What close-fixes --now adds.
LEMMA NowAdds ==
  ASSUME TypeInv, NEW i \in Items, CloseFixesNow(i)
  PROVE  \E d \in [item : Items, version : Nat \ {0}, cost : Costs, by : Nat] :
           /\ d.item = i /\ d.version = 1 /\ d.by = 0
           /\ drafts' = drafts \union {d}
           /\ bills' = IF d.cost > 0 THEN bills \union {[item |-> d.item, cost |-> d.cost, by |-> d.by]}
                       ELSE bills
<1>1. PICK cost \in Costs :
        /\ drafts' = drafts \union {[item |-> i, version |-> 1, cost |-> cost, by |-> 0]}
        /\ bills' = IF cost > 0 THEN bills \union {[item |-> i, cost |-> cost, by |-> 0]} ELSE bills
  BY DEF CloseFixesNow
<1>. DEFINE d == [item |-> i, version |-> 1, cost |-> cost, by |-> 0]
<1>2. d \in [item : Items, version : Nat \ {0}, cost : Costs, by : Nat]
  OBVIOUS
<1>3. bills' = IF d.cost > 0 THEN bills \union {[item |-> d.item, cost |-> d.cost, by |-> d.by]}
               ELSE bills
  BY <1>1
<1>4. d.item = i /\ d.version = 1 /\ d.by = 0
  OBVIOUS
<1>. QED
  BY <1>1, <1>2, <1>3, <1>4

\* The trail of publish events only grows.
LEMMA EventsStep ==
  ASSUME TypeInv, LoopNext
  PROVE  /\ events' \in [Items -> Seq(BOOLEAN)]
         /\ \A i \in Items : /\ events[i] # <<>> => events'[i] # <<>>
                             /\ WithUrl(i) \subseteq WithUrl(i)'
                             /\ events'[i] # events[i] =>
                                  \E w \in Workers : CommitPublish(w) /\ work[w].item = i
<1>0. events \in [Items -> Seq(BOOLEAN)]
  BY DEF TypeInv
<1>1. CASE UNCHANGED events
  BY <1>0, <1>1 DEF WithUrl
<1>2. ASSUME NEW w \in Workers, CommitPublish(w)
      PROVE  /\ events' \in [Items -> Seq(BOOLEAN)]
             /\ \A i \in Items : /\ events[i] # <<>> => events'[i] # <<>>
                                 /\ WithUrl(i) \subseteq WithUrl(i)'
                                 /\ events'[i] # events[i] => work[w].item = i
  <2>1. work[w] \in Posted
    BY <1>2, RunShapes DEF CommitPublish, Running
  <2>2. work[w].item \in Items /\ work[w].url \in BOOLEAN
    BY <2>1 DEF Posted
  <2>3. events' = [events EXCEPT ![work[w].item] = Append(@, work[w].url)]
    BY <1>2 DEF CommitPublish
  <2>4. ASSUME NEW s \in Seq(BOOLEAN), NEW b \in BOOLEAN
        PROVE  /\ Append(s, b) \in Seq(BOOLEAN) /\ Append(s, b) # <<>>
               /\ \A n \in DOMAIN s : n \in DOMAIN Append(s, b) /\ Append(s, b)[n] = s[n]
    OBVIOUS
  <2>5. events' \in [Items -> Seq(BOOLEAN)]
    BY <1>0, <2>2, <2>3, <2>4
  <2>6. ASSUME NEW i \in Items
        PROVE  /\ events[i] # <<>> => events'[i] # <<>>
               /\ WithUrl(i) \subseteq WithUrl(i)'
               /\ events'[i] # events[i] => work[w].item = i
    <3>1. CASE work[w].item = i
      <4>1. events'[i] = Append(events[i], work[w].url)
        BY <1>0, <2>2, <2>3, <3>1
      <4>2. events[i] \in Seq(BOOLEAN)
        BY <1>0
      <4>. QED
        BY <2>2, <2>4, <3>1, <4>1, <4>2 DEF WithUrl
    <3>2. CASE work[w].item # i
      BY <1>0, <2>3, <3>2 DEF WithUrl
    <3>. QED
      BY <3>1, <3>2
  <2>. QED
    BY <2>5, <2>6
<1>3. ASSUME NEW w \in Workers, Moves(w), ~CommitPublish(w)
      PROVE  UNCHANGED events
  BY <1>3 DEF Moves, EngineAnswers, InsertDraft, CommitDraft, PostDraft, BeginVerify,
       CommitVerify, BeginDelta, CommitDelta
<1>4. ASSUME NEW w \in Workers, Fails(w) \/ Completes(w)
      PROVE  UNCHANGED events
  BY <1>4 DEF Fails, Completes
<1>5. ASSUME NEW i \in Items, CloseFixesNow(i) \/ CloseFixes(i) \/ Publish(i) \/ AskForDelta(i)
      PROVE  UNCHANGED events
  BY <1>5 DEF CloseFixesNow, CloseFixes, Publish, AskForDelta
<1>6. ASSUME NEW k \in Keys, Reap(k) \/ Retry(k) \/ \E w \in Workers : Claim(w, k)
      PROVE  UNCHANGED events
  BY <1>6 DEF Reap, Retry, Claim
<1>. QED
  BY <1>1, <1>2, <1>3, <1>4, <1>5, <1>6 DEF LoopNext, Moves

Commits(w) == CommitDraft(w) \/ CommitPublish(w) \/ CommitVerify(w) \/ CommitDelta(w)

\* What is known of an item changes by its creation and by the commits of its runs.
ItemStands(i) == status'[i] = status[i] /\ verdict'[i] = verdict[i] /\ deltas'[i] = deltas[i]

\* The item a step writes.
LEMMA ItemsStep ==
  ASSUME TypeInv, LoopNext, NEW i \in Items
  PROVE  \/ ItemStands(i)
         \/ CloseFixesNow(i) \/ CloseFixes(i)
         \/ \E w \in Workers : Commits(w) /\ work[w] # NoRun /\ work[w].item = i
<1>0. DOMAIN status = Items /\ DOMAIN verdict = Items /\ DOMAIN deltas = Items
  BY DEF TypeInv
<1>1. ASSUME NEW w \in Workers, Commits(w), work[w].item # i
      PROVE  ItemStands(i)
  <2>1. CASE CommitDraft(w)
    BY <1>0, <1>1, <2>1 DEF CommitDraft, ItemStands
  <2>2. CASE CommitPublish(w)
    BY <1>0, <1>1, <2>2 DEF CommitPublish, ItemStands
  <2>3. CASE CommitVerify(w)
    BY <1>0, <1>1, <2>3 DEF CommitVerify, ItemStands
  <2>4. CASE CommitDelta(w)
    BY <1>0, <1>1, <2>4 DEF CommitDelta, ItemStands
  <2>. QED
    BY <1>1, <2>1, <2>2, <2>3, <2>4 DEF Commits
<1>2. ASSUME NEW w \in Workers, Commits(w)
      PROVE  work[w] # NoRun
  BY <1>2 DEF Commits, CommitDraft, CommitPublish, CommitVerify, CommitDelta, Running
<1>3. ASSUME NEW w \in Workers, Moves(w), ~Commits(w)
      PROVE  ItemStands(i)
  BY <1>3 DEF Moves, Commits, EngineAnswers, InsertDraft, PostDraft, BeginVerify, BeginDelta,
       ItemStands
<1>4. ASSUME NEW w \in Workers, Fails(w) \/ Completes(w)
      PROVE  ItemStands(i)
  BY <1>4 DEF Fails, Completes, ItemStands
<1>5. ASSUME NEW j \in Items, Publish(j) \/ AskForDelta(j) \/ ((CloseFixesNow(j) \/ CloseFixes(j)) /\ j # i)
      PROVE  ItemStands(i)
  BY <1>0, <1>5 DEF CloseFixesNow, CloseFixes, Publish, AskForDelta, ItemStands
<1>6. ASSUME NEW k \in Keys, Reap(k) \/ Retry(k) \/ \E w \in Workers : Claim(w, k)
      PROVE  ItemStands(i)
  BY <1>6 DEF Reap, Retry, Claim, ItemStands
<1>. QED
  BY <1>1, <1>2, <1>3, <1>4, <1>5, <1>6 DEF LoopNext, Moves, Commits

\* What the creation of an item and the commits of its runs make of it.
LEMMA ItemBecomes ==
  ASSUME TypeInv, LoopNext, NEW i \in Items
  PROVE  /\ CloseFixesNow(i) => status'[i] = "review" /\ verdict'[i] = verdict[i]
         /\ CloseFixes(i) => status'[i] = "briefed" /\ verdict'[i] = verdict[i]
         /\ \A w \in Workers : work[w].item = i =>
              /\ CommitDraft(w) => status'[i] = "review" /\ verdict'[i] = verdict[i]
              /\ CommitPublish(w) => status'[i] = "published" /\ verdict'[i] = "none"
              /\ CommitVerify(w) =>
                   \/ ItemStands(i)
                   \/ status'[i] = "verified" /\ verdict'[i] = "passed"
                   \/ status'[i] = "verify_failed" /\ verdict'[i] = "failed"
              /\ CommitDelta(w) =>
                   /\ status'[i] = IF Measurable(status[i]) THEN "measured" ELSE status[i]
                   /\ verdict'[i] = verdict[i] /\ deltas'[i] # {}
<1>0. DOMAIN status = Items /\ DOMAIN verdict = Items /\ DOMAIN deltas = Items
  BY DEF TypeInv
<1>1. CloseFixesNow(i) => status'[i] = "review" /\ verdict'[i] = verdict[i]
  BY <1>0 DEF CloseFixesNow
<1>2. CloseFixes(i) => status'[i] = "briefed" /\ verdict'[i] = verdict[i]
  BY <1>0 DEF CloseFixes
<1>3. ASSUME NEW w \in Workers, work[w].item = i, CommitDraft(w)
      PROVE  status'[i] = "review" /\ verdict'[i] = verdict[i]
  BY <1>0, <1>3 DEF CommitDraft
<1>4. ASSUME NEW w \in Workers, work[w].item = i, CommitPublish(w)
      PROVE  status'[i] = "published" /\ verdict'[i] = "none"
  BY <1>0, <1>4 DEF CommitPublish
<1>5. ASSUME NEW w \in Workers, work[w].item = i, CommitVerify(w)
      PROVE  \/ ItemStands(i)
             \/ status'[i] = "verified" /\ verdict'[i] = "passed"
             \/ status'[i] = "verify_failed" /\ verdict'[i] = "failed"
  <2>1. PICK page \in {x \in Served : ~View(x).raised} :
          IF work[w].kind = "early" THEN UNCHANGED <<status, verdict>>
          ELSE /\ status' = [status EXCEPT ![i] =
                               IF ProbesPass(page) THEN "verified" ELSE "verify_failed"]
               /\ verdict' = [verdict EXCEPT ![i] =
                                IF ProbesPass(page) THEN "passed" ELSE "failed"]
    BY <1>5 DEF CommitVerify
  <2>2. UNCHANGED deltas
    BY <1>5 DEF CommitVerify
  <2>3. CASE work[w].kind = "early"
    BY <2>1, <2>2, <2>3 DEF ItemStands
  <2>4. CASE work[w].kind # "early" /\ ProbesPass(page)
    BY <1>0, <2>1, <2>4
  <2>5. CASE work[w].kind # "early" /\ ~ProbesPass(page)
    BY <1>0, <2>1, <2>5
  <2>. QED
    BY <2>3, <2>4, <2>5
<1>6. ASSUME NEW w \in Workers, work[w].item = i, CommitDelta(w)
      PROVE  /\ status'[i] = IF Measurable(status[i]) THEN "measured" ELSE status[i]
             /\ verdict'[i] = verdict[i] /\ deltas'[i] # {}
  BY <1>0, <1>6 DEF CommitDelta
<1>. QED
  BY <1>1, <1>2, <1>3, <1>4, <1>5, <1>6

-----------------------------------------------------------------------------
(* The steps keep the invariant *)

\* A step keeps the types.
LEMMA TypeStep ==
  ASSUME IInv, LoopNext
  PROVE  TypeInv'
<1>0. TypeInv /\ RunsInv /\ AbsentInv /\ VersionsInv
  BY DEF IInv
<1>1. jobs' \in [Keys -> Job]
  BY <1>0, JobsStep DEF JobsGoOn
<1>2. work' \in [Workers -> Shapes]
  BY <1>0, WorkStep DEF WorkGoesOn
<1>3. /\ drafts' \subseteq [item : Items, version : Nat \ {0}, cost : Costs, by : Nat]
      /\ bills' \subseteq [item : Items, cost : Nat, by : Nat]
  <2>0. /\ drafts \subseteq [item : Items, version : Nat \ {0}, cost : Costs, by : Nat]
        /\ bills \subseteq [item : Items, cost : Nat, by : Nat]
    BY <1>0 DEF TypeInv
  <2>1. ASSUME NEW d \in [item : Items, version : Nat \ {0}, cost : Costs, by : Nat],
               drafts' = drafts \union {d},
               bills' = IF d.cost > 0 THEN bills \union {[item |-> d.item, cost |-> d.cost, by |-> d.by]}
                        ELSE bills
        PROVE  /\ drafts' \subseteq [item : Items, version : Nat \ {0}, cost : Costs, by : Nat]
               /\ bills' \subseteq [item : Items, cost : Nat, by : Nat]
    <3>1. d.item \in Items /\ d.cost \in Nat /\ d.by \in Nat
      BY LoopAssumption
    <3>2. [item |-> d.item, cost |-> d.cost, by |-> d.by] \in [item : Items, cost : Nat, by : Nat]
      BY <3>1
    <3>3. CASE d.cost > 0
      BY <2>0, <2>1, <3>2, <3>3
    <3>4. CASE ~(d.cost > 0)
      BY <2>0, <2>1, <3>4
    <3>. QED
      BY <3>3, <3>4
  <2>. QED
    BY <1>0, <2>0, <2>1, DraftsStep, CommitAdds, NowAdds
<1>4. DOMAIN status' = Items /\ DOMAIN verdict' = Items /\ DOMAIN deltas' = Items
  <2>0. DOMAIN status = Items /\ DOMAIN verdict = Items /\ DOMAIN deltas = Items
    BY <1>0 DEF TypeInv
  <2>1. ASSUME NEW w \in Workers, Moves(w)
        PROVE  DOMAIN status' = Items /\ DOMAIN verdict' = Items /\ DOMAIN deltas' = Items
    BY <2>0, <2>1 DEF Moves, EngineAnswers, InsertDraft, CommitDraft, PostDraft, CommitPublish,
         BeginVerify, CommitVerify, BeginDelta, CommitDelta
  <2>2. ASSUME NEW w \in Workers, Fails(w) \/ Completes(w)
        PROVE  DOMAIN status' = Items /\ DOMAIN verdict' = Items /\ DOMAIN deltas' = Items
    BY <2>0, <2>2 DEF Fails, Completes
  <2>3. ASSUME NEW i \in Items, CloseFixesNow(i) \/ CloseFixes(i) \/ Publish(i) \/ AskForDelta(i)
        PROVE  DOMAIN status' = Items /\ DOMAIN verdict' = Items /\ DOMAIN deltas' = Items
    BY <2>0, <2>3 DEF CloseFixesNow, CloseFixes, Publish, AskForDelta
  <2>4. ASSUME NEW k \in Keys, Reap(k) \/ Retry(k) \/ \E w \in Workers : Claim(w, k)
        PROVE  DOMAIN status' = Items /\ DOMAIN verdict' = Items /\ DOMAIN deltas' = Items
    BY <2>0, <2>4 DEF Reap, Retry, Claim
  <2>. QED
    BY <2>1, <2>2, <2>3, <2>4 DEF LoopNext, Moves
<1>5. \A i \in Items : /\ status'[i] \in {"absent", "briefed", "review"} \union Live
                       /\ verdict'[i] \in {"none", "passed", "failed"}
  <2>. SUFFICES ASSUME NEW i \in Items
                PROVE  /\ status'[i] \in {"absent", "briefed", "review"} \union Live
                       /\ verdict'[i] \in {"none", "passed", "failed"}
    OBVIOUS
  <2>1. /\ status[i] \in {"absent", "briefed", "review"} \union Live
        /\ verdict[i] \in {"none", "passed", "failed"}
    BY <1>0 DEF TypeInv
  <2>. QED
    BY <1>0, <2>1, ItemsStep, ItemBecomes DEF Commits, Live, ItemStands
<1>6. /\ status' \in [Items -> {"absent", "briefed", "review"} \union Live]
      /\ verdict' \in [Items -> {"none", "passed", "failed"}]
  <2>1. status' = [i \in Items |-> status'[i]] /\ verdict' = [i \in Items |-> verdict'[i]]
    <3>1. ASSUME NEW w \in Workers, Moves(w) \/ Fails(w) \/ Completes(w)
          PROVE  status' = [i \in Items |-> status'[i]] /\ verdict' = [i \in Items |-> verdict'[i]]
      BY <1>0, <3>1 DEF TypeInv, Moves, EngineAnswers, InsertDraft, CommitDraft, PostDraft,
           CommitPublish, BeginVerify, CommitVerify, BeginDelta, CommitDelta, Fails, Completes
    <3>2. ASSUME NEW i \in Items, CloseFixesNow(i) \/ CloseFixes(i) \/ Publish(i) \/ AskForDelta(i)
          PROVE  status' = [j \in Items |-> status'[j]] /\ verdict' = [j \in Items |-> verdict'[j]]
      BY <1>0, <3>2 DEF TypeInv, CloseFixesNow, CloseFixes, Publish, AskForDelta
    <3>3. ASSUME NEW k \in Keys, Reap(k) \/ Retry(k) \/ \E w \in Workers : Claim(w, k)
          PROVE  status' = [i \in Items |-> status'[i]] /\ verdict' = [i \in Items |-> verdict'[i]]
      BY <1>0, <3>3 DEF TypeInv, Reap, Retry, Claim
    <3>. QED
      BY <3>1, <3>2, <3>3 DEF LoopNext, Moves
  <2>. QED
    BY <1>5, <2>1
<1>7. events' \in [Items -> Seq(BOOLEAN)]
  BY <1>0, EventsStep
<1>. QED
  BY <1>1, <1>2, <1>3, <1>4, <1>6, <1>7 DEF TypeInv, Shapes

\* What is committed is kept.
LEMMA DraftsStay ==
  ASSUME TypeInv, LoopNext
  PROVE  drafts \subseteq drafts' /\ \A i \in Items : HasDraft(i) => HasDraft(i)'
<1>1. drafts \subseteq drafts'
  BY DraftsStep, CommitAdds, NowAdds
<1>. QED
  BY <1>1 DEF HasDraft, Versions

\* Claims are only added.
LEMMA ClaimsStay ==
  ASSUME TypeInv, RunsInv, AbsentInv, LoopNext, NEW k \in Keys
  PROVE  /\ jobs[k].runs \in Nat /\ jobs'[k].runs \in Nat
         /\ jobs[k].runs <= jobs'[k].runs
<1>0. jobs \in [Keys -> Job] /\ jobs' \in [Keys -> Job]
  BY JobsStep DEF TypeInv, JobsGoOn
<1>1. jobs[k].runs \in Nat /\ jobs'[k].runs \in Nat
  BY <1>0 DEF Job
<1>2. CASE ~Claims
  BY <1>1, <1>2, JobsStep DEF JobsGoOn
<1>3. ASSUME NEW w \in Workers, NEW c \in Keys, Claim(w, c)
      PROVE  jobs[k].runs <= jobs'[k].runs
  <2>1. CASE c = k
    BY <1>0, <1>1, <1>3, <2>1 DEF Claim
  <2>2. CASE c # k
    BY <1>0, <1>1, <1>3, <2>2 DEF Claim
  <2>. QED
    BY <2>1, <2>2
<1>. QED
  BY <1>1, <1>2, <1>3 DEF Claims

\* A claim makes the run that it counts.
LEMMA ClaimBegins ==
  ASSUME TypeInv, NEW w \in Workers, NEW k \in Keys, Claim(w, k)
  PROVE  /\ work'[w].kind = k[1] /\ work'[w].item = k[2] /\ work'[w].phase = "begun"
         /\ work'[w].run = jobs[k].runs + 1
         /\ jobs'[k].runs = jobs[k].runs + 1 /\ jobs[k] # NoJob
         /\ \A c \in Keys \ {k} : jobs'[c] = jobs[c]
         /\ Others(w) /\ work[w] = NoRun
<1>1. DOMAIN work = Workers /\ DOMAIN jobs = Keys
  BY DEF TypeInv
<1>. QED
  BY <1>1 DEF Claim, Others, NoJob

\* A step keeps runs to claims of their own.
LEMMA RunsStep ==
  ASSUME IInv, LoopNext
  PROVE  RunsInv'
<1>0. TypeInv /\ RunsInv /\ AbsentInv /\ VersionsInv
  BY DEF IInv
<1>1. CASE ~Claims
  <2>1. ASSUME NEW w \in Workers, work'[w] # NoRun
        PROVE  work[w] # NoRun /\ work'[w].kind = work[w].kind /\ work'[w].item = work[w].item
                 /\ work'[w].run = work[w].run
    BY <1>0, <1>1, <2>1, WorkStep DEF WorkGoesOn, SameRun, Claims
  <2>2. ASSUME NEW w \in Workers, work'[w] # NoRun
        PROVE  work'[w].run \in 1 .. jobs'[<<work'[w].kind, work'[w].item>>].runs
    <3>1. <<work[w].kind, work[w].item>> \in Keys
      BY <1>0, <2>1, <2>2, RunHasJob
    <3>2. jobs'[<<work[w].kind, work[w].item>>].runs = jobs[<<work[w].kind, work[w].item>>].runs
      BY <1>0, <1>1, <3>1, JobsStep DEF JobsGoOn
    <3>. QED
      BY <1>0, <2>1, <2>2, <3>2 DEF RunsInv
  <2>. QED
    BY <1>0, <2>1, <2>2 DEF RunsInv
<1>2. ASSUME NEW w \in Workers, NEW k \in Keys, Claim(w, k)
      PROVE  RunsInv'
  <2>1. k = <<k[1], k[2]>> /\ jobs[k].runs \in Nat
    BY <1>0 DEF Keys, TypeInv, Job
  <2>2. ASSUME NEW u \in Workers \ {w}, work[u] # NoRun
        PROVE  /\ work'[u] = work[u]
               /\ <<work[u].kind, work[u].item>> \in Keys
               /\ work[u].run \in 1 .. jobs[<<work[u].kind, work[u].item>>].runs
    BY <1>0, <1>2, <2>2, ClaimBegins, RunHasJob DEF Others, RunsInv
  <2>3. ASSUME NEW u \in Workers, work'[u] # NoRun
        PROVE  work'[u].run \in 1 .. jobs'[<<work'[u].kind, work'[u].item>>].runs
    <3>1. CASE u = w
      BY <1>0, <1>2, <2>1, <3>1, ClaimBegins
    <3>2. CASE u # w
      <4>1. work[u] # NoRun /\ work'[u] = work[u]
        BY <1>0, <1>2, <2>3, <3>2, ClaimBegins DEF Others
      <4>. DEFINE c == <<work[u].kind, work[u].item>>
      <4>2. c \in Keys /\ work[u].run \in 1 .. jobs[c].runs
        BY <2>2, <3>2, <4>1
      <4>3. jobs[c].runs \in Nat /\ jobs'[c].runs \in Nat /\ jobs[c].runs <= jobs'[c].runs
        BY <1>0, <4>2, ClaimsStay
      <4>. HIDE DEF c
      <4>4. work[u].run \in 1 .. jobs'[c].runs
        BY <4>2, <4>3
      <4>. QED
        BY <4>1, <4>4 DEF c
    <3>. QED
      BY <3>1, <3>2
  <2>4. ASSUME NEW u \in Workers \ {w}, work[u] # NoRun, work[u].kind = work'[w].kind,
               work[u].item = work'[w].item
        PROVE  work[u].run # work'[w].run
    BY <1>0, <1>2, <2>1, <2>2, <2>4, ClaimBegins
  <2>5. ASSUME NEW u \in Workers, NEW v \in Workers, u # v, work'[u] # NoRun, work'[v] # NoRun,
               work'[u].kind = work'[v].kind, work'[u].item = work'[v].item
        PROVE  work'[u].run # work'[v].run
    <3>1. \A x \in Workers \ {w} : work'[x] = work[x]
      BY <1>0, <1>2, ClaimBegins DEF Others
    <3>2. CASE u # w /\ v # w
      BY <1>0, <2>5, <3>1, <3>2 DEF RunsInv
    <3>3. CASE u = w \/ v = w
      BY <2>4, <2>5, <3>1, <3>3
    <3>. QED
      BY <3>2, <3>3
  <2>. QED
    BY <2>3, <2>5 DEF RunsInv
<1>. QED
  BY <1>1, <1>2 DEF Claims

\* A step keeps what is not created unknown.
LEMMA AbsentStep ==
  ASSUME IInv, LoopNext
  PROVE  AbsentInv'
<1>0. TypeInv /\ RunsInv /\ AbsentInv /\ VersionsInv
  BY DEF IInv
<1>. SUFFICES ASSUME NEW i \in Items, status'[i] = "absent"
              PROVE  /\ DraftsOf(i)' = {} /\ events'[i] = <<>>
                     /\ \A b \in bills' : b.item # i
                     /\ \A kind \in Kinds : jobs'[<<kind, i>>] = NoJob
  BY DEF AbsentInv
<1>1. ~CloseFixesNow(i) /\ ~CloseFixes(i)
  BY <1>0, ItemBecomes
<1>2. status[i] = "absent"
  <2>1. ASSUME NEW w \in Workers, Commits(w), work[w].item = i
        PROVE  status[i] = "absent"
    <3>1. CASE CommitDelta(w)
      BY <1>0, <2>1, <3>1, ItemBecomes
    <3>2. CASE CommitDraft(w) \/ CommitPublish(w)
      BY <1>0, <2>1, <3>2, ItemBecomes
    <3>3. CASE CommitVerify(w)
      BY <1>0, <2>1, <3>3, ItemBecomes DEF ItemStands
    <3>. QED
      BY <2>1, <3>1, <3>2, <3>3 DEF Commits
  <2>. QED
    BY <1>0, <1>1, <2>1, ItemsStep DEF ItemStands
<1>3. DraftsOf(i) = {} /\ events[i] = <<>> /\ (\A b \in bills : b.item # i)
        /\ \A kind \in Kinds : jobs[<<kind, i>>] = NoJob
  BY <1>0, <1>2 DEF AbsentInv
<1>4. \A w \in Workers : work[w] # NoRun => work[w].item # i
  BY <1>0, <1>2, RunHasJob
<1>5. DraftsOf(i)' = {} /\ \A b \in bills' : b.item # i
  <2>1. ASSUME NEW j \in Items, CloseFixesNow(j)
        PROVE  DraftsOf(i)' = {} /\ \A b \in bills' : b.item # i
    BY <1>0, <1>1, <1>3, <2>1, NowAdds DEF DraftsOf
  <2>2. ASSUME NEW w \in Workers, CommitDraft(w)
        PROVE  DraftsOf(i)' = {} /\ \A b \in bills' : b.item # i
    <3>1. work[w].item # i
      BY <1>4, <2>2 DEF CommitDraft, Running
    <3>. QED
      BY <1>0, <1>3, <2>2, <3>1, CommitAdds DEF DraftsOf
  <2>3. CASE UNCHANGED <<drafts, bills>>
    BY <1>3, <2>3 DEF DraftsOf
  <2>. QED
    BY <1>0, <2>1, <2>2, <2>3, DraftsStep
<1>6. events'[i] = <<>>
  <2>1. \A w \in Workers : CommitPublish(w) => work[w] # NoRun
    BY DEF CommitPublish, Running
  <2>. QED
    BY <1>0, <1>3, <1>4, <2>1, EventsStep
<1>7. ASSUME NEW kind \in Kinds
      PROVE  jobs'[<<kind, i>>] = NoJob
  <2>1. <<kind, i>> \in Keys /\ <<kind, i>>[2] = i
    BY DEF Keys
  <2>. QED
    BY <1>0, <1>1, <1>2, <1>3, <2>1, JobsStep DEF JobsGoOn
<1>. QED
  BY <1>5, <1>6, <1>7

\* A step keeps the versions a sequence.
LEMMA VersionsStep ==
  ASSUME IInv, LoopNext
  PROVE  VersionsInv'
<1>0. TypeInv /\ RunsInv /\ AbsentInv /\ VersionsInv
  BY DEF IInv
<1>. DEFINE N(i) == Cardinality(DraftsOf(i))
            M(i) == Cardinality({d \in drafts' : d.item = i})
<1>c. \A i \in Items : M(i) = Cardinality(DraftsOf(i)')
  BY DEF DraftsOf
<1>1. \A i \in Items : N(i) \in Nat /\ IsFiniteSet(DraftsOf(i)) /\ Versions(i) = 1 .. N(i)
  BY <1>0, NextVersionIs DEF VersionsInv
\* One more draft, of the next version.
<1>2. ASSUME NEW d, d.item \in Items, d.version = N(d.item) + 1, drafts' = drafts \union {d}
      PROVE  /\ \A i \in Items : IsFiniteSet(DraftsOf(i)') /\ Versions(i)' = 1 .. M(i)
             /\ \A i \in Items \ {d.item} : M(i) = N(i)
             /\ M(d.item) = N(d.item) + 1
  <2>1. ASSUME NEW i \in Items \ {d.item}
        PROVE  DraftsOf(i)' = DraftsOf(i) /\ Versions(i)' = Versions(i)
    BY <1>2 DEF DraftsOf, Versions
  <2>. DEFINE i == d.item
  <2>2. DraftsOf(i)' = DraftsOf(i) \union {d} /\ Versions(i)' = Versions(i) \union {d.version}
    BY <1>2 DEF DraftsOf, Versions
  <2>3. d \notin DraftsOf(i)
    <3>1. d \in DraftsOf(i) => d.version \in Versions(i)
      BY DEF DraftsOf, Versions
    <3>. QED
      BY <1>1, <1>2, <3>1
  <2>4. IsFiniteSet(DraftsOf(i) \union {d}) /\ Cardinality(DraftsOf(i) \union {d}) = N(i) + 1
    BY <1>1, <1>2, <2>3, FS_AddElement
  <2>5. Versions(i)' = 1 .. N(i) + 1
    <3>. DEFINE n == N(i)
    <3>1. n \in Nat /\ Versions(i) = 1 .. n /\ d.version = n + 1
      BY <1>1, <1>2
    <3>. HIDE DEF n
    <3>2. (1 .. n) \union {n + 1} = 1 .. n + 1
      BY <3>1
    <3>. QED
      BY <2>2, <3>1, <3>2 DEF n
  <2>. QED
    BY <1>1, <1>2, <1>c, <2>1, <2>2, <2>4, <2>5
<1>. DEFINE Kept(w) == work'[w].phase \in {"writing", "inserted"} => work'[w] = work[w]
<1>3. ASSUME NEW w \in Workers, ~Kept(w)
      PROVE  \/ EngineAnswers(w) /\ work'[w].phase = "writing"
             \/ InsertDraft(w) /\ work'[w].phase = "inserted"
  BY <1>0, <1>3, PhaseStep
<1>4. CASE \E w \in Workers : CommitDraft(w)
  <2>1. PICK w \in Workers : CommitDraft(w)
    BY <1>4
  <2>2. PICK d \in [item : Items, version : Nat \ {0}, cost : Costs, by : Nat] :
          d.item = work[w].item /\ d.version = work[w].version /\ drafts' = drafts \union {d}
    BY <1>0, <2>1, CommitAdds
  <2>3. Running(w, "close", "inserted") /\ d.item \in Items
    BY <2>1, <2>2 DEF CommitDraft
  <2>4. d.version = N(d.item) + 1
        /\ \A u \in Workers \ {w} : Running(u, "close", "inserted") => work[u].item # d.item
    BY <1>0, <2>2, <2>3 DEF VersionsInv
  <2>5. /\ \A i \in Items : IsFiniteSet(DraftsOf(i)') /\ Versions(i)' = 1 .. M(i)
        /\ \A i \in Items \ {d.item} : M(i) = N(i)
        /\ M(d.item) = N(d.item) + 1
    BY <1>2, <2>2, <2>3, <2>4
  <2>6. Others(w) /\ work'[w].phase # "begun"
    BY <1>0, <2>1, MovesStay DEF Moves
  <2>7. work'[w].phase = "committed"
    <3>1. work[w] \in Writing /\ DOMAIN work = Workers
      BY <1>0, <2>3, RunShapes DEF Running, TypeInv
    <3>. QED
      BY <2>1, <3>1 DEF CommitDraft, Phase, Writing
  <2>8. ASSUME NEW u \in Workers, Running(u, "close", "writing")' \/ Running(u, "close", "inserted")'
        PROVE  u # w /\ work'[u] = work[u] /\ work[u] \in Writing
    BY <1>0, <2>6, <2>7, <2>8, RunShapes DEF Others, Running
  <2>9. ASSUME NEW u \in Workers, Running(u, "close", "writing")'
        PROVE  work'[u].version <= M(work'[u].item) + 1
    <3>1. Running(u, "close", "writing") /\ work[u].item \in Items /\ work[u].version \in Nat
          /\ work'[u] = work[u]
      BY <2>8, <2>9 DEF Running, Writing
    <3>2. work[u].version <= N(work[u].item) + 1
      BY <1>0, <3>1 DEF VersionsInv
    <3>3. N(work[u].item) \in Nat /\ M(work[u].item) \in {N(work[u].item), N(work[u].item) + 1}
      BY <1>1, <2>5, <3>1
    <3>. HIDE DEF N, M
    <3>4. work[u].version <= M(work[u].item) + 1
      BY <3>1, <3>2, <3>3
    <3>. QED
      BY <3>1, <3>4
  <2>10. ASSUME NEW u \in Workers, Running(u, "close", "inserted")'
         PROVE  /\ work'[u].version = M(work'[u].item) + 1
                /\ \A v \in Workers \ {u} :
                     Running(v, "close", "inserted")' => work'[v].item # work'[u].item
    <3>1. Running(u, "close", "inserted") /\ work'[u] = work[u] /\ work[u].item \in Items /\ u # w
      BY <2>8, <2>10 DEF Running, Writing
    <3>2. work[u].item # d.item
      BY <2>4, <3>1
    <3>3. M(work[u].item) = N(work[u].item)
      BY <2>5, <3>1, <3>2
    <3>4. work[u].version = N(work[u].item) + 1
          /\ \A v \in Workers \ {u} : Running(v, "close", "inserted") => work[v].item # work[u].item
      BY <1>0, <3>1 DEF VersionsInv
    <3>5. ASSUME NEW v \in Workers \ {u}, Running(v, "close", "inserted")'
          PROVE  Running(v, "close", "inserted") /\ work'[v] = work[v]
      BY <2>8, <3>5 DEF Running
    <3>. QED
      BY <3>1, <3>3, <3>4, <3>5
  <2>. QED
    BY <1>c, <2>5, <2>9, <2>10 DEF VersionsInv, DraftsOf
<1>5. CASE \E i \in Items : CloseFixesNow(i)
  <2>1. PICK i \in Items : CloseFixesNow(i)
    BY <1>5
  <2>2. PICK d \in [item : Items, version : Nat \ {0}, cost : Costs, by : Nat] :
          d.item = i /\ d.version = 1 /\ drafts' = drafts \union {d}
    BY <1>0, <2>1, NowAdds
  <2>3. DraftsOf(i) = {} /\ status[i] = "absent"
    BY <1>0, <2>1 DEF AbsentInv, CloseFixesNow
  <2>4. d.version = N(d.item) + 1
    BY <2>2, <2>3, FS_EmptySet
  <2>5. /\ \A j \in Items : IsFiniteSet(DraftsOf(j)') /\ Versions(j)' = 1 .. M(j)
        /\ \A j \in Items \ {i} : M(j) = N(j)
    BY <1>2, <2>2, <2>4
  <2>6. UNCHANGED work
    BY <2>1 DEF CloseFixesNow
  <2>7. ASSUME NEW u \in Workers, work[u] # NoRun
        PROVE  work[u].item \in Items /\ M(work[u].item) = N(work[u].item)
    BY <1>0, <2>3, <2>5, <2>7, RunHasJob, RunShapes
  <2>8. ASSUME NEW u \in Workers
        PROVE  /\ Running(u, "close", "writing") => work[u].version <= M(work[u].item) + 1
               /\ Running(u, "close", "inserted") =>
                    /\ work[u].version = M(work[u].item) + 1
                    /\ \A v \in Workers \ {u} :
                         Running(v, "close", "inserted") => work[v].item # work[u].item
    BY <1>0, <2>7 DEF VersionsInv, Running
  <2>. QED
    BY <1>c, <2>5, <2>6, <2>8 DEF VersionsInv, Running, DraftsOf
<1>6. CASE UNCHANGED drafts
  <2>1. \A i \in Items : DraftsOf(i)' = DraftsOf(i) /\ Versions(i)' = Versions(i) /\ M(i) = N(i)
    BY <1>6 DEF DraftsOf, Versions
  <2>2. ASSUME NEW u \in Workers, Running(u, "close", "writing")'
        PROVE  work'[u].version <= M(work'[u].item) + 1
    <3>1. CASE Kept(u)
      <4>1. Running(u, "close", "writing") /\ work'[u] = work[u] /\ work[u].item \in Items
        BY <1>0, <2>2, <3>1, RunShapes DEF Running
      <4>. QED
        BY <1>0, <2>1, <4>1, ZenonT(60) DEF VersionsInv
    <3>2. CASE ~Kept(u)
      <4>1. EngineAnswers(u) /\ work[u].item \in Items
        BY <1>0, <1>3, <2>2, <3>2, RunShapes DEF Running, EngineAnswers
      <4>2. DOMAIN work = Workers
        BY <1>0 DEF TypeInv
      <4>3. work'[u].version = NextVersion(work[u].item) /\ work'[u].item = work[u].item
        BY <4>1, <4>2 DEF EngineAnswers
      <4>4. NextVersion(work[u].item) = N(work[u].item) + 1 /\ N(work[u].item) \in Nat
        BY <1>0, <4>1, NextVersionIs
      <4>5. M(work[u].item) = N(work[u].item)
        BY <2>1, <4>1
      <4>. HIDE DEF N, M
      <4>. QED
        BY <4>3, <4>4, <4>5
    <3>. QED
      BY <3>1, <3>2
  <2>3. ASSUME NEW w \in Workers, InsertDraft(w)
        PROVE  /\ work[w].version = N(work[w].item) + 1 /\ work[w].item \in Items
               /\ work'[w].version = work[w].version /\ work'[w].item = work[w].item
               /\ \A v \in Workers \ {w} :
                    Running(v, "close", "inserted") => work[v].item # work[w].item
    <3>1. Running(w, "close", "writing") /\ InsertAllowed(w)
      BY <2>3 DEF InsertDraft
    <3>2. work[w] \in Writing
      BY <1>0, <3>1, RunShapes DEF Running
    <3>. DEFINE v == work[w].version
                i == work[w].item
                n == N(i)
    <3>3. v \in Nat \ {0} /\ i \in Items
      BY <3>2 DEF Writing
    <3>4. n \in Nat /\ Versions(i) = 1 .. n /\ v <= n + 1 /\ v \notin Versions(i)
      BY <1>0, <1>1, <3>1, <3>3 DEF VersionsInv, InsertAllowed
    <3>5. v = n + 1
      <4>. HIDE DEF v, n
      <4>. QED
        BY <3>3, <3>4
    <3>6. ASSUME NEW u \in Workers \ {w}, Running(u, "close", "inserted"), work[u].item = i
          PROVE  FALSE
      <4>1. work[u].version = n + 1
        BY <1>0, <3>6 DEF VersionsInv
      <4>2. u \in Rivals(w, i, v)
        BY <3>5, <3>6, <4>1 DEF Rivals, Inserting
      <4>. QED
        BY <3>1, <4>2 DEF InsertAllowed
    <3>7. work'[w] = [work[w] EXCEPT !.phase = "inserted"]
      BY <1>0, <2>3 DEF InsertDraft, Phase, TypeInv
    <3>8. work'[w].version = work[w].version /\ work'[w].item = work[w].item
      BY <3>2, <3>7 DEF Writing
    <3>. QED
      BY <3>3, <3>5, <3>6, <3>8
  <2>4. ASSUME NEW u \in Workers, Running(u, "close", "inserted")'
        PROVE  \/ Running(u, "close", "inserted") /\ work'[u] = work[u]
               \/ InsertDraft(u) /\ Others(u)
    <3>1. CASE Kept(u)
      BY <2>4, <3>1 DEF Running
    <3>2. CASE ~Kept(u)
      <4>1. InsertDraft(u)
        BY <1>3, <2>4, <3>2 DEF Running
      <4>. QED
        BY <1>0, <4>1, MovesStay DEF Moves
    <3>. QED
      BY <3>1, <3>2
  <2>5. ASSUME NEW u \in Workers, Running(u, "close", "inserted")'
        PROVE  /\ work'[u].version = M(work'[u].item) + 1
               /\ \A v \in Workers \ {u} :
                    Running(v, "close", "inserted")' => work'[v].item # work'[u].item
    <3>1. CASE InsertDraft(u) /\ Others(u)
      <4>1. ASSUME NEW v \in Workers \ {u}, Running(v, "close", "inserted")'
            PROVE  Running(v, "close", "inserted") /\ work'[v] = work[v]
        BY <3>1, <4>1 DEF Others, Running
      <4>. QED
        <5>1. /\ work[u].version = N(work[u].item) + 1 /\ work[u].item \in Items
              /\ work'[u].version = work[u].version /\ work'[u].item = work[u].item
              /\ \A v \in Workers \ {u} :
                   Running(v, "close", "inserted") => work[v].item # work[u].item
          BY <2>3, <3>1
        <5>2. M(work[u].item) = N(work[u].item)
          BY <2>1, <5>1
        <5>. HIDE DEF M, N
        <5>. QED
          BY <4>1, <5>1, <5>2
    <3>2. CASE Running(u, "close", "inserted") /\ work'[u] = work[u]
      <4>1. /\ work[u].version = N(work[u].item) + 1 /\ work[u].item \in Items
            /\ \A v \in Workers \ {u} : Running(v, "close", "inserted") => work[v].item # work[u].item
        BY <1>0, <3>2, RunShapes DEF VersionsInv, Running
      <4>2. ASSUME NEW v \in Workers \ {u}, Running(v, "close", "inserted")'
            PROVE  work'[v].item # work'[u].item
        <5>1. CASE InsertDraft(v) /\ Others(v)
          BY <2>3, <3>2, <5>1
        <5>2. CASE Running(v, "close", "inserted") /\ work'[v] = work[v]
          BY <3>2, <4>1, <5>2
        <5>. QED
          BY <2>4, <4>2, <5>1, <5>2
      <4>. QED
        BY <2>1, <3>2, <4>1, <4>2
    <3>. QED
      BY <2>4, <2>5, <3>1, <3>2
  <2>6. \A i \in Items : IsFiniteSet(DraftsOf(i)') /\ Versions(i)' = 1 .. M(i)
    BY <1>1, <2>1
  <2>. QED
    BY <1>c, <2>2, <2>5, <2>6 DEF VersionsInv, DraftsOf
<1>. QED
  BY <1>0, <1>4, <1>5, <1>6, DraftsStep

\* A step keeps the books.
LEMMA BooksStep ==
  ASSUME IInv, LoopNext
  PROVE  BooksInv'
<1>0. TypeInv /\ RunsInv /\ AbsentInv /\ VersionsInv /\ BooksInv
  BY DEF IInv
<1>1. CASE UNCHANGED <<drafts, bills>>
  BY <1>0, <1>1 DEF BooksInv, DraftsOf
<1>2. ASSUME NEW d, drafts' = drafts \union {d},
             bills' = IF d.cost > 0 THEN bills \union {[item |-> d.item, cost |-> d.cost, by |-> d.by]}
                      ELSE bills
      PROVE  BooksInv'
  <2>. SUFFICES ASSUME NEW i \in Items
                PROVE  {b.by : b \in {x \in bills' : x.item = i}}
                         = {x.by : x \in {y \in DraftsOf(i)' : y.cost > 0}}
    BY DEF BooksInv
  <2>. DEFINE new == [item |-> d.item, cost |-> d.cost, by |-> d.by]
  <2>1. {b.by : b \in {x \in bills : x.item = i}} = {x.by : x \in {y \in DraftsOf(i) : y.cost > 0}}
    BY <1>0 DEF BooksInv
  <2>2. new.item = d.item /\ new.by = d.by
    OBVIOUS
  <2>. HIDE DEF new
  <2>3. CASE d.cost > 0 /\ d.item = i
    <3>1. {x \in bills' : x.item = i} = {x \in bills : x.item = i} \union {new}
      BY <1>2, <2>2, <2>3 DEF new
    <3>2. {y \in DraftsOf(i)' : y.cost > 0} = {y \in DraftsOf(i) : y.cost > 0} \union {d}
      BY <1>2, <2>3 DEF DraftsOf
    <3>. QED
      BY <2>1, <2>2, <3>1, <3>2
  <2>4. CASE d.cost > 0 /\ d.item # i
    <3>1. {x \in bills' : x.item = i} = {x \in bills : x.item = i}
      BY <1>2, <2>2, <2>4 DEF new
    <3>2. {y \in DraftsOf(i)' : y.cost > 0} = {y \in DraftsOf(i) : y.cost > 0}
      BY <1>2, <2>4 DEF DraftsOf
    <3>. QED
      BY <2>1, <3>1, <3>2
  <2>5. CASE ~(d.cost > 0)
    <3>1. {y \in DraftsOf(i)' : y.cost > 0} = {y \in DraftsOf(i) : y.cost > 0}
      BY <1>2, <2>5 DEF DraftsOf
    <3>. QED
      BY <1>2, <2>1, <2>5, <3>1
  <2>. QED
    BY <2>3, <2>4, <2>5
<1>. QED
  BY <1>0, <1>1, <1>2, DraftsStep, CommitAdds, NowAdds

\* A step keeps the drafts of their authors.
LEMMA AuthorsStep ==
  ASSUME IInv, LoopNext
  PROVE  AuthorsInv'
<1>0. TypeInv /\ RunsInv /\ AbsentInv /\ VersionsInv /\ AuthorsInv
  BY DEF IInv
<1>. DEFINE Good(d) ==
       /\ d.by = 0 => jobs'[<<"close", d.item>>] = NoJob
       /\ d.by <= jobs'[<<"close", d.item>>].runs
       /\ \A w \in Workers :
            (work'[w] # NoRun /\ work'[w].kind = "close" /\ work'[w].item = d.item
               /\ work'[w].phase # "committed") => work'[w].run # d.by
<1>1. ASSUME NEW i \in Items
      PROVE  /\ <<"close", i>> \in Keys /\ <<"close", i>>[1] = "close" /\ <<"close", i>>[2] = i
             /\ status[i] # "absent" /\ jobs[<<"close", i>>] = NoJob => jobs'[<<"close", i>>] = NoJob
  <2>1. <<"close", i>> \in Keys /\ <<"close", i>>[1] = "close" /\ <<"close", i>>[2] = i
    BY DEF Keys, Kinds
  <2>2. CloseFixes(i) => status[i] = "absent"
    BY DEF CloseFixes
  <2>. QED
    BY <1>0, <2>1, <2>2, JobsStep DEF JobsGoOn
<1>2. ASSUME NEW w \in Workers, work'[w] # NoRun, work'[w].phase # "committed"
      PROVE  \/ \E k \in Keys : Claim(w, k)
             \/ /\ work[w] # NoRun /\ work[w].phase # "committed" /\ work'[w].kind = work[w].kind
                /\ work'[w].item = work[w].item /\ work'[w].run = work[w].run
  <2>1. Moves(w) => work[w].phase # "committed"
    BY DEF Moves, EngineAnswers, InsertDraft, CommitDraft, PostDraft, CommitPublish,
         BeginVerify, CommitVerify, BeginDelta, CommitDelta, Running
  <2>. QED
    BY <1>0, <1>2, <2>1, WorkStep DEF WorkGoesOn, SameRun
\* The drafts that were there.
<1>3. ASSUME NEW d \in drafts
      PROVE  Good(d)
  <2>. DEFINE k == <<"close", d.item>>
  <2>1. d.item \in Items /\ d.by \in Nat
    BY <1>0 DEF TypeInv
  <2>2. d \in DraftsOf(d.item) /\ status[d.item] # "absent"
    BY <1>0, <2>1 DEF AbsentInv, DraftsOf
  <2>3. k \in Keys /\ k[1] = "close" /\ k[2] = d.item
    BY <1>1, <2>1
  <2>4. d.by = 0 => jobs'[k] = NoJob
    BY <1>0, <1>1, <2>1, <2>2 DEF AuthorsInv
  <2>5. /\ jobs[k].runs \in Nat /\ jobs'[k].runs \in Nat
        /\ d.by <= jobs[k].runs /\ jobs[k].runs <= jobs'[k].runs
    BY <1>0, <2>3, ClaimsStay DEF AuthorsInv
  <2>6. d.by <= jobs'[k].runs
    BY <2>1, <2>5
  <2>7. ASSUME NEW w \in Workers, work'[w] # NoRun, work'[w].kind = "close",
               work'[w].item = d.item, work'[w].phase # "committed"
        PROVE  work'[w].run # d.by
    <3>1. ASSUME NEW c \in Keys, Claim(w, c)
          PROVE  work'[w].run # d.by
      <4>1. c = <<c[1], c[2]>>
        BY DEF Keys
      <4>2. c = k /\ work'[w].run = jobs[c].runs + 1
        BY <1>0, <2>7, <3>1, <4>1, ClaimBegins
      <4>. QED
        BY <2>1, <2>5, <4>2
    <3>2. CASE /\ work[w] # NoRun /\ work[w].phase # "committed" /\ work'[w].kind = work[w].kind
               /\ work'[w].item = work[w].item /\ work'[w].run = work[w].run
      BY <1>0, <2>7, <3>2 DEF AuthorsInv
    <3>. QED
      BY <1>2, <2>7, <3>1, <3>2
  <2>. QED
    BY <2>4, <2>6, <2>7
\* The draft of the run that commits.
<1>4. ASSUME NEW w \in Workers, CommitDraft(w), NEW d \in drafts', d \notin drafts
      PROVE  Good(d)
  <2>1. d.item = work[w].item /\ d.by = work[w].run
    BY <1>0, <1>4, CommitAdds
  <2>2. work[w] # NoRun /\ work[w].kind = "close" /\ work[w].phase = "inserted"
    BY <1>4 DEF CommitDraft, Running
  <2>. DEFINE k == <<"close", d.item>>
  <2>3. k \in Keys /\ jobs[k].runs \in Nat /\ d.by \in 1 .. jobs[k].runs /\ UNCHANGED jobs
    BY <1>0, <1>4, <2>1, <2>2, RunHasJob, ClaimsStay DEF RunsInv, CommitDraft
  <2>4. Others(w)
    BY <1>0, <1>4, MovesStay DEF Moves
  <2>5. work'[w].phase = "committed"
    <3>1. work[w] \in Writing /\ DOMAIN work = Workers
      BY <1>0, <2>2, RunShapes DEF TypeInv
    <3>. QED
      BY <1>4, <3>1 DEF CommitDraft, Phase, Writing
  <2>6. ASSUME NEW u \in Workers, work'[u] # NoRun, work'[u].kind = "close",
               work'[u].item = d.item, work'[u].phase # "committed"
        PROVE  work'[u].run # d.by
    <3>1. u # w /\ work'[u] = work[u]
      BY <2>4, <2>5, <2>6 DEF Others
    <3>. QED
      BY <1>0, <2>1, <2>2, <2>6, <3>1 DEF RunsInv
  <2>7. d.by # 0 /\ d.by <= jobs'[k].runs
    BY <2>3
  <2>. QED
    BY <2>6, <2>7
\* The draft of the operator.
<1>5. ASSUME NEW i \in Items, CloseFixesNow(i), NEW d \in drafts', d \notin drafts
      PROVE  Good(d)
  <2>1. d.item = i /\ d.by = 0
    BY <1>0, <1>5, NowAdds
  <2>2. status[i] = "absent" /\ UNCHANGED <<jobs, work>>
    BY <1>5 DEF CloseFixesNow
  <2>3. jobs[<<"close", i>>] = NoJob
    BY <1>0, <2>2 DEF AbsentInv, Kinds
  <2>4. NoJob.runs = 0
    BY DEF NoJob
  <2>5. ASSUME NEW u \in Workers, work[u] # NoRun
        PROVE  work[u].item # i
    BY <1>0, <2>2, <2>5, RunHasJob
  <2>. QED
    BY <2>1, <2>2, <2>3, <2>4, <2>5
<1>6. ASSUME NEW d \in drafts'
      PROVE  Good(d)
  BY <1>0, <1>3, <1>4, <1>5, <1>6, DraftsStep
<1>. QED
  BY <1>6 DEF AuthorsInv

\* A step keeps the status true to its trail.
LEMMA TrailStep ==
  ASSUME IInv, LoopNext
  PROVE  TrailInv'
<1>0. TypeInv /\ RunsInv /\ AbsentInv /\ VersionsInv /\ TrailInv
  BY DEF IInv
<1>1. ASSUME NEW w \in Workers, CommitPublish(w), NEW i \in Items, work[w].item = i
      PROVE  HasDraft(i) /\ events'[i] # <<>> /\ \A k \in VerifyJobs(i) : k \in Keys /\ jobs'[k] # NoJob
  <2>1. Running(w, "publish", "posted") /\ jobs' = Enqueued(jobs, VerifyJobs(i))
    BY <1>1 DEF CommitPublish
  <2>2. VerifyJobs(i) \in SUBSET Keys
    BY DEF VerifyJobs, Keys, Kinds
  <2>3. HasDraft(i)
    BY <1>0, <1>1, <2>1 DEF TrailInv
  <2>4. \A k \in VerifyJobs(i) : jobs'[k] # NoJob
    BY <1>0, <2>1, <2>2, EnqueuedKeeps
  <2>5. work[w].url \in BOOLEAN /\ events' = [events EXCEPT ![i] = Append(@, work[w].url)]
    BY <1>0, <1>1, <2>1, RunShapes DEF CommitPublish, Running, Posted
  <2>6. events'[i] = Append(events[i], work[w].url) /\ events[i] \in Seq(BOOLEAN)
    BY <1>0, <2>5 DEF TypeInv
  <2>. QED
    BY <2>2, <2>3, <2>4, <2>5, <2>6
<1>2. ASSUME NEW i \in Items, events'[i] # <<>>
      PROVE  HasDraft(i)' /\ jobs'[<<"early", i>>] # NoJob /\ jobs'[<<"late", i>>] # NoJob
  <2>1. <<"early", i>> \in Keys /\ <<"late", i>> \in Keys
    BY DEF Keys, Kinds
  <2>2. CASE events[i] # <<>>
    BY <1>0, <2>1, <2>2, DraftsStay, JobsStep DEF TrailInv, JobsGoOn
  <2>3. CASE events[i] = <<>>
    <3>1. PICK w \in Workers : CommitPublish(w) /\ work[w].item = i
      BY <1>0, <1>2, <2>3, EventsStep
    <3>. QED
      BY <1>0, <1>1, <3>1, DraftsStay DEF VerifyJobs
  <2>. QED
    BY <2>2, <2>3
<1>3. ASSUME NEW i \in Items
      PROVE  /\ events[i] # <<>> => events'[i] # <<>>
             /\ WithUrl(i) # {} => WithUrl(i)' # {} /\ events[i] # <<>>
  <2>1. events[i] = <<>> => WithUrl(i) = {}
    BY DEF WithUrl
  <2>. QED
    BY <1>0, <2>1, EventsStep
<1>. DEFINE StatusTrue(i) ==
       /\ status'[i] \in Live => events'[i] # <<>>
       /\ status'[i] \in {"verified", "verify_failed"} => WithUrl(i)' # {}
       /\ status'[i] \in {"published", "verified", "measured"} => verdict'[i] # "failed"
       /\ status'[i] = "measured" => deltas'[i] # {}
<1>4. ASSUME NEW i \in Items
      PROVE  StatusTrue(i)
  <2>0. /\ status[i] \in Live => events[i] # <<>>
        /\ status[i] \in {"verified", "verify_failed"} => WithUrl(i) # {}
        /\ status[i] \in {"published", "verified", "measured"} => verdict[i] # "failed"
        /\ status[i] = "measured" => deltas[i] # {}
    BY <1>0 DEF TrailInv
  <2>1. CASE ItemStands(i)
    BY <1>3, <2>0, <2>1 DEF ItemStands
  <2>2. CASE CloseFixesNow(i) \/ CloseFixes(i)
    BY <1>0, <2>2, ItemBecomes DEF Live
  <2>3. ASSUME NEW w \in Workers, work[w].item = i, CommitDraft(w)
        PROVE  StatusTrue(i)
    BY <1>0, <2>3, ItemBecomes DEF Live
  <2>4. ASSUME NEW w \in Workers, work[w].item = i, CommitPublish(w)
        PROVE  StatusTrue(i)
    BY <1>0, <1>1, <2>4, ItemBecomes
  <2>5. ASSUME NEW w \in Workers, work[w].item = i, CommitVerify(w)
        PROVE  StatusTrue(i)
    <3>1. WithUrl(i) # {}
      BY <1>0, <2>5 DEF TrailInv, CommitVerify
    <3>. QED
      BY <1>0, <1>3, <2>1, <2>5, <3>1, ItemBecomes
  <2>6. ASSUME NEW w \in Workers, work[w].item = i, CommitDelta(w)
        PROVE  StatusTrue(i)
    <3>1. CASE Measurable(status[i])
      <4>1. status[i] \in Live /\ status[i] \in {"published", "verified"}
        BY <3>1 DEF Measurable, Live
      <4>. QED
        BY <1>0, <1>3, <2>0, <2>6, <3>1, <4>1, ItemBecomes
    <3>2. CASE ~Measurable(status[i])
      BY <1>0, <1>3, <2>0, <2>6, <3>2, ItemBecomes
    <3>. QED
      BY <3>1, <3>2
  <2>. QED
    BY <1>0, <2>1, <2>2, <2>3, <2>4, <2>5, <2>6, ItemsStep DEF Commits
<1>5. ASSUME NEW w \in Workers, Running(w, "publish", "posted")'
      PROVE  HasDraft(work[w].item)' /\ work'[w].item = work[w].item
  <2>1. CASE work'[w] = work[w]
    <3>1. Running(w, "publish", "posted") /\ work[w].item \in Items
      BY <1>0, <1>5, <2>1, RunShapes DEF Running
    <3>2. PICK i \in Items : i = work[w].item
      BY <3>1
    <3>3. HasDraft(i)'
      BY <1>0, <3>1, <3>2, DraftsStay DEF TrailInv
    <3>. QED
      BY <2>1, <3>2, <3>3
  <2>2. CASE work'[w] # work[w]
    <3>1. PostDraft(w) /\ SameRun(w)
      BY <1>0, <1>5, <2>2, PhaseStep DEF Running
    <3>2. PICK i \in Items : i = work[w].item
      BY <1>0, <3>1, RunShapes DEF SameRun
    <3>3. HasDraft(i)'
      BY <1>0, <3>1, <3>2, DraftsStay DEF PostDraft
    <3>. QED
      BY <3>1, <3>2, <3>3 DEF SameRun
  <2>. QED
    BY <2>1, <2>2
<1>6. ASSUME NEW w \in Workers, Running(w, "early", "probing")' \/ Running(w, "late", "probing")'
      PROVE  WithUrl(work[w].item)' # {} /\ work'[w].item = work[w].item
  <2>1. CASE work'[w] = work[w]
    <3>1. PICK i \in Items : i = work[w].item
      BY <1>0, <1>6, <2>1, RunShapes DEF Running
    <3>2. WithUrl(i) # {}
      BY <1>0, <1>6, <2>1, <3>1 DEF TrailInv, Running
    <3>3. WithUrl(i)' # {}
      BY <1>3, <3>2
    <3>. QED
      BY <2>1, <3>1, <3>3
  <2>2. CASE work'[w] # work[w]
    <3>1. BeginVerify(w) /\ SameRun(w)
      BY <1>0, <1>6, <2>2, PhaseStep DEF Running
    <3>2. PICK i \in Items : i = work[w].item
      BY <1>0, <3>1, RunShapes DEF SameRun
    <3>3. WithUrl(i)' # {}
      BY <1>3, <3>1, <3>2 DEF BeginVerify
    <3>. QED
      BY <3>1, <3>2, <3>3 DEF SameRun
  <2>. QED
    BY <2>1, <2>2
<1>. HIDE DEF StatusTrue
<1>7. \A w \in Workers :
        /\ Running(w, "publish", "posted")' => HasDraft(work[w].item)'
        /\ Running(w, "early", "probing")' \/ Running(w, "late", "probing")'
             => WithUrl(work[w].item)' # {}
  BY <1>5, <1>6
<1>. QED
  BY <1>2, <1>4, <1>7 DEF TrailInv, StatusTrue

\* Where a step does not touch a job, who holds it and its last word stay.
LEMMA UntouchedKeeps ==
  ASSUME IInv, lost \subseteq lost', NEW touched,
         \A w \in Workers : work'[w] # NoRun /\ KeyOf(w)' # touched =>
           /\ work[w] # NoRun /\ work'[w].kind = work[w].kind /\ work'[w].item = work[w].item
           /\ work'[w].run = work[w].run,
         \A k \in Keys : k # touched /\ jobs[k] # NoJob => jobs'[k] = jobs[k],
         \A w \in Workers : work[w] # NoRun /\ work[w].phase = "committed" /\ KeyOf(w) # touched =>
           work'[w] = work[w]
  PROVE  /\ \A w \in Workers : work'[w] # NoRun /\ KeyOf(w)' # touched => HeldOrLost(w)'
         /\ \A d \in drafts : d.by # 0 /\ <<"close", d.item>> # touched => LastOrLost(d)'
<1>0. TypeInv /\ RunsInv /\ AbsentInv /\ LossInv
  BY DEF IInv
<1>1. ASSUME NEW w \in Workers, work'[w] # NoRun, KeyOf(w)' # touched
      PROVE  HeldOrLost(w)'
  <2>1. /\ work[w] # NoRun /\ KeyOf(w)' = KeyOf(w) /\ work'[w].run = work[w].run
    BY <1>1 DEF KeyOf
  <2>2. KeyOf(w) \in Keys /\ jobs[KeyOf(w)] # NoJob
    BY <1>0, <2>1, RunHasJob DEF KeyOf
  <2>3. jobs'[KeyOf(w)] = jobs[KeyOf(w)]
    BY <1>1, <2>1, <2>2
  <2>4. Holds(w) => Holds(w)'
    BY <2>1, <2>3 DEF Holds, Owns
  <2>. QED
    BY <1>0, <2>1, <2>4 DEF LossInv, HeldOrLost
<1>2. ASSUME NEW d \in drafts, d.by # 0, <<"close", d.item>> # touched
      PROVE  LastOrLost(d)'
  <2>. DEFINE k == <<"close", d.item>>
  <2>1. k \in Keys
    BY <1>0 DEF TypeInv, Keys, Kinds
  <2>2. CASE <<k, d.by>> \in lost
    BY <2>2 DEF LastOrLost
  <2>3. CASE LastWord(d)
    <3>1. jobs[k].status \in {"done", "running"}
      BY <2>3 DEF LastWord, Owns
    <3>2. jobs'[k] = jobs[k]
      BY <1>2, <2>1, <3>1 DEF NoJob
    <3>3. ASSUME NEW w \in Workers, work[w] # NoRun, KeyOf(w) = k, work[w].run = d.by,
                 work[w].phase = "committed", Owns(w, k)
          PROVE  LastWord(d)'
      <4>1. work'[w] = work[w]
        BY <1>2, <3>3
      <4>2. KeyOf(w)' = k /\ Owns(w, k)'
        BY <3>2, <3>3, <4>1 DEF KeyOf, Owns
      <4>. QED
        BY <2>3, <3>2, <3>3, <4>1, <4>2 DEF LastWord
    <3>. QED
      BY <2>3, <3>2, <3>3 DEF LastWord, LastOrLost
  <2>. QED
    BY <1>0, <1>2, <2>2, <2>3 DEF LossInv, LastOrLost
<1>. QED
  BY <1>1, <1>2

\* A job that waits or is dead is held by nobody, and has no last word.
LEMMA NobodyHolds ==
  ASSUME LossInv, NEW k, jobs[k].status \in {"queued", "dead"}
  PROVE  /\ \A w \in Workers : work[w] # NoRun /\ KeyOf(w) = k => <<k, work[w].run>> \in lost
         /\ \A d \in drafts : d.by # 0 /\ <<"close", d.item>> = k => <<k, d.by>> \in lost
BY DEF LossInv, HeldOrLost, LastOrLost, Holds, LastWord, Owns

\* A step keeps what is known of the runs and of the drafts there were.
LEMMA LossKept ==
  ASSUME IInv, LoopNext
  PROVE  /\ \A w \in Workers : work'[w] # NoRun => HeldOrLost(w)'
         /\ \A d \in drafts : d.by # 0 => LastOrLost(d)'
<1>. DEFINE Kept == /\ \A w \in Workers : work'[w] # NoRun => HeldOrLost(w)'
                    /\ \A d \in drafts : d.by # 0 => LastOrLost(d)'
<1>0. TypeInv /\ RunsInv /\ AbsentInv /\ VersionsInv /\ LossInv /\ jobs \in [Keys -> Job]
  BY DEF IInv, TypeInv
<1>a. DOMAIN work = Workers /\ DOMAIN jobs = Keys
  BY <1>0 DEF TypeInv
<1>b. ASSUME NEW ks \in SUBSET Keys, jobs' = Enqueued(jobs, ks)
      PROVE  \A k \in Keys : jobs[k] # NoJob => jobs'[k] = jobs[k]
  BY <1>0, <1>b, EnqueuedKeeps
<1>1. ASSUME NEW w \in Workers, Moves(w)
      PROVE  Kept
  <2>1. UNCHANGED lost /\ work[w].phase # "committed"
    BY <1>1 DEF Moves, EngineAnswers, InsertDraft, CommitDraft, PostDraft, CommitPublish,
       BeginVerify, CommitVerify, BeginDelta, CommitDelta, Running
  <2>2. SameRun(w) /\ Others(w)
    BY <1>0, <1>1, MovesStay
  <2>3. \A k \in Keys : jobs[k] # NoJob => jobs'[k] = jobs[k]
    <3>1. CASE CommitPublish(w)
      <4>1. work[w].item \in Items /\ jobs' = Enqueued(jobs, VerifyJobs(work[w].item))
        BY <1>0, <3>1, RunShapes DEF CommitPublish, Running
      <4>2. VerifyJobs(work[w].item) \in SUBSET Keys
        BY <4>1 DEF VerifyJobs, Keys, Kinds
      <4>. QED
        BY <1>b, <4>1, <4>2
    <3>2. CASE ~CommitPublish(w)
      BY <1>1, <3>2 DEF Moves, EngineAnswers, InsertDraft, CommitDraft, PostDraft,
         BeginVerify, CommitVerify, BeginDelta, CommitDelta
    <3>. QED
      BY <3>1, <3>2
  <2>4. \A u \in Workers : work'[u] # NoRun =>
          /\ work[u] # NoRun /\ work'[u].kind = work[u].kind /\ work'[u].item = work[u].item
          /\ work'[u].run = work[u].run
    BY <2>2 DEF SameRun, Others
  <2>5. \A u \in Workers : work[u] # NoRun /\ work[u].phase = "committed" => work'[u] = work[u]
    BY <2>1, <2>2 DEF Others
  <2>6. /\ \A u \in Workers : KeyOf(u)' # <<>>
        /\ \A d \in drafts : <<"close", d.item>> # <<>>
    BY DEF KeyOf
  <2>. QED
    BY <2>1, <2>3, <2>4, <2>5, <2>6, UntouchedKeeps
<1>2. ASSUME NEW i \in Items, CloseFixesNow(i) \/ CloseFixes(i) \/ Publish(i) \/ AskForDelta(i)
      PROVE  Kept
  <2>1. UNCHANGED <<lost, work>>
    BY <1>2 DEF CloseFixesNow, CloseFixes, Publish, AskForDelta
  <2>2. \A k \in Keys : jobs[k] # NoJob => jobs'[k] = jobs[k]
    <3>1. UNCHANGED jobs \/ \E kind \in Kinds : jobs' = Enqueued(jobs, {<<kind, i>>})
      BY <1>2 DEF CloseFixesNow, CloseFixes, Publish, AskForDelta, Kinds
    <3>2. \A kind \in Kinds : {<<kind, i>>} \in SUBSET Keys
      BY DEF Keys
    <3>. QED
      BY <1>b, <3>1, <3>2
  <2>3. /\ \A u \in Workers : KeyOf(u)' # <<>>
        /\ \A d \in drafts : <<"close", d.item>> # <<>>
    BY DEF KeyOf
  <2>. QED
    BY <2>1, <2>2, <2>3, UntouchedKeeps
<1>3. ASSUME NEW w \in Workers, NEW k \in Keys, Claim(w, k)
      PROVE  Kept
  <2>1. /\ jobs[k].status = "queued" /\ UNCHANGED lost /\ work[w] = NoRun
        /\ \A u \in Workers \ {w} : work'[u] = work[u]
        /\ \A c \in Keys \ {k} : jobs'[c] = jobs[c]
    BY <1>3, <1>a DEF Claim
  <2>2. KeyOf(w)' = k
    BY <1>3, <1>a DEF Claim, KeyOf, Keys
  <2>3. HeldOrLost(w)'
    <3>1. /\ jobs'[k].status = "running" /\ jobs'[k].owner = w
          /\ jobs'[k].runs = work'[w].run
      BY <1>3, <1>a DEF Claim
    <3>. QED
      BY <2>2, <3>1 DEF HeldOrLost, Holds, Owns
  <2>4. \A u \in Workers : work'[u] # NoRun /\ KeyOf(u)' # k =>
          /\ work[u] # NoRun /\ work'[u].kind = work[u].kind /\ work'[u].item = work[u].item
          /\ work'[u].run = work[u].run
    BY <2>1, <2>2
  <2>5. \A u \in Workers : work[u] # NoRun => work'[u] = work[u]
    BY <2>1
  <2>6. /\ \A u \in Workers : work'[u] # NoRun /\ KeyOf(u)' # k => HeldOrLost(u)'
        /\ \A d \in drafts : d.by # 0 /\ <<"close", d.item>> # k => LastOrLost(d)'
    BY <2>1, <2>4, <2>5, UntouchedKeeps
  <2>7. ASSUME NEW u \in Workers, work'[u] # NoRun, KeyOf(u)' = k, u # w
        PROVE  HeldOrLost(u)'
    <3>1. work'[u] = work[u] /\ KeyOf(u) = k
      BY <2>1, <2>7 DEF KeyOf
    <3>2. <<k, work[u].run>> \in lost
      BY <1>0, <2>1, <2>7, <3>1, NobodyHolds
    <3>. QED
      BY <2>1, <2>7, <3>1, <3>2 DEF HeldOrLost
  <2>8. \A d \in drafts : d.by # 0 /\ <<"close", d.item>> = k => LastOrLost(d)'
    BY <1>0, <2>1, NobodyHolds DEF LastOrLost
  <2>. QED
    BY <2>3, <2>6, <2>7, <2>8
<1>4. ASSUME NEW k \in Keys, Reap(k) \/ Retry(k)
      PROVE  Kept
  <2>1. /\ UNCHANGED work /\ lost \subseteq lost' /\ \A c \in Keys \ {k} : jobs'[c] = jobs[c]
    <3>1. UNCHANGED work /\ lost \subseteq lost'
      BY <1>4 DEF Reap, Retry, Loses
    <3>2. \E job : jobs' = [jobs EXCEPT ![k] = job]
      BY <1>4 DEF Reap, Retry
    <3>. QED
      BY <1>a, <3>1, <3>2
  <2>2. /\ \A u \in Workers : work'[u] # NoRun /\ KeyOf(u)' # k => HeldOrLost(u)'
        /\ \A d \in drafts : d.by # 0 /\ <<"close", d.item>> # k => LastOrLost(d)'
    BY <2>1, UntouchedKeeps
  <2>3. CASE Reap(k)
    <3>1. <<k, jobs[k].runs>> \in lost'
      BY <2>3 DEF Reap, Loses
    <3>2. /\ \A u \in Workers : work[u] # NoRun /\ KeyOf(u) = k => <<k, work[u].run>> \in lost'
          /\ \A d \in drafts : d.by # 0 /\ <<"close", d.item>> = k => <<k, d.by>> \in lost'
      BY <1>0, <2>1, <3>1 DEF LossInv, HeldOrLost, LastOrLost, Holds, LastWord
    <3>3. \A u \in Workers : work'[u] # NoRun /\ KeyOf(u)' = k => HeldOrLost(u)'
      BY <2>1, <3>2 DEF HeldOrLost, KeyOf
    <3>4. \A d \in drafts : d.by # 0 /\ <<"close", d.item>> = k => LastOrLost(d)'
      BY <3>2 DEF LastOrLost
    <3>. QED
      BY <2>2, <3>3, <3>4
  <2>4. CASE Retry(k)
    <3>1. jobs[k].status = "dead" /\ UNCHANGED lost
      BY <2>4 DEF Retry, Dead
    <3>2. \A u \in Workers : work'[u] # NoRun /\ KeyOf(u)' = k => HeldOrLost(u)'
      BY <1>0, <2>1, <3>1, NobodyHolds DEF HeldOrLost, KeyOf
    <3>3. \A d \in drafts : d.by # 0 /\ <<"close", d.item>> = k => LastOrLost(d)'
      BY <1>0, <3>1, NobodyHolds DEF LastOrLost
    <3>. QED
      BY <2>2, <3>2, <3>3
  <2>. QED
    BY <1>4, <2>3, <2>4
<1>5. ASSUME NEW w \in Workers, Fails(w) \/ Completes(w)
      PROVE  Kept
  <2>. DEFINE k == KeyOf(w)
  <2>1. /\ work[w] # NoRun /\ work'[w] = NoRun /\ \A u \in Workers \ {w} : work'[u] = work[u]
        /\ lost \subseteq lost' /\ \A c \in Keys \ {k} : jobs'[c] = jobs[c]
        /\ ~Owns(w, k) => UNCHANGED jobs
    BY <1>5, <1>a DEF Fails, Completes, Loses, KeyOf
  <2>2. k \in Keys
    BY <1>0, <2>1, RunHasJob DEF KeyOf
  <2>3. /\ \A u \in Workers : work'[u] # NoRun /\ KeyOf(u)' # k => HeldOrLost(u)'
        /\ \A d \in drafts : d.by # 0 /\ <<"close", d.item>> # k => LastOrLost(d)'
    <3>1. \A u \in Workers : work'[u] # NoRun =>
            /\ work[u] # NoRun /\ work'[u].kind = work[u].kind /\ work'[u].item = work[u].item
            /\ work'[u].run = work[u].run
      BY <2>1
    <3>2. \A u \in Workers : work[u] # NoRun /\ KeyOf(u) # k => work'[u] = work[u]
      BY <2>1
    <3>. HIDE DEF k
    <3>. QED
      BY <2>1, <3>1, <3>2, UntouchedKeeps
  <2>4. ASSUME NEW u \in Workers, work'[u] # NoRun, KeyOf(u)' = k
        PROVE  HeldOrLost(u)'
    <3>1. u # w /\ work'[u] = work[u] /\ KeyOf(u) = k
      BY <2>1, <2>4 DEF KeyOf
    <3>2. HeldOrLost(u)
      BY <1>0, <2>4, <3>1 DEF LossInv
    <3>3. CASE Owns(w, k)
      <4>1. ~Holds(u)
        BY <3>1, <3>3 DEF Holds, Owns
      <4>. QED
        BY <2>1, <2>4, <3>1, <3>2, <4>1 DEF HeldOrLost
    <3>4. CASE ~Owns(w, k)
      BY <2>1, <2>4, <3>1, <3>2, <3>4 DEF HeldOrLost, Holds, Owns
    <3>. QED
      BY <3>3, <3>4
  <2>5. ASSUME NEW d \in drafts, d.by # 0, <<"close", d.item>> = k
        PROVE  LastOrLost(d)'
    <3>1. LastOrLost(d)
      BY <1>0, <2>5 DEF LossInv
    <3>2. CASE <<k, d.by>> \in lost
      BY <2>1, <2>5, <3>2 DEF LastOrLost
    <3>3. CASE LastWord(d) /\ jobs[k].status = "done"
      BY <2>1, <2>5, <3>3 DEF LastOrLost, LastWord, Owns
    <3>4. ASSUME NEW u \in Workers, LastWord(d), work[u] # NoRun, KeyOf(u) = k, work[u].run = d.by,
                 work[u].phase = "committed", Owns(u, k)
          PROVE  LastOrLost(d)'
      <4>1. CASE u # w
        <5>1. ~Owns(w, k) /\ work'[u] = work[u]
          BY <2>1, <3>4, <4>1 DEF Owns
        <5>2. UNCHANGED jobs /\ KeyOf(u)' = k
          BY <2>1, <3>4, <5>1 DEF KeyOf
        <5>3. LastWord(d)'
          BY <2>5, <3>4, <5>1, <5>2 DEF LastWord, Owns
        <5>. QED
          BY <5>3 DEF LastOrLost
      <4>2. CASE u = w /\ Fails(w)
        <5>1. <<k, d.by>> \in lost'
          BY <3>4, <4>2 DEF Fails, Loses, KeyOf
        <5>. QED
          BY <2>5, <5>1 DEF LastOrLost
      <4>3. CASE u = w /\ Completes(w)
        <5>1. jobs' = [jobs EXCEPT ![k].status = "done", ![k].owner = "nobody"]
          BY <3>4, <4>3 DEF Completes, KeyOf
        <5>2. jobs[k] \in Job /\ k \in DOMAIN jobs
          BY <1>0, <2>2
        <5>3. jobs'[k].status = "done" /\ jobs'[k].runs = jobs[k].runs
          BY <5>1, <5>2 DEF Job
        <5>4. LastWord(d)'
          BY <2>5, <3>4, <5>3 DEF LastWord
        <5>. QED
          BY <5>4 DEF LastOrLost
      <4>. QED
        BY <1>5, <4>1, <4>2, <4>3
    <3>. QED
      BY <2>5, <3>1, <3>2, <3>3, <3>4 DEF LastOrLost, LastWord
  <2>. QED
    BY <2>3, <2>4, <2>5
<1>. QED
  BY <1>1, <1>2, <1>3, <1>4, <1>5 DEF LoopNext, Moves

\* A draft that is committed is the last word of its job, if its run holds it.
LEMMA LossStep ==
  ASSUME IInv, LoopNext
  PROVE  LossInv'
<1>0. TypeInv /\ LossInv
  BY DEF IInv
<1>1. ASSUME NEW w \in Workers, CommitDraft(w), NEW d \in drafts', d \notin drafts
      PROVE  LastOrLost(d)'
  <2>1. d.item = work[w].item /\ d.by = work[w].run
    BY <1>0, <1>1, CommitAdds
  <2>2. /\ work[w] # NoRun /\ work[w].kind = "close" /\ work[w].phase = "inserted"
        /\ UNCHANGED <<jobs, lost>>
    BY <1>1 DEF CommitDraft, Running
  <2>3. KeyOf(w) = <<"close", d.item>> /\ HeldOrLost(w)
    BY <1>0, <2>1, <2>2 DEF KeyOf, LossInv
  <2>4. work[w] \in Writing /\ DOMAIN work = Workers
    BY <1>0, <2>2, RunShapes DEF TypeInv
  <2>5. /\ work'[w].phase = "committed" /\ work'[w] # NoRun /\ work'[w].run = work[w].run
        /\ KeyOf(w)' = KeyOf(w)
    BY <1>1, <2>4 DEF CommitDraft, Phase, Writing, KeyOf, NoRun
  <2>6. Holds(w) => LastWord(d)'
    BY <2>1, <2>2, <2>3, <2>5 DEF Holds, LastWord, Owns
  <2>. QED
    BY <2>1, <2>2, <2>3, <2>6 DEF HeldOrLost, LastOrLost
<1>2. ASSUME NEW i \in Items, CloseFixesNow(i), NEW d \in drafts', d \notin drafts
      PROVE  d.by = 0
  BY <1>0, <1>2, NowAdds
<1>3. ASSUME NEW d \in drafts', d.by # 0
      PROVE  LastOrLost(d)'
  BY <1>0, <1>1, <1>2, <1>3, LossKept, DraftsStep
<1>. QED
  BY <1>3, LossKept DEF LossInv

\* It holds before any item is created.
LEMMA Initially ==
  ASSUME LoopInit
  PROVE  IInv
<1>1. \A w \in Workers : work[w] = NoRun
  BY DEF LoopInit
<1>2. TypeInv
  <2>1. NoJob \in Job
    BY DEF NoJob, Job
  <2>. QED
    BY <2>1 DEF LoopInit, TypeInv
<1>3. \A i \in Items : DraftsOf(i) = {} /\ Versions(i) = {}
  BY DEF LoopInit, DraftsOf, Versions
<1>4. VersionsInv
  <2>1. IsFiniteSet({}) /\ Cardinality({}) = 0 /\ {} = 1 .. 0
    BY FS_EmptySet
  <2>2. \A i \in Items : IsFiniteSet(DraftsOf(i)) /\ Versions(i) = 1 .. Cardinality(DraftsOf(i))
    BY <1>3, <2>1
  <2>3. \A w \in Workers : ~Running(w, "close", "writing") /\ ~Running(w, "close", "inserted")
    BY <1>1 DEF Running
  <2>. QED
    BY <2>2, <2>3 DEF VersionsInv
<1>5. AbsentInv
  BY <1>3 DEF LoopInit, AbsentInv, Keys
<1>6. BooksInv
  BY <1>3 DEF LoopInit, BooksInv
<1>7. TrailInv
  BY <1>1 DEF LoopInit, TrailInv, Running, Live
<1>8. RunsInv /\ AuthorsInv /\ LossInv
  BY <1>1 DEF LoopInit, RunsInv, AuthorsInv, LossInv
<1>. QED
  BY <1>2, <1>4, <1>5, <1>6, <1>7, <1>8 DEF IInv

\* Every step keeps it.
LEMMA Step ==
  ASSUME IInv, [LoopNext]_loopVars
  PROVE  IInv'
<1>1. CASE LoopNext
  BY <1>1, TypeStep, RunsStep, AbsentStep, VersionsStep, BooksStep, AuthorsStep, TrailStep,
     LossStep DEF IInv
<1>2. CASE UNCHANGED loopVars
  <2>. USE <1>2 DEF loopVars
  <2>1. TypeInv /\ RunsInv /\ AuthorsInv => TypeInv' /\ RunsInv' /\ AuthorsInv'
    BY DEF TypeInv, RunsInv, AuthorsInv
  <2>2. AbsentInv /\ BooksInv => AbsentInv' /\ BooksInv'
    BY DEF AbsentInv, BooksInv, DraftsOf
  <2>3. VersionsInv => VersionsInv'
    BY DEF VersionsInv, DraftsOf, Versions, Running
  <2>4. TrailInv => TrailInv'
    BY DEF TrailInv, HasDraft, Versions, WithUrl, Running
  <2>5. LossInv => LossInv'
    BY DEF LossInv, HeldOrLost, LastOrLost, Holds, LastWord, KeyOf, Owns
  <2>. QED
    BY <2>1, <2>2, <2>3, <2>4, <2>5 DEF IInv
<1>. QED
  BY <1>1, <1>2

-----------------------------------------------------------------------------
(* Theorems *)

\* The invariant is one.
THEOREM InductiveInvariant == LoopSpec => []IInv
<1>1. LoopInit => IInv
  BY Initially
<1>2. IInv /\ [LoopNext]_loopVars => IInv'
  BY Step
<1>. QED
  BY <1>1, <1>2, PTL DEF LoopSpec

\* However many runs of one close_fixes job overlap, the drafts of an item are
\* versions 1 to n, each of one run, and the books name those that cost.
THEOREM DraftsAreVersioned == LoopSpec => []DraftsAreASequence
<1>1. IInv => DraftsAreASequence
  BY DEF IInv, VersionsInv, BooksInv, DraftsAreASequence
<1>. QED
  BY <1>1, InductiveInvariant, PTL

\* The status never says more than the trail of drafts, publications, probes
\* and deltas behind it.
THEOREM StatusIsBacked == LoopSpec => []StatusHasItsTrail
<1>1. IInv => StatusHasItsTrail
  BY DEF IInv, TrailInv, StatusHasItsTrail
<1>. QED
  BY <1>1, InductiveInvariant, PTL

\* What is live goes back to review only when two runs of its close_fixes job
\* committed a draft, and one of them had lost its lease or the answer to its
\* COMMIT -- whatever failed, and however often the operator retried the job.
THEOREM ReviewsFollowLosses == LoopSpec => ReviewOnlyAfterALoss
<1>1. ASSUME IInv, LoopNext, NEW i \in Items, status[i] \in Live, status'[i] = "review"
      PROVE  \E d \in drafts' : d.item = i /\ <<<<"close", i>>, d.by>> \in lost
  <2>0. TypeInv /\ RunsInv /\ AbsentInv /\ VersionsInv /\ AuthorsInv /\ TrailInv /\ LossInv
    BY <1>1 DEF IInv
  <2>1. PICK w \in Workers : CommitDraft(w) /\ work[w].item = i
    <3>1. status[i] # "absent" /\ status[i] # "review"
      BY <1>1 DEF Live
    <3>2. ~ItemStands(i) /\ ~CloseFixesNow(i) /\ ~CloseFixes(i)
      BY <1>1, <3>1 DEF ItemStands, CloseFixesNow, CloseFixes
    <3>3. PICK w \in Workers : Commits(w) /\ work[w].item = i
      BY <1>1, <2>0, <3>2, ItemsStep
    <3>4. ~CommitPublish(w) /\ ~CommitVerify(w)
      BY <1>1, <2>0, <3>2, <3>3, ItemBecomes
    <3>5. ~CommitDelta(w)
      <4>1. CommitDelta(w) => status'[i] = IF Measurable(status[i]) THEN "measured" ELSE status[i]
        BY <1>1, <2>0, <3>3, ItemBecomes
      <4>. QED
        BY <1>1, <3>1, <4>1
    <3>. QED
      BY <3>3, <3>4, <3>5 DEF Commits
  <2>. DEFINE k == <<"close", i>>
  <2>2. work[w] # NoRun /\ work[w].kind = "close" /\ work[w].phase = "inserted"
    BY <2>1 DEF CommitDraft, Running
  <2>3. jobs[k] # NoJob /\ k \in Keys /\ work[w].run \in 1 .. jobs[k].runs
    BY <2>0, <2>1, <2>2, RunHasJob DEF RunsInv
  <2>4. HasDraft(i)
    BY <1>1, <2>0 DEF TrailInv
  <2>5. PICK d \in drafts : d.item = i
    BY <2>4 DEF HasDraft, Versions
  <2>6. d.by # 0 /\ d.by # work[w].run
    BY <2>0, <2>1, <2>2, <2>3, <2>5 DEF AuthorsInv, TypeInv
\* Only one of two runs can hold the job.
  <2>7. <<k, d.by>> \in lost \/ <<k, work[w].run>> \in lost
    <3>1. KeyOf(w) = k /\ (Holds(w) \/ <<k, work[w].run>> \in lost)
      BY <2>0, <2>1, <2>2 DEF LossInv, HeldOrLost, KeyOf
    <3>2. LastWord(d) \/ <<k, d.by>> \in lost
      BY <2>0, <2>5, <2>6 DEF LossInv, LastOrLost
    <3>3. ~(Holds(w) /\ LastWord(d))
      BY <2>5, <2>6, <3>1 DEF Holds, LastWord
    <3>. QED
      BY <3>1, <3>2, <3>3
  <2>8. PICK e \in drafts' : e.item = i /\ e.by = work[w].run
    BY <2>0, <2>1, CommitAdds
  <2>9. d \in drafts'
    BY <1>1, <2>0, <2>5, DraftsStay
  <2>. QED
    BY <2>5, <2>7, <2>8, <2>9
<1>2. IInv /\ [LoopNext]_loopVars =>
        [\A i \in Items : (status[i] \in Live /\ status'[i] = "review")
           => \E d \in drafts' : d.item = i /\ <<<<"close", i>>, d.by>> \in lost]_loopVars
  BY <1>1
<1>. QED
  BY <1>2, InductiveInvariant, PTL DEF LoopSpec, ReviewOnlyAfterALoss
=============================================================================
