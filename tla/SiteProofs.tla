------------------------------ MODULE SiteProofs ------------------------------
(* Proofs about the audits of a site, its sitemaps, its robots.txt and its    *)
(* opportunity queue, for any registry, pages, answers, prices, lines of a    *)
(* file, findings and decisions.                                              *)
EXTENDS AuditPipeline, Robots, Sitemaps, OpportunityQueue, FiniteSums, TLAPS

-----------------------------------------------------------------------------
(* Sequences, of whatever they hold *)

IsASeq(s) == s \in Seq(Range(s))

\* The empty sequence is one.
LEMMA SequencesBegin ==
  IsASeq(<<>>) /\ Range(<<>>) = {} /\ Len(<<>>) = 0
BY DEF IsASeq, Range

\* One more element makes one.
LEMMA SequencesGrow ==
  ASSUME NEW s, IsASeq(s), NEW e
  PROVE  /\ IsASeq(Append(s, e)) /\ Range(Append(s, e)) = Range(s) \union {e}
         /\ Len(s) \in Nat /\ Len(Append(s, e)) = Len(s) + 1
<1>. DEFINE T == Range(s) \union {e}
<1>1. s \in Seq(T) /\ Len(s) \in Nat /\ DOMAIN s = 1 .. Len(s)
  BY DEF IsASeq
<1>2. /\ Append(s, e) \in Seq(T) /\ Len(Append(s, e)) = Len(s) + 1
      /\ DOMAIN Append(s, e) = 1 .. Len(s) + 1
      /\ \A i \in 1 .. Len(s) : Append(s, e)[i] = s[i]
      /\ Append(s, e)[Len(s) + 1] = e
  BY <1>1
<1>3. Range(Append(s, e)) = T
  BY <1>1, <1>2 DEF Range
<1>. QED
  BY <1>1, <1>2, <1>3 DEF IsASeq

\* One sequence after another.
LEMMA SequencesJoin ==
  ASSUME NEW s, IsASeq(s), NEW t, IsASeq(t)
  PROVE  /\ IsASeq(s \o t) /\ Len(s) \in Nat /\ Len(t) \in Nat
         /\ Len(s \o t) = Len(s) + Len(t) /\ DOMAIN (s \o t) = 1 .. Len(s) + Len(t)
         /\ DOMAIN s = 1 .. Len(s) /\ DOMAIN t = 1 .. Len(t)
         /\ \A i \in 1 .. Len(s) : (s \o t)[i] = s[i]
         /\ \A i \in 1 .. Len(t) : (s \o t)[Len(s) + i] = t[i]
         /\ Range(s \o t) = Range(s) \union Range(t)
<1>. DEFINE T == Range(s) \union Range(t)
<1>1. s \in Seq(T) /\ t \in Seq(T)
  BY DEF IsASeq
<1>2. /\ Len(s) \in Nat /\ Len(t) \in Nat
      /\ DOMAIN s = 1 .. Len(s) /\ DOMAIN t = 1 .. Len(t)
  BY <1>1
<1>3. /\ s \o t \in Seq(T)
      /\ Len(s \o t) = Len(s) + Len(t) /\ DOMAIN (s \o t) = 1 .. Len(s) + Len(t)
      /\ \A i \in 1 .. Len(s) + Len(t) :
           (s \o t)[i] = IF i <= Len(s) THEN s[i] ELSE t[i - Len(s)]
  BY <1>1
<1>4. /\ \A i \in 1 .. Len(s) : (s \o t)[i] = s[i]
      /\ \A i \in 1 .. Len(t) : (s \o t)[Len(s) + i] = t[i]
  BY <1>2, <1>3
<1>5. Range(s \o t) = T
  <2>1. \A x \in Range(s) : x \in Range(s \o t)
    BY <1>2, <1>3, <1>4 DEF Range
  <2>2. \A x \in Range(t) : x \in Range(s \o t)
    <3>. SUFFICES ASSUME NEW i \in 1 .. Len(t)
                  PROVE  t[i] \in Range(s \o t)
      BY <1>2 DEF Range
    <3>1. Len(s) + i \in DOMAIN (s \o t) /\ (s \o t)[Len(s) + i] = t[i]
      BY <1>2, <1>3, <1>4
    <3>. QED
      BY <3>1 DEF Range
  <2>3. \A x \in Range(s \o t) : x \in T
    <3>. SUFFICES ASSUME NEW i \in 1 .. Len(s) + Len(t)
                  PROVE  (s \o t)[i] \in T
      BY <1>3 DEF Range
    <3>1. CASE i <= Len(s)
      <4>1. i \in DOMAIN s
        BY <1>2, <3>1
      <4>. QED
        BY <1>3, <3>1, <4>1 DEF Range
    <3>2. CASE ~(i <= Len(s))
      <4>1. i - Len(s) \in DOMAIN t
        BY <1>2, <3>2
      <4>. QED
        BY <1>3, <3>2, <4>1 DEF Range
    <3>. QED
      BY <3>1, <3>2
  <2>. QED
    BY <2>1, <2>2, <2>3
<1>. QED
  BY <1>2, <1>3, <1>4, <1>5 DEF IsASeq

\* A sequence and one element more.
LEMMA OneMore ==
  ASSUME NEW R, NEW s \in Seq(R), NEW x \in R
  PROVE  /\ Append(s, x) \in Seq(R) /\ Append(s, x) # <<>>
         /\ ToSet(Append(s, x)) = ToSet(s) \union {x}
<1>1. /\ Append(s, x) \in Seq(R) /\ Len(Append(s, x)) = Len(s) + 1 /\ Len(s) \in Nat
      /\ DOMAIN s = 1 .. Len(s) /\ DOMAIN Append(s, x) = 1 .. (Len(s) + 1)
      /\ \A i \in 1 .. Len(s) : Append(s, x)[i] = s[i]
      /\ Append(s, x)[Len(s) + 1] = x
  OBVIOUS
<1>2. 1 .. (Len(s) + 1) = (1 .. Len(s)) \union {Len(s) + 1}
  BY <1>1
<1>. DEFINE c == Append(s, x)
            n == Len(s)
<1>3. ToSet(c) = {c[i] : i \in (1 .. n) \union {n + 1}} /\ ToSet(s) = {s[i] : i \in 1 .. n}
  BY <1>1, <1>2 DEF ToSet
<1>. HIDE DEF c, n
<1>4. ToSet(c) = ToSet(s) \union {x}
  BY <1>1, <1>3 DEF c, n
<1>. QED
  BY <1>1, <1>4 DEF c

\* The elements of a sequence are finitely many.
LEMMA ElementsAreFinite ==
  ASSUME NEW R, NEW s \in Seq(R)
  PROVE  IsFiniteSet(ToSet(s)) /\ ToSet(s) \subseteq R
<1>1. PICK n \in Nat : DOMAIN s = 1 .. n
  OBVIOUS
<1>2. IsFiniteSet(1 .. n)
  BY FS_Interval
<1>3. ToSet(s) = {s[i] : i \in 1 .. n} /\ \A i \in 1 .. n : s[i] \in R
  BY <1>1 DEF ToSet
<1>. QED
  BY <1>2, <1>3, ImagesAreFinite

\* A sequence of sequences, flattened, has the elements of each of them.
LEMMA FlattenIs ==
  ASSUME NEW R, NEW ss, NEW n \in Nat, DOMAIN ss = 1 .. n, ss \in [1 .. n -> Seq(R)]
  PROVE  /\ FlattenSeq(ss) \in Seq(R)
         /\ ToSet(FlattenSeq(ss)) = UNION {ToSet(ss[i]) : i \in 1 .. n}
<1>0. Len(ss) = n
  OBVIOUS
<1>1. CASE n = 0
  <2>1. FlattenSeq(ss) = ss /\ ss = <<>>
    BY <1>0, <1>1 DEF FlattenSeq
  <2>. QED
    BY <1>1, <2>1 DEF ToSet
<1>2. CASE n # 0
  <2>. DEFINE step == [q \in (1 .. n) \X Seq(R) |-> q[2] \o ss[q[1]]]
              Made(f) == f = [i \in 1 .. n |-> IF i = 1 THEN ss[i] ELSE f[i - 1] \o ss[i]]
  <2>1. FlattenSeq(ss) = (CHOOSE f : Made(f))[n]
    BY <1>0, <1>2 DEF FlattenSeq
  <2>2. ASSUME NEW i \in 1 .. n, NEW v \in Seq(R)
        PROVE  step[<<i, v>>] = v \o ss[i] /\ step[<<i, v>>] \in Seq(R)
    <3>1. ss[i] \in Seq(R)
      OBVIOUS
    <3>2. v \o ss[i] \in Seq(R)
      BY <3>1
    <3>3. <<i, v>> \in (1 .. n) \X Seq(R) /\ <<i, v>>[1] = i /\ <<i, v>>[2] = v
      OBVIOUS
    <3>4. step[<<i, v>>] = v \o ss[i]
      BY <3>3
    <3>. QED
      BY <3>2, <3>4
  <2>3. \E f : Made(f)
    <3>1. <<>> \in Seq(R)
      OBVIOUS
    <3>2. PICK f \in [0 .. n -> Seq(R)] :
            f[0] = <<>> /\ \A i \in 1 .. n : f[i] = step[<<i, f[i - 1]>>]
      <4>1. StaysIn(Seq(R), step, 1 .. n)
        BY <2>2 DEF StaysIn
      <4>. HIDE DEF step, Made
      <4>2. PICK f : StepByStep(f, n, Seq(R), <<>>, step)
        BY <3>1, <4>1, StepsExist
      <4>. QED
        BY <4>2 DEF StepByStep
    <3>. DEFINE g == [i \in 1 .. n |-> f[i]]
    <3>3. ASSUME NEW i \in 1 .. n
          PROVE  g[i] = IF i = 1 THEN ss[i] ELSE g[i - 1] \o ss[i]
      <4>1. i - 1 \in 0 .. n /\ f[i - 1] \in Seq(R) /\ ss[i] \in Seq(R)
        BY <3>3
      <4>2. f[i] = f[i - 1] \o ss[i]
        BY <2>2, <3>2, <4>1
      <4>3. CASE i = 1
        <5>1. f[i - 1] = <<>>
          BY <3>2, <4>3
        <5>2. <<>> \o ss[i] = ss[i]
          BY <4>1
        <5>. QED
          BY <4>2, <4>3, <5>1, <5>2
      <4>4. CASE i # 1
        <5>1. i - 1 \in 1 .. n
          BY <3>3, <4>4
        <5>2. g[i - 1] = f[i - 1] /\ g[i] = f[i]
          BY <3>3, <5>1
        <5>. QED
          BY <4>2, <4>4, <5>2
      <4>. QED
        BY <4>3, <4>4
    <3>4. Made(g)
      <4>. HIDE DEF Made
      <4>1. g = [i \in 1 .. n |-> IF i = 1 THEN ss[i] ELSE g[i - 1] \o ss[i]]
        BY <3>3
      <4>. HIDE DEF g
      <4>. QED
        BY <4>1 DEF Made
    <3>. QED
      BY <3>4
  <2>4. PICK f : Made(f) /\ FlattenSeq(ss) = f[n]
    <3>. DEFINE g == CHOOSE f : Made(f)
    <3>1. Made(g)
      BY <2>3
    <3>. QED
      BY <2>1, <3>1
  <2>5. \A i \in 1 .. n : f[i] = IF i = 1 THEN ss[i] ELSE f[i - 1] \o ss[i]
    BY <2>4
  <2>. DEFINE T == {k \in Nat : k = 0 \/ /\ f[k] \in Seq(R)
                                         /\ ToSet(f[k]) = UNION {ToSet(ss[i]) : i \in 1 .. k}}
  <2>6. 0 \in T
    OBVIOUS
  <2>7. ASSUME NEW k \in 0 .. n - 1, k \in T PROVE k + 1 \in T
    <3>1. k + 1 \in 1 .. n /\ ss[k + 1] \in Seq(R)
      BY <2>7
    <3>2. CASE k = 0
      BY <2>5, <3>1, <3>2
    <3>3. CASE k # 0
      <4>0. (k + 1) - 1 = k /\ k + 1 # 1
        BY <3>3
      <4>1. f[k + 1] = f[k] \o ss[k + 1] /\ f[k] \in Seq(R)
        BY <2>5, <2>7, <3>1, <3>3, <4>0
      <4>2. \A a, b \in Seq(R) : a \o b \in Seq(R) /\ ToSet(a \o b) = ToSet(a) \union ToSet(b)
        <5>. SUFFICES ASSUME NEW a \in Seq(R), NEW b \in Seq(R)
                      PROVE  a \o b \in Seq(R) /\ ToSet(a \o b) = ToSet(a) \union ToSet(b)
          OBVIOUS
        <5>1. /\ a \o b \in Seq(R) /\ Len(a \o b) = Len(a) + Len(b)
              /\ \A i \in 1 .. Len(a) : (a \o b)[i] = a[i]
              /\ \A i \in 1 .. Len(b) : (a \o b)[Len(a) + i] = b[i]
              /\ DOMAIN a = 1 .. Len(a) /\ DOMAIN b = 1 .. Len(b)
              /\ DOMAIN (a \o b) = 1 .. (Len(a) + Len(b)) /\ Len(a) \in Nat /\ Len(b) \in Nat
          OBVIOUS
        <5>. DEFINE c == a \o b
        <5>. HIDE DEF c
        <5>2. ASSUME NEW i \in 1 .. (Len(a) + Len(b))
              PROVE  c[i] \in ToSet(a) \union ToSet(b)
          <6>1. CASE i <= Len(a)
            <7>1. i \in 1 .. Len(a)
              BY <5>1, <5>2, <6>1
            <7>. QED
              BY <5>1, <7>1 DEF ToSet, c
          <6>2. CASE ~(i <= Len(a))
            <7>1. i - Len(a) \in 1 .. Len(b) /\ Len(a) + (i - Len(a)) = i
              BY <5>1, <5>2, <6>2
            <7>. QED
              BY <5>1, <7>1 DEF ToSet, c
          <6>. QED
            BY <6>1, <6>2
        <5>3. ASSUME NEW i \in 1 .. Len(a) PROVE a[i] \in ToSet(c)
          <6>1. i \in 1 .. (Len(a) + Len(b))
            BY <5>1, <5>3
          <6>. QED
            BY <5>1, <6>1 DEF ToSet, c
        <5>4. ASSUME NEW i \in 1 .. Len(b) PROVE b[i] \in ToSet(c)
          <6>1. Len(a) + i \in 1 .. (Len(a) + Len(b))
            BY <5>1, <5>4
          <6>. QED
            BY <5>1, <6>1 DEF ToSet, c
        <5>5. ToSet(c) = {c[i] : i \in 1 .. (Len(a) + Len(b))}
          BY <5>1 DEF ToSet, c
        <5>6. ToSet(a) = {a[i] : i \in 1 .. Len(a)} /\ ToSet(b) = {b[i] : i \in 1 .. Len(b)}
          BY <5>1 DEF ToSet
        <5>7. ToSet(c) = ToSet(a) \union ToSet(b)
          BY <5>2, <5>3, <5>4, <5>5, <5>6
        <5>. QED
          BY <5>1, <5>7 DEF c
      <4>3. ToSet(f[k + 1]) = ToSet(f[k]) \union ToSet(ss[k + 1]) /\ f[k + 1] \in Seq(R)
        BY <3>1, <4>1, <4>2
      <4>4. 1 .. k + 1 = (1 .. k) \union {k + 1}
        BY <2>7
      <4>5. UNION {ToSet(ss[i]) : i \in 1 .. k + 1}
              = (UNION {ToSet(ss[i]) : i \in 1 .. k}) \union ToSet(ss[k + 1])
        BY <4>4
      <4>. QED
        BY <2>7, <3>3, <4>3, <4>5
    <3>. QED
      BY <3>2, <3>3
  <2>8. n \in T
    <3>. HIDE DEF T
    <3>1. \A k \in 0 .. n : k \in T
      BY <2>6, <2>7, CountUp
    <3>. QED
      BY <3>1
  <2>. QED
    BY <1>2, <2>4, <2>8
<1>. QED
  BY <1>1, <1>2

-----------------------------------------------------------------------------
(* The opportunity queue *)

QueueTyped ==
  /\ \A k \in DOMAIN queue :
       /\ DOMAIN queue[k] = {"status", "until"}
       /\ queue[k].status \in {"open", "dismissed", "actioned"}
  /\ IsASeq(configured) /\ DOMAIN buying = Buyers

\* A configured competitor, unless it became one behind the queue's back, has
\* its row marked or is on the list of every discovery that is under way.
Marked(d) ==
  IF Candidate(d) \in DOMAIN queue THEN queue[Candidate(d)].status = "actioned"
  ELSE \A w \in Buyers :
         buying[w].job = "discover_competitors" => d \in Range(buying[w].list)

ConfiguredAreMarked == \A d \in Range(configured) \ unseen : Marked(d)

QueueInv == QueueTyped /\ ConfiguredAreMarked

\* An upsert keeps the rows it may not refresh and opens the others it names.
LEMMA UpsertedIs ==
  ASSUME NEW found, queue' = Upserted(found)
  PROVE  /\ \A k \in DOMAIN queue : k \in DOMAIN queue'
         /\ \A k \in DOMAIN queue' :
              \/ k \in DOMAIN queue /\ queue'[k] = queue[k]
              \/ /\ \E f \in found : Key(f) = k
                 /\ k \in DOMAIN queue => MayRefresh(queue[k])
                 /\ DOMAIN queue'[k] = {"status", "until"} /\ queue'[k].status = "open"
<1>. DEFINE reopened == [status |-> "open", until |-> NotSnoozed]
            fresh == {Key(f) : f \in found} \ {k \in DOMAIN queue : ~MayRefresh(queue[k])}
<1>1. queue' = [k \in fresh \union DOMAIN queue |-> IF k \in fresh THEN reopened ELSE queue[k]]
  BY DEF Upserted
<1>2. \A k \in fresh : /\ \E f \in found : Key(f) = k
                       /\ k \in DOMAIN queue => MayRefresh(queue[k])
  OBVIOUS
<1>3. DOMAIN reopened = {"status", "until"} /\ reopened.status = "open"
  OBVIOUS
<1>. HIDE DEF reopened, fresh
<1>. QED
  BY <1>1, <1>2, <1>3

\* What the operator has decided of a row, a step respects.
DecisionsKept ==
  \A k \in DOMAIN queue :
    /\ k \in DOMAIN queue'
    /\ queue[k].status = "actioned" => queue'[k].status = "actioned"
    /\ (queue[k].status = "dismissed" /\ queue'[k].status = "open") => queue[k].until < today

\* An upsert does, and leaves what is marked: it may not refresh it, and a
\* finding of another kind, or of a domain off the list, is not about it.
LEMMA UpsertKeeps ==
  ASSUME QueueInv, NEW found, queue' = Upserted(found), UNCHANGED <<configured, unseen>>,
         DOMAIN buying' = Buyers,
         \A w \in Buyers : buying'[w] = buying[w] \/ buying'[w] = NoPurchase,
         \A d \in Range(configured) \ unseen : Candidate(d) \notin DOMAIN queue =>
            \A f \in found : Key(f) # Candidate(d)
  PROVE  QueueInv' /\ DecisionsKept
<1>0. QueueTyped /\ ConfiguredAreMarked
  BY DEF QueueInv
<1>1. QueueTyped'
  BY <1>0, UpsertedIs DEF QueueTyped
<1>2. \A k \in DOMAIN queue : queue[k].status = "actioned" => ~MayRefresh(queue[k])
  BY DEF MayRefresh
<1>3. DecisionsKept
  <2>. SUFFICES ASSUME NEW k \in DOMAIN queue
                PROVE  /\ k \in DOMAIN queue'
                       /\ queue[k].status = "actioned" => queue'[k].status = "actioned"
                       /\ (queue[k].status = "dismissed" /\ queue'[k].status = "open")
                            => queue[k].until < today
    BY DEF DecisionsKept
  <2>1. k \in DOMAIN queue' /\ (queue'[k] = queue[k] \/ MayRefresh(queue[k]))
    BY UpsertedIs
  <2>. QED
    BY <1>2, <2>1 DEF MayRefresh
<1>4. ASSUME NEW d \in Range(configured) \ unseen
      PROVE  Marked(d)'
  <2>1. Marked(d)
    BY <1>0 DEF ConfiguredAreMarked
  <2>2. CASE Candidate(d) \in DOMAIN queue
    <3>1. queue[Candidate(d)].status = "actioned"
      BY <2>1, <2>2 DEF Marked
    <3>2. Candidate(d) \in DOMAIN queue' /\ queue'[Candidate(d)].status = "actioned"
      BY <1>3, <2>2, <3>1 DEF DecisionsKept
    <3>. QED
      BY <3>2 DEF Marked, Candidate
  <2>3. CASE Candidate(d) \notin DOMAIN queue
    <3>1. Candidate(d) \notin DOMAIN queue'
      BY <2>3, UpsertedIs
    <3>2. \A w \in Buyers : buying'[w].job = "discover_competitors" => d \in Range(buying'[w].list)
      BY <2>1, <2>3 DEF Marked, NoPurchase
    <3>. QED
      BY <3>1, <3>2 DEF Marked, Candidate
  <2>. QED
    BY <2>2, <2>3
<1>5. ConfiguredAreMarked'
  BY <1>4 DEF ConfiguredAreMarked
<1>. QED
  BY <1>1, <1>3, <1>5 DEF QueueInv

\* The kinds of the findings.
LEMMA FindingsAre ==
  /\ \A sight : \A f \in ComputeQueue(sight, NoClicks) : f.kind # "competitor_candidate"
  /\ \A list, ranked : \A f \in KeywordGap(list, ranked, Present, 10, 10) : f.kind # "competitor_candidate"
  /\ \A shown, list, limit : \A f \in Candidates(shown, list, ClientHosts, Denied, limit) :
       \E d : d \notin list /\ Key(f) = Candidate(d)
<1>1. ASSUME NEW sight, NEW f \in ComputeQueue(sight, NoClicks)
      PROVE  f.kind # "competitor_candidate"
  <2>. DEFINE shown == LoadRows28d(sight)
  <2>1. \/ f \in StrikingDistance(shown) \/ f \in CtrOutlier(shown)
        \/ f \in Decay(sight.pages, NoClicks) \/ f \in Cannibalization(shown)
        \/ f \in DetectLocalPresence(sight.local)
    BY <1>1 DEF ComputeQueue
  <2>. HIDE DEF shown
  <2>2. CASE f \in StrikingDistance(shown)
    BY <2>2 DEF StrikingDistance
  <2>3. CASE f \in CtrOutlier(shown)
    BY <2>3 DEF CtrOutlier
  <2>4. CASE f \in Decay(sight.pages, NoClicks)
    BY <2>4 DEF Decay
  <2>5. CASE f \in Cannibalization(shown)
    BY <2>5 DEF Cannibalization
  <2>6. CASE f \in DetectLocalPresence(sight.local)
    BY <2>6 DEF DetectLocalPresence
  <2>. QED
    BY <2>1, <2>2, <2>3, <2>4, <2>5, <2>6
<1>2. ASSUME NEW list, NEW ranked, NEW f \in KeywordGap(list, ranked, Present, 10, 10)
      PROVE  f.kind # "competitor_candidate"
  BY <1>2 DEF KeywordGap
<1>3. ASSUME NEW shown, NEW list, NEW limit, NEW f \in Candidates(shown, list, ClientHosts, Denied, limit)
      PROVE  \E d : d \notin list /\ Key(f) = Candidate(d)
  <2>1. PICK r \in FilterCandidates(shown, list, ClientHosts, Denied) :
          f = [kind |-> "competitor_candidate", target |-> <<r.domain>>]
    BY <1>3 DEF Candidates
  <2>2. r.domain \notin list
    BY <2>1 DEF FilterCandidates
  <2>3. Key(f) = Candidate(r.domain)
    BY <2>1 DEF Key, Candidate
  <2>. QED
    BY <2>2, <2>3
<1>. QED
  BY <1>1, <1>2, <1>3

\* Every step keeps the invariant and what has been decided.
LEMMA QueueStep ==
  ASSUME QueueInv, QueueNext
  PROVE  QueueInv' /\ DecisionsKept
<1>0. QueueTyped /\ ConfiguredAreMarked
  BY DEF QueueInv
<1>a. \A f, d : f.kind # "competitor_candidate" => Key(f) # Candidate(d)
  BY DEF Key, Candidate
<1>b. \A c, d : Candidate(c) = Candidate(d) => c = d
  BY DEF Candidate
\* The row of a domain gets a status; others stay.
<1>1. CASE ComputeQueueJob
  <2>1. PICK sight \in Sights : queue' = Upserted(ComputeQueue(sight, NoClicks))
    BY <1>1 DEF ComputeQueueJob
  <2>2. \A d : \A f \in ComputeQueue(sight, NoClicks) : Key(f) # Candidate(d)
    BY <1>a, FindingsAre
  <2>3. UNCHANGED <<configured, unseen, buying>>
    BY <1>1 DEF ComputeQueueJob
  <2>. DEFINE found == ComputeQueue(sight, NoClicks)
  <2>4. queue' = Upserted(found) /\ \A d : \A f \in found : Key(f) # Candidate(d)
    BY <2>1, <2>2
  <2>. HIDE DEF found
  <2>. QED
    BY <1>0, <2>3, <2>4, UpsertKeeps DEF QueueTyped
<1>2. ASSUME NEW w \in Buyers, FinishKeywordGap(w)
      PROVE  QueueInv' /\ DecisionsKept
  <2>1. PICK ranked \in SUBSET Keywords :
          queue' = Upserted(KeywordGap(buying[w].list, ranked, Present, 10, 10))
    BY <1>2 DEF FinishKeywordGap
  <2>. DEFINE found == KeywordGap(buying[w].list, ranked, Present, 10, 10)
  <2>2. queue' = Upserted(found)
    BY <2>1
  <2>3. \A f \in found : f.kind # "competitor_candidate"
    BY FindingsAre
  <2>4. UNCHANGED <<configured, unseen>> /\ buying' = [buying EXCEPT ![w] = NoPurchase]
    BY <1>2 DEF FinishKeywordGap, Done
  <2>. HIDE DEF found
  <2>5. /\ DOMAIN buying' = Buyers
        /\ \A v \in Buyers : buying'[v] = buying[v] \/ buying'[v] = NoPurchase
    BY <1>0, <2>4 DEF QueueTyped
  <2>. QED
    BY <1>a, <2>2, <2>3, <2>4, <2>5, UpsertKeeps
<1>3. ASSUME NEW w \in Buyers, FinishDiscovery(w)
      PROVE  QueueInv' /\ DecisionsKept
  <2>1. PICK shown \in SUBSET Ranking :
          queue' = Upserted(Candidates(shown, Range(buying[w].list), ClientHosts, Denied,
                                       buying[w].limit))
    BY <1>3 DEF FinishDiscovery
  <2>. DEFINE list == Range(buying[w].list)
              found == Candidates(shown, list, ClientHosts, Denied, buying[w].limit)
  <2>2. queue' = Upserted(found)
    BY <2>1
  <2>3. \A f \in found : \E d : d \notin list /\ Key(f) = Candidate(d)
    BY FindingsAre
  <2>. HIDE DEF found
  <2>4. \A d \in Range(configured) \ unseen : Candidate(d) \notin DOMAIN queue =>
          \A f \in found : Key(f) # Candidate(d)
    <3>1. buying[w].job = "discover_competitors"
      BY <1>3 DEF FinishDiscovery
    <3>2. \A d \in Range(configured) \ unseen : Candidate(d) \notin DOMAIN queue => d \in list
      BY <1>0, <3>1 DEF ConfiguredAreMarked, Marked
    <3>. HIDE DEF list
    <3>. QED
      BY <1>b, <2>3, <3>2
  <2>5. UNCHANGED <<configured, unseen>> /\ buying' = [buying EXCEPT ![w] = NoPurchase]
    BY <1>3 DEF FinishDiscovery, Done
  <2>6. /\ DOMAIN buying' = Buyers
        /\ \A v \in Buyers : buying'[v] = buying[v] \/ buying'[v] = NoPurchase
    BY <1>0, <2>5 DEF QueueTyped
  <2>. QED
    BY <2>2, <2>4, <2>5, <2>6, UpsertKeeps
\* A purchase begins with the list as it is, or ends.
<1>4. ASSUME NEW w \in Buyers, NEW r, buying' = [buying EXCEPT ![w] = r],
             r.job = "discover_competitors" => r.list = configured,
             UNCHANGED <<queue, configured, unseen>>
      PROVE  QueueInv' /\ DecisionsKept
  <2>1. DecisionsKept
    BY <1>0, <1>4 DEF DecisionsKept, QueueTyped
  <2>2. QueueTyped'
    BY <1>0, <1>4 DEF QueueTyped
  <2>3. ASSUME NEW d \in Range(configured) \ unseen
        PROVE  Marked(d)'
    <3>1. Marked(d)
      BY <1>0 DEF ConfiguredAreMarked
    <3>2. \A v \in Buyers : buying'[v] = IF v = w THEN r ELSE buying[v]
      BY <1>0, <1>4 DEF QueueTyped
    <3>. QED
      BY <1>4, <3>1, <3>2 DEF Marked, Candidate
  <2>. QED
    BY <1>4, <2>1, <2>2, <2>3 DEF QueueInv, ConfiguredAreMarked
<1>5. ASSUME NEW w \in Buyers, StartKeywordGap(w) \/ (\E limit \in Limits : StartDiscovery(w, limit))
               \/ PurchaseFails(w)
      PROVE  QueueInv' /\ DecisionsKept
  <2>1. \E r : /\ buying' = [buying EXCEPT ![w] = r]
               /\ r.job = "discover_competitors" => r.list = configured
    BY <1>5 DEF StartKeywordGap, StartDiscovery, Buy, PurchaseFails, Done, NoPurchase
  <2>2. UNCHANGED <<queue, configured, unseen>>
    BY <1>5 DEF StartKeywordGap, StartDiscovery, Buy, PurchaseFails
  <2>. QED
    BY <1>4, <2>1, <2>2
<1>6. ASSUME NEW d \in Domains, Confirm(d)
      PROVE  QueueInv' /\ DecisionsKept
  <2>. DEFINE k == Candidate(d)
  <2>1. UNCHANGED buying /\ queue' = ConfirmedQueue(d)
    BY <1>6 DEF Confirm
  <2>2. IsASeq(configured') /\ Range(configured') = Range(configured) \union {d}
    BY <1>0, <1>6, SequencesGrow DEF Confirm, QueueTyped
  <2>3. /\ DOMAIN queue' = DOMAIN queue
        /\ \A c \in DOMAIN queue :
             /\ DOMAIN queue'[c] = {"status", "until"}
             /\ queue'[c] = queue[c] \/ queue'[c].status = "actioned"
        /\ k \in DOMAIN queue => queue'[k].status = "actioned"
    <3>1. CASE Decidable(d)
      <4>1. /\ k \in DOMAIN queue
            /\ queue' = [queue EXCEPT ![k] =
                 [queue[k] EXCEPT !.status = "actioned", !.until = NotSnoozed]]
        BY <2>1, <3>1 DEF ConfirmedQueue, Decidable
      <4>2. DOMAIN queue[k] = {"status", "until"}
        BY <1>0, <4>1 DEF QueueTyped
      <4>. HIDE DEF k
      <4>3. queue'[k] = [queue[k] EXCEPT !.status = "actioned", !.until = NotSnoozed]
        BY <4>1
      <4>4. DOMAIN queue'[k] = {"status", "until"} /\ queue'[k].status = "actioned"
        BY <4>2, <4>3
      <4>5. \A c \in DOMAIN queue \ {k} : queue'[c] = queue[c]
        BY <4>1
      <4>. QED
        BY <1>0, <4>1, <4>4, <4>5 DEF QueueTyped
    <3>2. CASE ~Decidable(d)
      BY <1>0, <2>1, <3>2 DEF ConfirmedQueue, Decidable, QueueTyped
    <3>. QED
      BY <3>1, <3>2
  <2>4. DecisionsKept
    BY <1>0, <2>3 DEF DecisionsKept, QueueTyped
  <2>5. QueueTyped'
    BY <1>0, <2>1, <2>2, <2>3 DEF QueueTyped
  <2>6. ASSUME NEW c \in Range(configured') \ unseen'
        PROVE  Marked(c)'
    <3>0. unseen \subseteq unseen'
      BY <1>6 DEF Confirm
    <3>1. CASE c # d
      <4>1. Marked(c)
        BY <1>0, <2>2, <2>6, <3>0, <3>1 DEF ConfiguredAreMarked
      <4>2. CASE Candidate(c) \in DOMAIN queue
        BY <2>3, <4>1, <4>2 DEF Marked, Candidate
      <4>3. CASE Candidate(c) \notin DOMAIN queue
        BY <2>1, <2>3, <4>1, <4>3 DEF Marked, Candidate
      <4>. QED
        BY <4>2, <4>3
    <3>2. CASE c = d /\ k \in DOMAIN queue
      BY <2>3, <3>2 DEF Marked, Candidate
    <3>3. CASE c = d /\ k \notin DOMAIN queue
      <4>1. d \notin unseen'
        BY <2>6, <3>3
      <4>2. \A w \in Buyers : buying[w].job = "discover_competitors" => d \in Range(buying[w].list)
        BY <1>6, <3>3, <4>1 DEF Confirm
      <4>. QED
        BY <2>1, <2>3, <3>3, <4>2 DEF Marked, Candidate
    <3>. QED
      BY <3>1, <3>2, <3>3
  <2>. QED
    BY <2>4, <2>5, <2>6 DEF QueueInv, ConfiguredAreMarked
<1>7. ASSUME NEW d \in Domains, Dismiss(d)
      PROVE  QueueInv' /\ DecisionsKept
  <2>. DEFINE k == Candidate(d)
  <2>1. /\ k \in DOMAIN queue /\ queue[k].status \in {"open", "dismissed"}
        /\ queue' = [queue EXCEPT ![k] =
             [queue[k] EXCEPT !.status = "dismissed", !.until = today + SnoozeDays]]
        /\ UNCHANGED <<configured, buying, unseen>>
    BY <1>7 DEF Dismiss, Decidable
  <2>2. DOMAIN queue[k] = {"status", "until"}
    BY <1>0, <2>1 DEF QueueTyped
  <2>. HIDE DEF k
  <2>3. queue'[k] = [queue[k] EXCEPT !.status = "dismissed", !.until = today + SnoozeDays]
    BY <2>1
  <2>4. DOMAIN queue'[k] = {"status", "until"} /\ queue'[k].status = "dismissed"
    BY <2>2, <2>3
  <2>5. DOMAIN queue' = DOMAIN queue /\ \A c \in DOMAIN queue \ {k} : queue'[c] = queue[c]
    BY <2>1
  <2>6. DecisionsKept
    BY <1>0, <2>1, <2>4, <2>5 DEF DecisionsKept, QueueTyped
  <2>7. QueueTyped'
    BY <1>0, <2>1, <2>4, <2>5 DEF QueueTyped
  <2>8. ASSUME NEW c \in Range(configured) \ unseen
        PROVE  Marked(c)'
    <3>1. Marked(c)
      BY <1>0 DEF ConfiguredAreMarked
    <3>2. CASE Candidate(c) \in DOMAIN queue
      <4>1. Candidate(c) # k
        BY <2>1, <3>1, <3>2 DEF Marked
      <4>. QED
        BY <2>5, <3>1, <3>2, <4>1 DEF Marked, Candidate
    <3>3. CASE Candidate(c) \notin DOMAIN queue
      BY <2>1, <2>5, <3>1, <3>3 DEF Marked, Candidate
    <3>. QED
      BY <3>2, <3>3
  <2>. QED
    BY <2>1, <2>6, <2>7, <2>8 DEF QueueInv, ConfiguredAreMarked
<1>8. ASSUME NEW list \in Lists, SetCompetitors(list)
      PROVE  QueueInv' /\ DecisionsKept
  <2>1. /\ configured' = list /\ unseen' = unseen \union (Range(list) \ Range(configured))
        /\ UNCHANGED <<queue, buying>>
    BY <1>8 DEF SetCompetitors
  <2>2. IsASeq(list)
    BY QueueAssumption DEF IsASeq
  <2>3. Range(configured') \ unseen' \subseteq Range(configured) \ unseen
    BY <2>1
  <2>4. ASSUME NEW d, Marked(d)
        PROVE  Marked(d)'
    BY <2>1, <2>4 DEF Marked, Candidate
  <2>5. ConfiguredAreMarked'
    BY <1>0, <2>3, <2>4 DEF ConfiguredAreMarked
  <2>. QED
    BY <1>0, <2>1, <2>2, <2>5 DEF QueueInv, QueueTyped, DecisionsKept
<1>9. CASE NextDay
  <2>1. UNCHANGED <<queue, configured, buying, unseen>>
    BY <1>9 DEF NextDay
  <2>. QED
    BY <1>0, <2>1 DEF QueueInv, QueueTyped, ConfiguredAreMarked, Marked, Candidate, DecisionsKept
<1>. QED
  BY <1>1, <1>2, <1>3, <1>5, <1>6, <1>7, <1>8, <1>9 DEF QueueNext

\* Decisions of the operator and configured competitors: an invariant.
THEOREM QueueInvariant == QueueSpec => []QueueInv
<1>1. QueueInit => QueueInv
  <2>. SUFFICES ASSUME QueueInit PROVE QueueInv
    OBVIOUS
  <2>1. DOMAIN queue = {} /\ configured \in Lists /\ buying = [w \in Buyers |-> NoPurchase]
    BY DEF QueueInit
  <2>2. IsASeq(configured)
    BY <2>1, QueueAssumption DEF IsASeq
  <2>. QED
    BY <2>1, <2>2 DEF QueueInv, QueueTyped, ConfiguredAreMarked, Marked, NoPurchase
<1>2. QueueInv /\ UNCHANGED queueVars => QueueInv'
  BY DEF queueVars, QueueInv, QueueTyped, ConfiguredAreMarked, Marked, Candidate
<1>3. QueueInv /\ [QueueNext]_queueVars => QueueInv'
  BY <1>2, QueueStep
<1>. QED
  BY <1>1, <1>3, PTL DEF QueueSpec

\* No job undoes what the operator has decided, and no confirmed competitor is
\* queued as a candidate unless it became one behind the queue's back.
THEOREM DecisionsStand == QueueSpec => OperatorDecisionsStand
<1>. DEFINE Stands ==
       /\ \A k \in DOMAIN queue :
            /\ k \in DOMAIN queue'
            /\ queue[k].status = "actioned" => queue'[k].status = "actioned"
            /\ (queue[k].status = "dismissed" /\ queue'[k].status = "open")
                 => queue[k].until < today
       /\ \A d \in Range(configured') \ unseen' :
            Candidate(d) \in DOMAIN queue' => queue'[Candidate(d)].status # "open"
<1>1. ASSUME QueueInv, QueueNext
      PROVE  Stands
  <2>1. QueueInv' /\ DecisionsKept
    BY <1>1, QueueStep
  <2>2. \A d \in Range(configured') \ unseen' :
          Candidate(d) \in DOMAIN queue' => queue'[Candidate(d)].status # "open"
    BY <2>1 DEF QueueInv, ConfiguredAreMarked, Marked, Candidate
  <2>. QED
    BY <2>1, <2>2 DEF DecisionsKept
<1>2. QueueInv /\ [QueueNext]_queueVars => [Stands]_queueVars
  BY <1>1
<1>. QED
  BY <1>2, QueueInvariant, PTL DEF QueueSpec, OperatorDecisionsStand

-----------------------------------------------------------------------------
(* Scores *)

\* The quotient of two numbers.
LEMMA DivisionIs ==
  ASSUME NEW a \in Nat, NEW b \in Nat \ {0}
  PROVE  a \div b \in Nat /\ b * (a \div b) <= a /\ a < b * (a \div b) + b
OBVIOUS

\* At most a thousand to one is rounded to a thousand at most, and exactly that
\* to a thousand.
LEMMA RoundedWithin ==
  \A n \in Nat, d \in Nat : n <= 1000 * d /\ d # 0 =>
    /\ Rounded(n, d) \in Nat /\ Rounded(n, d) <= 1000
    /\ n = 1000 * d => Rounded(n, d) = 1000
    /\ n = 0 => Rounded(n, d) = 0
<1>. SUFFICES ASSUME NEW n \in Nat, NEW d \in Nat, n <= 1000 * d, d # 0
              PROVE  /\ Rounded(n, d) \in Nat /\ Rounded(n, d) <= 1000
                     /\ n = 1000 * d => Rounded(n, d) = 1000
                     /\ n = 0 => Rounded(n, d) = 0
  OBVIOUS
<1>. DEFINE q == Rounded(n, d)
<1>1. 2 * n + d \in Nat /\ 2 * d \in Nat \ {0}
  OBVIOUS
<1>2. q \in Nat /\ (2 * d) * q <= 2 * n + d /\ 2 * n + d < (2 * d) * q + 2 * d
  BY <1>1, DivisionIs DEF Rounded
<1>. HIDE DEF q
<1>3. (2 * d) * q <= 2001 * d
  BY <1>2
<1>4. q >= 1001 => (2 * d) * q >= 2002 * d
  BY <1>2
<1>5. q <= 999 => (2 * d) * q + 2 * d <= 2000 * d
  BY <1>2
<1>6. q >= 1 => (2 * d) * q >= 2 * d
  BY <1>2
<1>7. q <= 1000
  BY <1>2, <1>3, <1>4
<1>8. n = 1000 * d => q = 1000
  BY <1>2, <1>5, <1>7
<1>9. n = 0 => q = 0
  BY <1>2, <1>6
<1>. QED
  BY <1>2, <1>7, <1>8, <1>9 DEF q

\* What is no less is not rounded to less.
LEMMA RoundedRises ==
  ASSUME NEW n \in Nat, NEW d \in Nat \ {0}, NEW m \in Nat, NEW e \in Nat \ {0}, n * e <= m * d
  PROVE  Rounded(n, d) <= Rounded(m, e)
<1>. DEFINE q == Rounded(n, d)
            r == Rounded(m, e)
<1>1. /\ 2 * n + d \in Nat /\ 2 * d \in Nat \ {0}
      /\ 2 * m + e \in Nat /\ 2 * e \in Nat \ {0}
  OBVIOUS
<1>2. q \in Nat /\ (2 * d) * q <= 2 * n + d
  BY <1>1, DivisionIs DEF Rounded
<1>3. r \in Nat /\ 2 * m + e < (2 * e) * r + 2 * e
  BY <1>1, DivisionIs DEF Rounded
<1>. HIDE DEF q, r
<1>4. \A x, y, k \in Nat : x <= y => k * x <= k * y
  OBVIOUS
<1>5. e * ((2 * d) * q) <= e * (2 * n + d)
  <2>1. (2 * d) * q \in Nat /\ 2 * n + d \in Nat /\ e \in Nat
    BY <1>2
  <2>. QED
    BY <1>2, <1>4, <2>1
<1>6. e * (2 * n + d) <= d * (2 * m + e)
  <2>1. e * (2 * n + d) = 2 * (n * e) + e * d /\ d * (2 * m + e) = 2 * (m * d) + e * d
    OBVIOUS
  <2>2. n * e \in Nat /\ m * d \in Nat /\ e * d \in Nat
    OBVIOUS
  <2>. QED
    BY <2>1, <2>2
<1>7. d * (2 * m + e) < d * ((2 * e) * r + 2 * e)
  <2>1. \A x, y \in Nat : x < y => d * x < d * y
    OBVIOUS
  <2>2. 2 * m + e \in Nat /\ (2 * e) * r + 2 * e \in Nat
    BY <1>3
  <2>. QED
    BY <1>3, <2>1, <2>2
<1>8. e * ((2 * d) * q) = (2 * (d * e)) * q /\ d * ((2 * e) * r + 2 * e) = (2 * (d * e)) * (r + 1)
  BY <1>2, <1>3
<1>9. (2 * (d * e)) * q < (2 * (d * e)) * (r + 1)
  <2>1. /\ e * ((2 * d) * q) \in Nat /\ e * (2 * n + d) \in Nat /\ d * (2 * m + e) \in Nat
        /\ d * ((2 * e) * r + 2 * e) \in Nat
    BY <1>2, <1>3
  <2>. QED
    BY <1>5, <1>6, <1>7, <1>8, <2>1
<1>10. \A k, x, y \in Nat : k * x < k * y => x < y
  OBVIOUS
<1>11. 2 * (d * e) \in Nat /\ r + 1 \in Nat
  BY <1>3
<1>12. q < r + 1
  BY <1>2, <1>9, <1>10, <1>11
<1>. QED
  BY <1>2, <1>3, <1>12 DEF q, r

\* The sums of a section and of the sections are totals.
LEMMA PointsAre ==
  ASSUME NEW found, NEW S, IsFiniteSet(S)
  PROVE  PointsOf(found, S) = MarksOf([c \in S |-> StatusPoints[found[c].status]], Weight, S)
<1>. DEFINE m == [c \in S |-> StatusPoints[found[c].status]]
            w == [c \in S |-> m[c] * Weight[c]]
            Body(f) == [s \in SUBSET S |->
                          IF s = {} THEN 0
                          ELSE LET x == CHOOSE x \in s : TRUE
                               IN  StatusPoints[found[x].status] * Weight[x] + f[s \ {x}]]
            Made(f) == f = Body(f)
<1>1. \A s \in SUBSET S : s # {} => Pick(s) \in S
  BY DEF Pick
<1>2. ASSUME NEW f PROVE Adds(f, w, S) <=> Made(f)
  <2>1. Body(f) = [s \in SUBSET S |-> IF s = {} THEN 0 ELSE w[Pick(s)] + f[Rest(s)]]
    BY <1>1 DEF Pick, Rest
  <2>. QED
    BY <2>1 DEF Adds
<1>3. PointsOf(found, S) = (CHOOSE f : Made(f))[S]
  BY DEF PointsOf, MapThenSumSet, MapThenFoldSet
<1>4. MarksOf(m, Weight, S) = TotalOf(w, S)
  BY DEF MarksOf
<1>. HIDE DEF Made, w
<1>5. \E f : Made(f)
  BY <1>2, SumExists
<1>6. Made(CHOOSE f : Made(f))
  BY <1>5
<1>. QED
  BY <1>2, <1>3, <1>4, <1>6, TotalIs

\* Likewise the weights of a section.
LEMMA WeightsAre ==
  ASSUME NEW S, IsFiniteSet(S)
  PROVE  WeightsOf(S) = Pool(Weight, S)
<1>. DEFINE w == [c \in S |-> Weight[c]]
            Body(f) == [s \in SUBSET S |->
                          IF s = {} THEN 0
                          ELSE LET x == CHOOSE x \in s : TRUE IN Weight[x] + f[s \ {x}]]
            Made(f) == f = Body(f)
<1>1. \A s \in SUBSET S : s # {} => Pick(s) \in S
  BY DEF Pick
<1>2. ASSUME NEW f PROVE Adds(f, w, S) <=> Made(f)
  <2>1. Body(f) = [s \in SUBSET S |-> IF s = {} THEN 0 ELSE w[Pick(s)] + f[Rest(s)]]
    BY <1>1 DEF Pick, Rest
  <2>. QED
    BY <2>1 DEF Adds
<1>3. WeightsOf(S) = (CHOOSE f : Made(f))[S]
  BY DEF WeightsOf, MapThenSumSet, MapThenFoldSet
<1>4. Pool(Weight, S) = TotalOf(w, S)
  BY DEF Pool
<1>. HIDE DEF Made, w
<1>5. \E f : Made(f)
  BY <1>2, SumExists
<1>6. Made(CHOOSE f : Made(f))
  BY <1>5
<1>. QED
  BY <1>2, <1>3, <1>4, <1>6, TotalIs

\* Likewise the sections of the page score.
LEMMA SectionPointsAre ==
  ASSUME NEW scores, NEW S, IsFiniteSet(S)
  PROVE  SectionPoints(scores, S) = MarksOf(scores, PcrWeights, S)
<1>. DEFINE w == [l \in S |-> scores[l] * PcrWeights[l]]
            Body(f) == [s \in SUBSET S |->
                          IF s = {} THEN 0
                          ELSE LET x == CHOOSE x \in s : TRUE
                               IN  scores[x] * PcrWeights[x] + f[s \ {x}]]
            Made(f) == f = Body(f)
<1>1. \A s \in SUBSET S : s # {} => Pick(s) \in S
  BY DEF Pick
<1>2. ASSUME NEW f PROVE Adds(f, w, S) <=> Made(f)
  <2>1. Body(f) = [s \in SUBSET S |-> IF s = {} THEN 0 ELSE w[Pick(s)] + f[Rest(s)]]
    BY <1>1 DEF Pick, Rest
  <2>. QED
    BY <2>1 DEF Adds
<1>3. SectionPoints(scores, S) = (CHOOSE f : Made(f))[S]
  BY DEF SectionPoints, MapThenSumSet, MapThenFoldSet
<1>4. MarksOf(scores, PcrWeights, S) = TotalOf(w, S)
  BY DEF MarksOf
<1>. HIDE DEF Made, w
<1>5. \E f : Made(f)
  BY <1>2, SumExists
<1>6. Made(CHOOSE f : Made(f))
  BY <1>5
<1>. QED
  BY <1>2, <1>3, <1>4, <1>6, TotalIs

\* And the weights of the sections.
LEMMA SectionWeightsAre ==
  ASSUME NEW S, IsFiniteSet(S)
  PROVE  SectionWeights(S) = Pool(PcrWeights, S)
<1>. DEFINE w == [l \in S |-> PcrWeights[l]]
            Body(f) == [s \in SUBSET S |->
                          IF s = {} THEN 0
                          ELSE LET x == CHOOSE x \in s : TRUE IN PcrWeights[x] + f[s \ {x}]]
            Made(f) == f = Body(f)
<1>1. \A s \in SUBSET S : s # {} => Pick(s) \in S
  BY DEF Pick
<1>2. ASSUME NEW f PROVE Adds(f, w, S) <=> Made(f)
  <2>1. Body(f) = [s \in SUBSET S |-> IF s = {} THEN 0 ELSE w[Pick(s)] + f[Rest(s)]]
    BY <1>1 DEF Pick, Rest
  <2>. QED
    BY <2>1 DEF Adds
<1>3. SectionWeights(S) = (CHOOSE f : Made(f))[S]
  BY DEF SectionWeights, MapThenSumSet, MapThenFoldSet
<1>4. Pool(PcrWeights, S) = TotalOf(w, S)
  BY DEF Pool
<1>. HIDE DEF Made, w
<1>5. \E f : Made(f)
  BY <1>2, SumExists
<1>6. Made(CHOOSE f : Made(f))
  BY <1>5
<1>. QED
  BY <1>2, <1>3, <1>4, <1>6, TotalIs

\* Findings of the registry, with statuses of the enum.
Typed(found) ==
  DOMAIN found \subseteq Checks /\ \A c \in DOMAIN found : found[c].status \in Statuses

SectionChecks(found, l) == {c \in DOMAIN found : Letter[c] = l /\ found[c].status \in Judged}
SectionMarks(found, l)  == [c \in SectionChecks(found, l) |-> StatusPoints[found[c].status]]

\* A section has a score when something in it is judged: the mean of its marks.
LEMMA SectionIs ==
  ASSUME NEW found, Typed(found), NEW l
  PROVE  /\ Marks(SectionMarks(found, l), Weight, SectionChecks(found, l), Checks, 2)
         /\ SectionScore(found, l) =
              IF SectionChecks(found, l) = {} THEN NoScore
              ELSE Rounded(MarksOf(SectionMarks(found, l), Weight, SectionChecks(found, l)) * 1000,
                           2 * Pool(Weight, SectionChecks(found, l)))
<1>1. SectionChecks(found, l) \in SUBSET Checks /\ IsFiniteSet(Checks)
  BY RegistryAssumption DEF SectionChecks, Typed
<1>2. IsFiniteSet(SectionChecks(found, l))
  BY <1>1, FS_Subset
<1>3. \A c \in SectionChecks(found, l) : SectionMarks(found, l)[c] \in 0 .. 2
  BY DEF SectionChecks, SectionMarks, Judged, StatusPoints
<1>4. \A c \in Checks : Weight[c] \in Nat \ {0}
  BY RegistryAssumption
<1>5. Marks(SectionMarks(found, l), Weight, SectionChecks(found, l), Checks, 2)
  BY <1>1, <1>3, <1>4 DEF Marks
<1>. DEFINE S == SectionChecks(found, l)
<1>6. SectionScore(found, l) = IF S = {} THEN NoScore
                               ELSE Rounded(PointsOf(found, S) * 1000, 2 * WeightsOf(S))
  BY DEF SectionScore, SectionChecks
<1>7. /\ PointsOf(found, S) = MarksOf(SectionMarks(found, l), Weight, S)
      /\ WeightsOf(S) = Pool(Weight, S)
  BY <1>2, PointsAre, WeightsAre DEF SectionMarks
<1>. QED
  BY <1>5, <1>6, <1>7

\* No check that is judged in both has fewer points; what is judged only later
\* passes, and what was judged only before had failed.
NoWorse(before, after) ==
  LET judged(found) == {c \in DOMAIN found : found[c].status \in Judged}
  IN  /\ \A c \in judged(before) \intersect judged(after) :
           StatusPoints[before[c].status] <= StatusPoints[after[c].status]
      /\ \A c \in judged(after) \ judged(before) : after[c].status = "pass"
      /\ \A c \in judged(before) \ judged(after) : before[c].status = "fail"

\* A score, in tenths of a point.
Within(score) == score \in Nat /\ score <= 1000

\* Scores that do not fall, a missing one counted as full later and as none
\* before.
Risen(before, after) ==
  /\ before = NoScore \/ Within(before)
  /\ after = NoScore \/ Within(after)
  /\ before # NoScore /\ after # NoScore => before <= after
  /\ before = NoScore /\ after # NoScore => after = 1000
  /\ before # NoScore /\ after = NoScore => before = 0

\* The score of a section does not fall.
LEMMA SectionsRise ==
  ASSUME NEW before, Typed(before), NEW after, Typed(after), NoWorse(before, after), NEW l
  PROVE  Risen(SectionScore(before, l), SectionScore(after, l))
<1>. DEFINE J == SectionChecks(before, l)
            m == SectionMarks(before, l)
            H == SectionChecks(after, l)
            n == SectionMarks(after, l)
<1>1. /\ Marks(m, Weight, J, Checks, 2)
      /\ SectionScore(before, l) = IF J = {} THEN NoScore
                                   ELSE Rounded(MarksOf(m, Weight, J) * 1000, 2 * Pool(Weight, J))
  BY SectionIs
<1>2. /\ Marks(n, Weight, H, Checks, 2)
      /\ SectionScore(after, l) = IF H = {} THEN NoScore
                                  ELSE Rounded(MarksOf(n, Weight, H) * 1000, 2 * Pool(Weight, H))
  BY SectionIs
<1>3. /\ \A c \in J \intersect H : m[c] <= n[c]
      /\ \A c \in H \ J : n[c] = 2
      /\ \A c \in J \ H : m[c] = 0
  <2>1. StatusPoints["pass"] = 2 /\ StatusPoints["fail"] = 0
    BY DEF StatusPoints
  <2>. QED
    BY <2>1 DEF NoWorse, SectionChecks, SectionMarks
<1>. HIDE DEF J, m, H, n
<1>4. /\ MarksOf(m, Weight, J) * Pool(Weight, H) <= MarksOf(n, Weight, H) * Pool(Weight, J)
      /\ J = {} => MarksOf(n, Weight, H) = 2 * Pool(Weight, H)
      /\ H = {} => MarksOf(m, Weight, J) = 0
  BY <1>1, <1>2, <1>3, MeansRise
<1>5. PICK p \in Nat, u \in Nat :
        /\ p = MarksOf(m, Weight, J) /\ u = Pool(Weight, J) /\ p <= 2 * u /\ (J # {} => u # 0)
  <2>1. /\ MarksOf(m, Weight, J) \in Nat /\ Pool(Weight, J) \in Nat /\ (J # {} => Pool(Weight, J) # 0)
        /\ \E lost \in Nat : MarksOf(m, Weight, J) + lost = 2 * Pool(Weight, J)
    BY <1>1, MarksAre
  <2>. QED
    BY <2>1
<1>6. PICK q \in Nat, v \in Nat :
        /\ q = MarksOf(n, Weight, H) /\ v = Pool(Weight, H) /\ q <= 2 * v /\ (H # {} => v # 0)
  <2>1. /\ MarksOf(n, Weight, H) \in Nat /\ Pool(Weight, H) \in Nat /\ (H # {} => Pool(Weight, H) # 0)
        /\ \E lost \in Nat : MarksOf(n, Weight, H) + lost = 2 * Pool(Weight, H)
    BY <1>2, MarksAre
  <2>. QED
    BY <2>1
<1>7. /\ J # {} => /\ Within(Rounded(p * 1000, 2 * u))
                   /\ p = 0 => Rounded(p * 1000, 2 * u) = 0
      /\ H # {} => /\ Within(Rounded(q * 1000, 2 * v))
                   /\ q = 2 * v => Rounded(q * 1000, 2 * v) = 1000
  <2>1. ASSUME J # {}
        PROVE  /\ Within(Rounded(p * 1000, 2 * u))
               /\ p = 0 => Rounded(p * 1000, 2 * u) = 0
    <3>1. PICK x \in Nat, d \in Nat : x = p * 1000 /\ d = 2 * u /\ d # 0
      BY <1>5, <2>1
    <3>2. x <= 1000 * d /\ (p = 0 => x = 0)
      BY <1>5, <2>1, <3>1
    <3>. QED
      BY <3>1, <3>2, RoundedWithin DEF Within
  <2>2. ASSUME H # {}
        PROVE  /\ Within(Rounded(q * 1000, 2 * v))
               /\ q = 2 * v => Rounded(q * 1000, 2 * v) = 1000
    <3>1. PICK x \in Nat, d \in Nat : x = q * 1000 /\ d = 2 * v /\ d # 0
      BY <1>6, <2>2
    <3>2. x <= 1000 * d /\ (q = 2 * v => x = 1000 * d)
      BY <1>6, <2>2, <3>1
    <3>. QED
      BY <3>1, <3>2, RoundedWithin DEF Within
  <2>. QED
    BY <2>1, <2>2
<1>8. J # {} /\ H # {} => Rounded(p * 1000, 2 * u) <= Rounded(q * 1000, 2 * v)
  <2>1. p * v <= q * u
    BY <1>4, <1>5, <1>6
  <2>2. (p * 1000) * (2 * v) = 2000 * (p * v) /\ (q * 1000) * (2 * u) = 2000 * (q * u)
    OBVIOUS
  <2>3. /\ p * 1000 \in Nat /\ (J # {} => 2 * u \in Nat \ {0})
        /\ q * 1000 \in Nat /\ (H # {} => 2 * v \in Nat \ {0})
        /\ p * v \in Nat /\ q * u \in Nat
    BY <1>5, <1>6
  <2>4. (p * 1000) * (2 * v) <= (q * 1000) * (2 * u)
    BY <2>1, <2>2, <2>3
  <2>. QED
    BY <2>3, <2>4, RoundedRises
<1>9. \A x : Within(x) => x # NoScore
  BY DEF NoScore, Within
<1>. QED
  BY <1>1, <1>2, <1>4, <1>5, <1>6, <1>7, <1>8, <1>9 DEF Risen

\* The scores of the sections, and the sections that have one.
ScoresOf(found) == [l \in DOMAIN PcrWeights |-> SectionScore(found, l)]
Counted(found)  == {l \in DOMAIN PcrWeights : ScoresOf(found)[l] # NoScore}

\* The sections that count for the page score: finitely many, each with a weight.
LEMMA SectionsAre ==
  /\ IsFiniteSet(DOMAIN PcrWeights)
  /\ \A l \in DOMAIN PcrWeights : PcrWeights[l] \in Nat \ {0}
<1>1. DOMAIN PcrWeights = {"A", "B", "C"} \union {"D", "E", "F"} \union {"G", "H", "J"}
  BY DEF PcrWeights
<1>2. \A x, y, z : IsFiniteSet({x, y, z})
  <2>. TAKE x, y, z
  <2>1. IsFiniteSet({x}) /\ IsFiniteSet({y}) /\ IsFiniteSet({z})
    BY FS_Singleton
  <2>2. {x, y, z} = {x} \union ({y} \union {z})
    OBVIOUS
  <2>3. IsFiniteSet({y} \union {z})
    BY <2>1, FS_Union
  <2>4. IsFiniteSet({x} \union ({y} \union {z}))
    BY <2>1, <2>3, FS_Union
  <2>. QED
    BY <2>2, <2>4
<1>3. IsFiniteSet({"A", "B", "C"}) /\ IsFiniteSet({"D", "E", "F"}) /\ IsFiniteSet({"G", "H", "J"})
  BY <1>2
<1>a. \A S, T : IsFiniteSet(S) /\ IsFiniteSet(T) => IsFiniteSet(S \union T)
  BY FS_Union
<1>4. IsFiniteSet(DOMAIN PcrWeights)
  <2>1. IsFiniteSet({"A", "B", "C"} \union {"D", "E", "F"})
    BY <1>3, <1>a
  <2>2. IsFiniteSet({"A", "B", "C"} \union {"D", "E", "F"} \union {"G", "H", "J"})
    BY <1>3, <1>a, <2>1
  <2>. QED
    BY <1>1, <2>2
<1>5. \A l \in DOMAIN PcrWeights : PcrWeights[l] \in Nat \ {0}
  BY DEF PcrWeights
<1>. QED
  BY <1>4, <1>5

\* The page score is the mean of the scores of its sections.
LEMMA PcrIs ==
  ASSUME NEW found, \A l \in DOMAIN PcrWeights : SectionScore(found, l) = NoScore \/ Within(SectionScore(found, l))
  PROVE  /\ Marks(ScoresOf(found), PcrWeights, Counted(found), DOMAIN PcrWeights, 1000)
         /\ Pcr(found) = IF Counted(found) = {} THEN NoScore
                         ELSE Rounded(MarksOf(ScoresOf(found), PcrWeights, Counted(found)),
                                      Pool(PcrWeights, Counted(found)))
<1>1. Counted(found) \in SUBSET DOMAIN PcrWeights /\ IsFiniteSet(Counted(found))
  BY SectionsAre, FS_Subset DEF Counted
<1>2. \A l \in Counted(found) : ScoresOf(found)[l] \in 0 .. 1000
  BY DEF Counted, ScoresOf, Within
<1>3. 1000 \in Nat \ {0}
  OBVIOUS
<1>4. Marks(ScoresOf(found), PcrWeights, Counted(found), DOMAIN PcrWeights, 1000)
  BY <1>1, <1>2, <1>3, SectionsAre DEF Marks
<1>. DEFINE L == Counted(found)
<1>5. Pcr(found) = IF L = {} THEN NoScore
                   ELSE Rounded(SectionPoints(ScoresOf(found), L), SectionWeights(L))
  BY DEF Pcr, Counted, ScoresOf
<1>6. /\ SectionPoints(ScoresOf(found), L) = MarksOf(ScoresOf(found), PcrWeights, L)
      /\ SectionWeights(L) = Pool(PcrWeights, L)
  BY <1>1, SectionPointsAre, SectionWeightsAre
<1>. QED
  BY <1>4, <1>5, <1>6

\* Findings that are no worse give no lower page score.
LEMMA PcrRises ==
  ASSUME NEW before, Typed(before), NEW after, Typed(after), NoWorse(before, after),
         Pcr(before) # NoScore, Pcr(after) # NoScore
  PROVE  Pcr(before) <= Pcr(after)
<1>. DEFINE m == ScoresOf(before)
            J == Counted(before)
            n == ScoresOf(after)
            H == Counted(after)
            S == DOMAIN PcrWeights
<1>1. \A l \in S : Risen(SectionScore(before, l), SectionScore(after, l))
  BY SectionsRise
<1>2. /\ \A l \in S : SectionScore(before, l) = NoScore \/ Within(SectionScore(before, l))
      /\ \A l \in S : SectionScore(after, l) = NoScore \/ Within(SectionScore(after, l))
  BY <1>1 DEF Risen
<1>3. /\ Marks(m, PcrWeights, J, S, 1000)
      /\ Pcr(before) = IF J = {} THEN NoScore ELSE Rounded(MarksOf(m, PcrWeights, J), Pool(PcrWeights, J))
  BY <1>2, PcrIs
<1>4. /\ Marks(n, PcrWeights, H, S, 1000)
      /\ Pcr(after) = IF H = {} THEN NoScore ELSE Rounded(MarksOf(n, PcrWeights, H), Pool(PcrWeights, H))
  BY <1>2, PcrIs
<1>5. /\ \A l \in J \intersect H : m[l] <= n[l]
      /\ \A l \in H \ J : n[l] = 1000
      /\ \A l \in J \ H : m[l] = 0
  BY <1>1 DEF Counted, ScoresOf, Risen
<1>. HIDE DEF m, J, n, H, S
<1>6. MarksOf(m, PcrWeights, J) * Pool(PcrWeights, H) <= MarksOf(n, PcrWeights, H) * Pool(PcrWeights, J)
  BY <1>3, <1>4, <1>5, MeansRise
<1>7. J # {} /\ H # {}
  BY <1>3, <1>4
<1>8. /\ MarksOf(m, PcrWeights, J) \in Nat /\ Pool(PcrWeights, J) \in Nat \ {0}
      /\ MarksOf(n, PcrWeights, H) \in Nat /\ Pool(PcrWeights, H) \in Nat \ {0}
  BY <1>3, <1>4, <1>7, MarksAre
<1>9. Rounded(MarksOf(m, PcrWeights, J), Pool(PcrWeights, J))
        <= Rounded(MarksOf(n, PcrWeights, H), Pool(PcrWeights, H))
  BY <1>6, <1>8, RoundedRises
<1>. QED
  BY <1>3, <1>4, <1>7, <1>9

\* A page score is a score.
LEMMA PcrWithin ==
  ASSUME NEW found, Typed(found)
  PROVE  Pcr(found) = NoScore \/ Within(Pcr(found))
<1>. DEFINE m == ScoresOf(found)
            J == Counted(found)
            S == DOMAIN PcrWeights
<1>1. NoWorse(found, found)
  BY DEF NoWorse, Judged, StatusPoints
<1>2. \A l \in S : SectionScore(found, l) = NoScore \/ Within(SectionScore(found, l))
  BY <1>1, SectionsRise DEF Risen
<1>3. /\ Marks(m, PcrWeights, J, S, 1000)
      /\ Pcr(found) = IF J = {} THEN NoScore ELSE Rounded(MarksOf(m, PcrWeights, J), Pool(PcrWeights, J))
  BY <1>2, PcrIs
<1>. HIDE DEF m, J, S
<1>4. ASSUME J # {}
      PROVE  Within(Rounded(MarksOf(m, PcrWeights, J), Pool(PcrWeights, J)))
  <2>1. /\ MarksOf(m, PcrWeights, J) \in Nat /\ Pool(PcrWeights, J) \in Nat \ {0}
        /\ \E lost \in Nat : MarksOf(m, PcrWeights, J) + lost = 1000 * Pool(PcrWeights, J)
    BY <1>3, <1>4, MarksAre
  <2>2. PICK x \in Nat, d \in Nat : x = MarksOf(m, PcrWeights, J) /\ d = Pool(PcrWeights, J) /\ d # 0
    BY <2>1
  <2>3. x <= 1000 * d
    BY <2>1, <2>2
  <2>4. Within(Rounded(x, d))
    BY <2>2, <2>3, RoundedWithin DEF Within
  <2>. QED
    BY <2>2, <2>4
<1>. QED
  BY <1>3, <1>4

-----------------------------------------------------------------------------
(* The audits: what is under way, what is stored *)

Found(finding, version) ==
  DOMAIN finding = {"status", "version", "by"} /\ finding.version = version

\* A row that is done has a finding of the registry it ran under for every
\* check, and the score they give; another has neither.
Whole(row) ==
  IF row.status = "done"
  THEN /\ DOMAIN row.found = Checks
       /\ \A c \in Checks : Found(row.found[c], row.versions[c]) /\ row.found[c].status \in Statuses
       /\ row.score = RecomputeScores(row.found, row.graded).overall
  ELSE row.found = << >> /\ row.score = NoScore

RowsInv ==
  /\ job = Idle => rows = <<>> /\ cur = NoAudit
  /\ IsASeq(rows) /\ IsASeq(audits)
  /\ \A row \in Range(rows) \union Range(audits) : Whole(row)

CurFields == {"stage", "page", "gate", "serp", "found", "left", "booked", "refused",
              "unanswered", "capHit"}

\* Requests without an answer, once the letters `left' remain to be asked about.
WithinRetries(unanswered, left) ==
  unanswered \in Nat /\ unanswered <= (MAX_RETRIES + 1) * Cardinality(Range(Letter) \ left)

\* The budget of the audit that is under way: no answer is thrown away before
\* the call that meets the cap, and none after; the letters still to be asked
\* about have cost nothing.
BudgetInv ==
  cur # NoAudit =>
    /\ DOMAIN cur = CurFields
    /\ cur.booked \in Nat /\ cur.booked <= Cap
    /\ cur.capHit \in BOOLEAN /\ cur.refused \in Prices \union {0}
    /\ ~cur.capHit => cur.refused = 0
    /\ cur.left \subseteq Range(Letter)
    /\ WithinRetries(cur.unanswered, cur.left)
    /\ cur.stage # "classify" => cur.unanswered = 0

\* A check without a finding has its letter still to be asked about.
FoundInv ==
  cur.stage = "classify" =>
    /\ \A c \in DOMAIN cur.found : Found(cur.found[c], versions[c])
    /\ \A c \in Checks \ DOMAIN cur.found : Letter[c] \in cur.left

\* The fix queue of a summary is the one its members give.
Summarised(r) ==
  /\ \A i \in DOMAIN r.members : r.members[i] \in 1 .. Len(audits)
  /\ \E group : /\ group = [i \in DOMAIN r.members |-> audits[r.members[i]]]
                /\ r.rollup.queue = FixQueue(group)

RollupsInv == \A r \in rollups : Summarised(r)

\* Idle is no job.
JobInv ==
  job # Idle => DOMAIN job = {"kind", "todo", "client", "rivals"} /\ job.kind # "none"

AuditInv == JobInv /\ RowsInv /\ BudgetInv /\ FoundInv /\ RollupsInv

-----------------------------------------------------------------------------
(* What is stored *)

\* Without findings there is no score.
LEMMA NothingFoundNoScore ==
  ASSUME NEW gate
  PROVE  RecomputeScores(<< >>, gate).overall = NoScore
<1>1. DOMAIN Validated(<< >>) = {}
  BY DEF Validated
<1>2. \A letter : SectionScore(Validated(<< >>), letter) = NoScore
  BY <1>1 DEF SectionScore
<1>3. Pcr(Validated(<< >>)) = NoScore
  BY <1>2 DEF Pcr
<1>. QED
  BY <1>3 DEF RecomputeScores

\* An audit that ends leaves one row more, and nothing under way.
LEMMA FinishKeeps ==
  ASSUME AuditInv, cur # NoAudit, NEW status, NEW gate, NEW found, NEW score,
         Finish(status, gate, found, score),
         UNCHANGED <<audits, job, rollups>>,
         status = "done" => /\ DOMAIN found = Checks
                            /\ \A c \in Checks : /\ Found(found[c], versions[c])
                                                 /\ found[c].status \in Statuses
                            /\ score = RecomputeScores(found, gate).overall,
         status # "done" => found = << >> /\ score = NoScore
  PROVE  AuditInv'
<1>0. RowsInv /\ RollupsInv
  BY DEF AuditInv
<1>. DEFINE row == [page |-> cur.page, status |-> status, found |-> found, score |-> score,
                    gate |-> IF cur.page \in job.rivals THEN "competitor_reference" ELSE gate,
                    graded |-> gate, versions |-> versions]
<1>1. rows' = Append(rows, row) /\ cur' = NoAudit
  BY DEF Finish
<1>2. Whole(row)
  BY DEF Whole
<1>. HIDE DEF row
<1>3. IsASeq(rows') /\ Range(rows') = Range(rows) \union {row}
  BY <1>0, <1>1, SequencesGrow DEF RowsInv
<1>4. job # Idle
  BY <1>0 DEF RowsInv
<1>5. RowsInv'
  BY <1>0, <1>2, <1>3, <1>4 DEF RowsInv, IsASeq
<1>6. BudgetInv' /\ FoundInv'
  BY <1>1 DEF BudgetInv, FoundInv, NoAudit
<1>7. RollupsInv'
  BY <1>0 DEF RollupsInv, Summarised
<1>8. JobInv'
  BY DEF AuditInv, JobInv, Idle
<1>. QED
  BY <1>5, <1>6, <1>7, <1>8 DEF AuditInv

\* An audit that goes on leaves what is stored alone.
LEMMA GoingOnKeeps ==
  ASSUME AuditInv, job # Idle, job' # Idle, JobInv', UNCHANGED <<rows, audits, rollups>>,
         BudgetInv', FoundInv'
  PROVE  AuditInv'
<1>1. RowsInv'
  BY DEF AuditInv, RowsInv, IsASeq
<1>2. RollupsInv'
  BY DEF AuditInv, RollupsInv, Summarised
<1>. QED
  BY <1>1, <1>2 DEF AuditInv

-----------------------------------------------------------------------------
(* The requests of an audit under way *)

\* The letters are finitely many, and so are those done with.
LEMMA LettersAreFinite ==
  ASSUME NEW left
  PROVE  /\ IsFiniteSet(Range(Letter) \ left)
         /\ Cardinality(Range(Letter) \ left) \in Nat
<1>1. IsFiniteSet({Letter[c] : c \in Checks})
  BY ImagesAreFinite, RegistryAssumption
<1>2. Range(Letter) = {Letter[c] : c \in Checks}
  BY RegistryAssumption DEF Range
<1>. QED
  BY <1>1, <1>2, FS_Subset, FS_CardinalityType

\* Nothing sent is within what the letters allow.
LEMMA NoneUnanswered ==
  ASSUME NEW left
  PROVE  WithinRetries(0, left)
<1>1. \A k, n \in Nat : 0 <= (k + 1) * n
  OBVIOUS
<1>. QED
  BY <1>1, LettersAreFinite, AuditAssumption DEF WithinRetries

\* The letter asked about next is one of those left.
LEMMA NextLetterIsLeft ==
  ASSUME cur.left # {}, cur.left \subseteq Range(Letter)
  PROVE  NextLetter \in cur.left
<1>. DEFINE places == {i \in DOMAIN Letters : Letters[i] \in cur.left}
<1>1. \A l \in Range(Letter) : \E i \in DOMAIN Letters : Letters[i] = l
  BY RegistryAssumption DEF Range, Letters
<1>2. places # {} /\ places \subseteq Nat
  BY <1>1 DEF Letters
<1>3. PICK least \in places : \A i \in places : least <= i
  BY <1>2, LeastNumber
<1>4. Min(places) \in places
  BY <1>2, <1>3 DEF Min
<1>. QED
  BY <1>4 DEF NextLetter

\* A letter that is done with allows for MAX_RETRIES + 1 requests more.
LEMMA RequestsWithin ==
  ASSUME NEW left, NEW letter \in left, left \subseteq Range(Letter),
         NEW unanswered, WithinRetries(unanswered, left), NEW lost \in 0 .. MAX_RETRIES + 1
  PROVE  WithinRetries(unanswered + lost, left \ {letter})
<1>. DEFINE done == Range(Letter) \ left
<1>1. Range(Letter) \ (left \ {letter}) = done \union {letter} /\ letter \notin done
  OBVIOUS
<1>2. Cardinality(done \union {letter}) = Cardinality(done) + 1 /\ Cardinality(done) \in Nat
  BY <1>1, LettersAreFinite, FS_AddElement
<1>3. \A k, n \in Nat : (k + 1) * (n + 1) = (k + 1) * n + k + 1
  OBVIOUS
<1>4. /\ MAX_RETRIES \in Nat /\ unanswered \in Nat
      /\ unanswered <= (MAX_RETRIES + 1) * Cardinality(done)
  BY AuditAssumption DEF WithinRetries
<1>5. \A b, u, k, l \in Nat : u <= b /\ l <= k + 1 => u + l \in Nat /\ u + l <= b + k + 1
  OBVIOUS
<1>6. (MAX_RETRIES + 1) * Cardinality(done) \in Nat
  BY <1>2, <1>4
<1>7. lost \in Nat /\ lost <= MAX_RETRIES + 1
  BY <1>4
<1>8. PICK b \in Nat : b = (MAX_RETRIES + 1) * Cardinality(done)
  BY <1>6
<1>9. (MAX_RETRIES + 1) * Cardinality(done \union {letter}) = b + MAX_RETRIES + 1
  BY <1>2, <1>3, <1>4, <1>8
<1>10. unanswered + lost \in Nat /\ unanswered + lost <= b + MAX_RETRIES + 1
  BY <1>4, <1>5, <1>7, <1>8
<1>. HIDE DEF done
<1>. QED
  BY <1>1, <1>9, <1>10 DEF WithinRetries

-----------------------------------------------------------------------------
(* The findings of an audit under way *)

\* What was decided is what was asked for, at the registry's versions.
LEMMA DecidedAre ==
  ASSUME NEW S, NEW status
  PROVE  /\ DOMAIN Decided(S, status) = S
         /\ \A c \in S : Found(Decided(S, status)[c], versions[c])
BY DEF Decided, Found

\* Sound findings over sound ones are sound.
LEMMA OverIs ==
  ASSUME NEW found, NEW earlier,
         \A c \in DOMAIN found : Found(found[c], versions[c]),
         \A c \in DOMAIN earlier : Found(earlier[c], versions[c])
  PROVE  /\ DOMAIN Over(found, earlier) = DOMAIN found \union DOMAIN earlier
         /\ \A c \in DOMAIN Over(found, earlier) : Found(Over(found, earlier)[c], versions[c])
BY DEF Over

\* What is decided before the classifier is asked is sound.
LEMMA OverridesAre ==
  ASSUME NEW overrides, overrides \in PageOverrides \/ overrides = DraftOverrides
  PROVE  \A c \in DOMAIN overrides : Found(overrides[c], versions[c])
<1>1. ASSUME NEW local \in LocalOverrides
      PROVE  \A c \in DOMAIN local : Found(local[c], versions[c])
  <2>1. \/ local = Decided(LocalChecks, "na")
        \/ local = Decided(LocalChecks, "inconclusive")
        \/ \E snapshots \in LocalPacks :
             local = [c \in LocalChecks |->
                        Decided({c}, EvaluateLocalPresence(snapshots)[LocalFamily[c]])[c]]
    BY <1>1 DEF LocalOverrides, Fallback
  <2>2. CASE \E snapshots \in LocalPacks :
               local = [c \in LocalChecks |->
                          Decided({c}, EvaluateLocalPresence(snapshots)[LocalFamily[c]])[c]]
    <3>1. PICK snapshots \in LocalPacks :
            local = [c \in LocalChecks |->
                       Decided({c}, EvaluateLocalPresence(snapshots)[LocalFamily[c]])[c]]
      BY <2>2
    <3>2. \A c \in LocalChecks :
            Found(Decided({c}, EvaluateLocalPresence(snapshots)[LocalFamily[c]])[c], versions[c])
      BY DecidedAre
    <3>. QED
      BY <3>1, <3>2
  <2>. QED
    BY <2>1, <2>2, DecidedAre
<1>2. CASE overrides \in PageOverrides
  <2>. DEFINE comparative == IF cur.serp THEN {} ELSE {c \in Checks : Method[c] = "comparative"}
  <2>1. PICK local \in LocalOverrides : overrides = Over(Decided(comparative, "na"), local)
    BY <1>2 DEF PageOverrides
  <2>. HIDE DEF comparative
  <2>. QED
    BY <1>1, <2>1, DecidedAre, OverIs
<1>3. CASE overrides = DraftOverrides
  BY <1>3, DecidedAre DEF DraftOverrides
<1>. QED
  BY <1>2, <1>3

\* The classifier is asked about every check that has none yet.
LEMMA ClassifiedKeeps ==
  ASSUME AuditInv, cur # NoAudit, cur.stage = "evidence", NEW gate, NEW overrides,
         overrides \in PageOverrides \/ overrides = DraftOverrides,
         Classified(gate, overrides), UNCHANGED <<rows, audits, rollups, job, versions>>
  PROVE  AuditInv'
<1>0. RowsInv /\ BudgetInv
  BY DEF AuditInv
<1>1. cur' = [cur EXCEPT !.stage = "classify", !.gate = gate, !.found = overrides,
                         !.left = {Letter[c] : c \in Checks \ DOMAIN overrides}]
  BY DEF Classified
<1>2. DOMAIN cur = CurFields /\ cur.unanswered = 0
  BY <1>0 DEF BudgetInv
<1>. DEFINE letters == {Letter[c] : c \in Checks \ DOMAIN overrides}
<1>3. /\ \A c \in Checks \ DOMAIN overrides : Letter[c] \in letters
      /\ letters \subseteq Range(Letter)
  BY RegistryAssumption DEF Range
<1>. HIDE DEF letters
<1>4. /\ DOMAIN cur' = DOMAIN cur /\ cur'.found = overrides /\ cur'.left = letters
      /\ cur'.booked = cur.booked /\ cur'.refused = cur.refused /\ cur'.capHit = cur.capHit
      /\ cur'.unanswered = 0 /\ cur'.stage = "classify"
  BY <1>1, <1>2 DEF letters, CurFields
<1>5. BudgetInv'
  BY <1>0, <1>3, <1>4, NoneUnanswered DEF BudgetInv
<1>6. FoundInv'
  BY <1>3, <1>4, OverridesAre DEF FoundInv
<1>7. job # Idle /\ JobInv'
  BY <1>0 DEF RowsInv, AuditInv, JobInv, Idle
<1>. QED
  BY <1>5, <1>6, <1>7, GoingOnKeeps

\* A letter that is settled keeps the findings sound and complete.
LEMMA SettledKeeps ==
  ASSUME AuditInv, cur.stage = "classify", NEW found,
         DOMAIN found = ChecksOf(NextLetter),
         \A c \in DOMAIN found : Found(found[c], versions[c]),
         DOMAIN cur' = DOMAIN cur,
         cur'.found = Over(found, cur.found), cur'.left = cur.left \ {NextLetter},
         BudgetInv', UNCHANGED <<rows, audits, rollups, job, versions>>
  PROVE  AuditInv'
<1>0. RowsInv /\ FoundInv
  BY DEF AuditInv
<1>1. /\ DOMAIN cur'.found = ChecksOf(NextLetter) \union DOMAIN cur.found
      /\ \A c \in DOMAIN cur'.found : Found(cur'.found[c], versions[c])
  BY <1>0, OverIs, ZenonT(60) DEF FoundInv
<1>2. \A c \in Checks \ DOMAIN cur'.found : Letter[c] \in cur'.left
  BY <1>0, <1>1 DEF FoundInv, ChecksOf
<1>3. FoundInv'
  BY <1>1, <1>2 DEF FoundInv
<1>4. job # Idle /\ JobInv'
  BY <1>0 DEF RowsInv, NoAudit, AuditInv, JobInv, Idle
<1>. QED
  BY <1>3, <1>4, GoingOnKeeps

-----------------------------------------------------------------------------
(* The steps of an audit *)

\* An audit begins with nothing found and nothing paid.
LEMMA StartKeeps ==
  ASSUME AuditInv, CreateAudit \/ CreateDraftAudit
  PROVE  AuditInv'
<1>0. JobInv
  BY DEF AuditInv
<1>1. /\ job # Idle /\ UNCHANGED <<rows, audits, rollups>>
      /\ job' = [job EXCEPT !.todo = Tail(@)]
  BY DEF CreateAudit, CreateDraftAudit
<1>2. PICK stage \in {"acquire", "evidence"} : \E serp : cur' = Started(stage, serp)
  <2>1. CASE CreateAudit
    BY <2>1 DEF CreateAudit
  <2>2. CASE CreateDraftAudit
    BY <2>2 DEF CreateDraftAudit
  <2>. QED
    BY <2>1, <2>2
<1>3. DOMAIN job' = DOMAIN job /\ job'.kind = job.kind /\ job.kind # "none"
  BY <1>0, <1>1 DEF JobInv
<1>4. job' # Idle /\ JobInv'
  BY <1>0, <1>1, <1>3 DEF JobInv, Idle
<1>5. /\ DOMAIN cur' = CurFields /\ cur'.stage = stage
      /\ cur'.booked = 0 /\ cur'.refused = 0 /\ cur'.capHit = FALSE
      /\ cur'.left = {} /\ cur'.unanswered = 0
  <2>1. PICK serp : cur' = Started(stage, serp)
    BY <1>2
  <2>. DEFINE page == Head(job.todo)
  <2>2. cur' = [stage |-> stage, page |-> page, gate |-> "", serp |-> serp,
                found |-> << >>, left |-> {}, booked |-> 0, refused |-> 0, unanswered |-> 0,
                capHit |-> FALSE]
    BY <2>1 DEF Started
  <2>. HIDE DEF page
  <2>. QED
    BY <2>2 DEF CurFields
<1>6. BudgetInv'
  <2>1. 0 \in Nat /\ 0 <= Cap
    BY AuditAssumption
  <2>2. cur'.booked \in Nat /\ cur'.booked <= Cap /\ cur'.refused \in Prices \union {0}
    BY <1>5, <2>1
  <2>. QED
    BY <1>5, <2>2, NoneUnanswered DEF BudgetInv
<1>7. FoundInv'
  BY <1>5 DEF FoundInv
<1>. QED
  BY <1>1, <1>4, <1>6, <1>7, GoingOnKeeps

\* The stages before the classifier end the audit without a grade or go on.
LEMMA EvidenceKeeps ==
  ASSUME AuditInv, Acquire \/ CollectEvidence \/ CollectDraftEvidence
  PROVE  AuditInv'
<1>0. RowsInv /\ BudgetInv
  BY DEF AuditInv
<1>1. cur # NoAudit /\ UNCHANGED <<audits, job, rollups, versions>>
  BY DEF Acquire, CollectEvidence, CollectDraftEvidence, NoAudit
<1>2. ASSUME NEW gate, Ungradeable(gate)
      PROVE  AuditInv'
  BY <1>1, <1>2, FinishKeeps, NothingFoundNoScore DEF Ungradeable
<1>3. ASSUME cur.stage = "acquire", cur' = [cur EXCEPT !.stage = "evidence"], UNCHANGED rows
      PROVE  AuditInv'
  <2>1. /\ DOMAIN cur' = DOMAIN cur /\ cur'.stage = "evidence" /\ cur'.booked = cur.booked
        /\ cur'.refused = cur.refused /\ cur'.capHit = cur.capHit
        /\ cur'.left = cur.left /\ cur'.unanswered = cur.unanswered
        /\ cur'.unanswered = 0
    BY <1>0, <1>1, <1>3 DEF BudgetInv, CurFields
  <2>2. BudgetInv' /\ FoundInv'
    BY <1>0, <1>1, <2>1 DEF BudgetInv, FoundInv
  <2>3. job # Idle /\ JobInv'
    BY <1>0, <1>1 DEF RowsInv, AuditInv, JobInv, Idle
  <2>. QED
    BY <1>1, <1>3, <2>2, <2>3, GoingOnKeeps
<1>4. CASE Acquire
  <2>1. \/ \E gate : Ungradeable(gate)
        \/ cur.stage = "acquire" /\ cur' = [cur EXCEPT !.stage = "evidence"] /\ UNCHANGED rows
    BY <1>4 DEF Acquire
  <2>. QED
    BY <1>2, <1>3, <2>1
<1>5. CASE CollectEvidence
  <2>1. \/ \E gate : Ungradeable(gate)
        \/ UNCHANGED rows /\ \E overrides \in PageOverrides : Classified("ok", overrides)
    BY <1>5 DEF CollectEvidence
  <2>2. cur.stage = "evidence"
    BY <1>5 DEF CollectEvidence
  <2>. QED
    BY <1>1, <1>2, <2>1, <2>2, ClassifiedKeeps
<1>6. CASE CollectDraftEvidence
  BY <1>1, <1>6, ClassifiedKeeps DEF CollectDraftEvidence
<1>. QED
  BY <1>4, <1>5, <1>6

\* What a call costs is within the retries, booked or not.
LEMMA CalledKeeps ==
  ASSUME AuditInv, cur.stage = "classify", cur.left # {}, NEW lost \in 0 .. MAX_RETRIES + 1,
         DOMAIN cur' = CurFields, cur'.stage = "classify",
         cur'.left = cur.left \ {NextLetter}, cur'.unanswered = cur.unanswered + lost,
         cur'.booked \in Nat, cur'.booked <= Cap, cur'.capHit \in BOOLEAN,
         cur'.refused \in Prices \union {0}, ~cur'.capHit => cur'.refused = 0
  PROVE  BudgetInv'
<1>1. /\ cur.left \subseteq Range(Letter) /\ WithinRetries(cur.unanswered, cur.left)
  BY DEF AuditInv, BudgetInv, NoAudit
<1>2. NextLetter \in cur.left
  BY <1>1, NextLetterIsLeft
<1>3. WithinRetries(cur.unanswered + lost, cur.left \ {NextLetter})
  BY <1>1, <1>2, RequestsWithin
<1>. QED
  BY <1>1, <1>3 DEF BudgetInv

\* The cap is met at most once, and no call is made after it.
LEMMA ClassifyKeeps ==
  ASSUME AuditInv, ClassifyChecks
  PROVE  AuditInv'
<1>0. /\ cur.stage = "classify" /\ cur # NoAudit /\ cur.left # {} /\ BudgetInv
      /\ UNCHANGED <<rows, audits, rollups, job, versions>>
  BY DEF ClassifyChecks, NoAudit, AuditInv
<1>1. DOMAIN cur = CurFields
  BY <1>0 DEF BudgetInv
<1>. DEFINE fallback == Fallback(ChecksOf(NextLetter))
<1>2. DOMAIN fallback = ChecksOf(NextLetter) /\ \A c \in DOMAIN fallback : Found(fallback[c], versions[c])
  BY DecidedAre DEF Fallback
<1>. HIDE DEF fallback
<1>3. /\ DOMAIN WithoutAnswer = CurFields
      /\ WithoutAnswer.found = Over(fallback, cur.found)
      /\ WithoutAnswer.left = cur.left \ {NextLetter} /\ WithoutAnswer.stage = "classify"
      /\ WithoutAnswer.booked = cur.booked /\ WithoutAnswer.refused = cur.refused
      /\ WithoutAnswer.unanswered = cur.unanswered /\ WithoutAnswer.capHit = cur.capHit
  BY <1>0, <1>1 DEF WithoutAnswer, CurFields, fallback
<1>4. /\ cur.booked \in Nat /\ cur.booked <= Cap /\ cur.capHit \in BOOLEAN
      /\ cur.refused \in Prices \union {0} /\ (~cur.capHit => cur.refused = 0)
      /\ cur.unanswered \in Nat /\ MAX_RETRIES \in Nat
  BY <1>0, AuditAssumption DEF BudgetInv, WithinRetries
<1>5. ASSUME PassOver
      PROVE  AuditInv'
  <2>1. cur'.unanswered = cur.unanswered + 0
    BY <1>3, <1>4, <1>5 DEF PassOver
  <2>2. BudgetInv'
    BY <1>0, <1>3, <1>4, <1>5, <2>1, CalledKeeps DEF PassOver
  <2>. QED
    BY <1>0, <1>1, <1>2, <1>3, <1>5, <2>2, SettledKeeps DEF PassOver
<1>6. ASSUME CallFails
      PROVE  AuditInv'
  <2>1. PICK n \in 0 .. MAX_RETRIES + 1 : cur' = [WithoutAnswer EXCEPT !.unanswered = @ + n]
    BY <1>6 DEF CallFails
  <2>2. /\ DOMAIN cur' = CurFields /\ cur'.found = Over(fallback, cur.found)
        /\ cur'.left = cur.left \ {NextLetter} /\ cur'.stage = "classify"
        /\ cur'.booked = cur.booked /\ cur'.refused = cur.refused
        /\ cur'.unanswered = cur.unanswered + n /\ cur'.capHit = cur.capHit
    BY <1>3, <2>1 DEF CurFields
  <2>3. BudgetInv'
    BY <1>0, <1>4, <2>2, CalledKeeps
  <2>. QED
    BY <1>0, <1>1, <1>2, <2>2, <2>3, SettledKeeps
<1>7. ASSUME NEW unpaid \in Prices \union {0}, NEW lost \in 0 .. MAX_RETRIES + 1,
             ~cur.capHit, CapReached(unpaid, lost)
      PROVE  AuditInv'
  <2>1. cur' = [WithoutAnswer EXCEPT !.capHit = TRUE,
                                     !.refused = @ + unpaid, !.unanswered = @ + lost]
    BY <1>7 DEF CapReached
  <2>2. /\ DOMAIN cur' = CurFields /\ cur'.found = Over(fallback, cur.found)
        /\ cur'.left = cur.left \ {NextLetter} /\ cur'.stage = "classify"
        /\ cur'.booked = cur.booked /\ cur'.refused = cur.refused + unpaid
        /\ cur'.unanswered = cur.unanswered + lost /\ cur'.capHit = TRUE
    BY <1>3, <2>1 DEF CurFields
  <2>3. cur.refused = 0 /\ unpaid \in Nat
    BY <1>4, <1>7, AuditAssumption
  <2>4. cur'.refused = unpaid
    BY <2>2, <2>3
  <2>5. BudgetInv'
    BY <1>0, <1>4, <1>7, <2>2, <2>4, CalledKeeps
  <2>. QED
    BY <1>0, <1>1, <1>2, <2>2, <2>5, SettledKeeps
<1>8. ASSUME NEW price \in Prices, NEW lost \in 0 .. MAX_RETRIES + 1, cur.booked + price <= Cap,
             NEW answer \in AnswersTo(ChecksOf(NextLetter)),
             cur' = [cur EXCEPT !.found = Over(MergeCategoryResult(answer), @),
                                !.left = @ \ {NextLetter},
                                !.booked = @ + price, !.unanswered = @ + lost]
      PROVE  AuditInv'
  <2>. DEFINE found == MergeCategoryResult(answer)
  <2>1. DOMAIN answer = ChecksOf(NextLetter)
    BY <1>8 DEF AnswersTo
  <2>2. DOMAIN found = ChecksOf(NextLetter) /\ \A c \in DOMAIN found : Found(found[c], versions[c])
    <3>1. DOMAIN found = ChecksOf(NextLetter)
      BY <2>1 DEF MergeCategoryResult
    <3>2. \A c : Found(Fallback({c})[c], versions[c])
      BY DecidedAre DEF Fallback
    <3>3. \A status, c : Found([status |-> status, version |-> versions[c], by |-> "llm"], versions[c])
      BY DEF Found
    <3>4. \A c \in DOMAIN found :
            \/ found[c] = Fallback({c})[c]
            \/ found[c] = [status |-> answer[c], version |-> versions[c], by |-> "llm"]
      BY DEF MergeCategoryResult
    <3>. QED
      BY <3>1, <3>2, <3>3, <3>4
  <2>. HIDE DEF found
  <2>3. /\ DOMAIN cur' = CurFields /\ cur'.found = Over(found, cur.found)
        /\ cur'.left = cur.left \ {NextLetter} /\ cur'.booked = cur.booked + price
        /\ cur'.refused = cur.refused /\ cur'.unanswered = cur.unanswered + lost
        /\ cur'.capHit = cur.capHit /\ cur'.stage = cur.stage
    BY <1>1, <1>8 DEF CurFields, found
  <2>4. price \in Nat
    BY AuditAssumption
  <2>5. BudgetInv'
    BY <1>0, <1>4, <1>8, <2>3, <2>4, CalledKeeps
  <2>. QED
    BY <1>0, <1>1, <2>2, <2>3, <2>5, SettledKeeps
<1>9. CASE cur.capHit
  BY <1>5, <1>9 DEF ClassifyChecks
<1>10. CASE ~cur.capHit
  <2>1. \/ CapReached(0, 0) \/ CallFails
        \/ \E price \in Prices, lost \in 0 .. MAX_RETRIES : Complete(price, lost)
    BY <1>10 DEF ClassifyChecks
  <2>2. ASSUME NEW price \in Prices, NEW lost \in 0 .. MAX_RETRIES, Complete(price, lost)
        PROVE  AuditInv'
    <3>0. lost \in 0 .. MAX_RETRIES + 1
      BY <1>4, <2>2
    <3>1. CASE cur.booked + price > Cap
      BY <1>7, <1>10, <2>2, <3>0, <3>1 DEF Complete
    <3>2. CASE ~(cur.booked + price > Cap)
      <4>1. cur.booked + price <= Cap
        BY <1>4, <3>2, AuditAssumption
      <4>2. PICK answer \in AnswersTo(ChecksOf(NextLetter)) :
              cur' = [cur EXCEPT !.found = Over(MergeCategoryResult(answer), @),
                                 !.left = @ \ {NextLetter},
                                 !.booked = @ + price, !.unanswered = @ + lost]
        BY <2>2, <3>2 DEF Complete
      <4>. QED
        BY <1>8, <3>0, <4>1, <4>2
    <3>. QED
      BY <3>1, <3>2
  <2>3. 0 \in 0 .. MAX_RETRIES + 1
    BY <1>4
  <2>. QED
    BY <1>6, <1>7, <1>10, <2>1, <2>2, <2>3
<1>. QED
  BY <1>4, <1>9, <1>10

\* A graded audit has a finding for every check; a failed one has none.
LEMMA EndKeeps ==
  ASSUME AuditInv, GradeAndPersist \/ StageFails
  PROVE  AuditInv'
<1>0. /\ cur # NoAudit /\ UNCHANGED <<audits, job, rollups, versions>> /\ FoundInv
  BY DEF GradeAndPersist, StageFails, NoAudit, AuditInv
<1>1. CASE StageFails
  BY <1>0, <1>1, FinishKeeps DEF StageFails
<1>2. CASE GradeAndPersist
  <2>. DEFINE found == Validated(cur.found)
  <2>1. /\ cur.stage = "classify" /\ cur.left = {}
        /\ Finish("done", cur.gate, found, RecomputeScores(found, cur.gate).overall)
    BY <1>2 DEF GradeAndPersist
  <2>2. Checks \subseteq DOMAIN cur.found
    BY <1>0, <2>1 DEF FoundInv
  <2>3. DOMAIN found = Checks
    BY <2>2 DEF Validated
  <2>4. ASSUME NEW c \in Checks
        PROVE  Found(found[c], versions[c]) /\ found[c].status \in Statuses
    <3>1. Found(cur.found[c], versions[c])
      BY <1>0, <2>1, <2>2 DEF FoundInv
    <3>2. found[c] = [cur.found[c] EXCEPT !.status = IF @ \in Statuses THEN @ ELSE "na"]
      BY <2>2 DEF Validated
    <3>3. "na" \in Statuses
      BY DEF Statuses
    <3>. HIDE DEF found
    <3>. QED
      BY <3>1, <3>2, <3>3 DEF Found
  <2>. HIDE DEF found
  <2>. QED
    BY <1>0, <2>1, <2>3, <2>4, FinishKeeps
<1>. QED
  BY <1>1, <1>2

-----------------------------------------------------------------------------
(* Jobs, and the audits of the site *)

\* A job that ends adds its audits after those before it: a summary still
\* stands for the audits it was made of.
LEMMA CommitKeeps ==
  ASSUME AuditInv, EndJob
  PROVE  AuditInv'
<1>0. RowsInv /\ RollupsInv
  BY DEF AuditInv
<1>1. /\ audits' = audits \o rows /\ job' = Idle /\ rows' = <<>> /\ cur' = NoAudit
      /\ \/ rollups' = rollups
         \/ rollups' = rollups \union {[members |-> Members, rollup |-> RollUp(rows)]}
  BY DEF EndJob, All, AssembleGroup
<1>2. /\ IsASeq(audits') /\ Len(rows) \in Nat /\ Len(audits) \in Nat
      /\ Len(audits') = Len(audits) + Len(rows)
      /\ DOMAIN rows = 1 .. Len(rows)
      /\ \A i \in 1 .. Len(audits) : audits'[i] = audits[i]
      /\ \A i \in 1 .. Len(rows) : audits'[Len(audits) + i] = rows[i]
      /\ Range(audits') = Range(audits) \union Range(rows)
  BY <1>0, <1>1, SequencesJoin DEF RowsInv, IsASeq
<1>3. RowsInv'
  BY <1>0, <1>1, <1>2, SequencesBegin DEF RowsInv, IsASeq
<1>4. ASSUME NEW r \in rollups
      PROVE  Summarised(r)'
  <2>1. PICK group : /\ group = [i \in DOMAIN r.members |-> audits[r.members[i]]]
                     /\ r.rollup.queue = FixQueue(group)
    BY <1>0 DEF RollupsInv, Summarised
  <2>2. \A i \in DOMAIN r.members :
          /\ r.members[i] \in 1 .. Len(audits) /\ r.members[i] \in 1 .. Len(audits')
          /\ audits'[r.members[i]] = audits[r.members[i]]
    BY <1>0, <1>2 DEF RollupsInv, Summarised
  <2>3. group = [i \in DOMAIN r.members |-> audits'[r.members[i]]]
    BY <2>1, <2>2
  <2>. QED
    BY <2>1, <2>2, <2>3 DEF Summarised
<1>5. ASSUME NEW r, r = [members |-> Members, rollup |-> RollUp(rows)]
      PROVE  Summarised(r)'
  <2>1. r.members = [i \in 1 .. Len(rows) |-> Len(audits) + i]
    BY <1>5 DEF Members
  <2>2. r.rollup.queue = FixQueue(rows)
    BY <1>5 DEF RollUp
  <2>3. \A i \in DOMAIN r.members :
          r.members[i] \in 1 .. Len(audits') /\ audits'[r.members[i]] = rows[i]
    BY <1>2, <2>1
  <2>4. rows = [i \in DOMAIN r.members |-> audits'[r.members[i]]]
    <3>1. rows \in Seq(Range(rows)) /\ DOMAIN r.members = 1 .. Len(rows)
      BY <1>0, <2>1 DEF RowsInv, IsASeq
    <3>2. rows = [i \in 1 .. Len(rows) |-> rows[i]]
      BY <3>1
    <3>. QED
      BY <2>3, <3>1, <3>2
  <2>. QED
    BY <2>2, <2>3, <2>4 DEF Summarised
<1>6. RollupsInv'
  BY <1>1, <1>4, <1>5 DEF RollupsInv
<1>7. JobInv' /\ BudgetInv' /\ FoundInv'
  BY <1>1 DEF JobInv, BudgetInv, FoundInv, NoAudit
<1>. QED
  BY <1>3, <1>6, <1>7 DEF AuditInv

\* Every step keeps the invariant.
LEMMA AuditStep ==
  ASSUME AuditInv, [AuditNext]_auditVars
  PROVE  AuditInv'
<1>0. RowsInv /\ RollupsInv /\ JobInv
  BY DEF AuditInv
<1>1. CASE BeginJob
  <2>1. job = Idle /\ UNCHANGED <<audits, rollups, rows, cur, versions>> /\ rows = <<>> /\ cur = NoAudit
    BY <1>0, <1>1 DEF BeginJob, RowsInv
  <2>2. /\ DOMAIN job' = {"kind", "todo", "client", "rivals"} /\ job'.kind # "none"
    <3>1. CASE BeginPages
      BY <3>1 DEF BeginPages
    <3>2. CASE BeginComparison
      <4>1. \E todo, client, rivals :
              job' = [kind |-> "compare", todo |-> todo, client |-> client, rivals |-> rivals]
        BY <3>2 DEF BeginComparison
      <4>. QED
        BY <4>1
    <3>. QED
      BY <1>1, <3>1, <3>2 DEF BeginJob
  <2>3. job' # Idle /\ JobInv'
    BY <2>2 DEF JobInv, Idle
  <2>4. RowsInv' /\ RollupsInv'
    BY <1>0, <2>1 DEF RowsInv, RollupsInv, Summarised, IsASeq
  <2>. QED
    BY <2>1, <2>3, <2>4 DEF AuditInv, BudgetInv, FoundInv, NoAudit
<1>2. CASE JobFails
  <2>1. job' = Idle /\ rows' = <<>> /\ cur' = NoAudit /\ UNCHANGED <<audits, rollups>>
    BY <1>2 DEF JobFails
  <2>2. RowsInv' /\ RollupsInv'
    BY <1>0, <2>1, SequencesBegin DEF RowsInv, RollupsInv, Summarised, IsASeq
  <2>. QED
    BY <2>1, <2>2 DEF AuditInv, JobInv, BudgetInv, FoundInv, NoAudit
<1>3. ASSUME UNCHANGED <<audits, rollups, job, rows, cur>>, cur = NoAudit
      PROVE  AuditInv'
  <2>1. RowsInv' /\ RollupsInv'
    BY <1>0, <1>3 DEF RowsInv, RollupsInv, Summarised, IsASeq
  <2>. QED
    BY <1>0, <1>3, <2>1 DEF AuditInv, JobInv, BudgetInv, FoundInv, NoAudit
<1>4. CASE FortnightPasses \/ \E c \in Revised : Deploy(c)
  BY <1>0, <1>3, <1>4 DEF FortnightPasses, Deploy, RowsInv
<1>5. CASE UNCHANGED auditVars
  <2>1. UNCHANGED <<audits, rollups, job, rows, cur, versions>>
    BY <1>5 DEF auditVars
  <2>2. RowsInv' /\ RollupsInv'
    BY <1>0, <2>1 DEF RowsInv, RollupsInv, Summarised, IsASeq
  <2>. QED
    BY <1>0, <2>1, <2>2 DEF AuditInv, JobInv, BudgetInv, FoundInv, NoAudit
<1>. QED
  BY <1>1, <1>2, <1>4, <1>5, StartKeeps, EvidenceKeeps, ClassifyKeeps, EndKeeps, CommitKeeps
  DEF AuditNext

\* What is stored is whole, what is under way is within its budget, and a
\* summary stands for its audits: an invariant.
THEOREM AuditInvariant == AuditSpec => []AuditInv
<1>1. AuditInit => AuditInv
  <2>. SUFFICES ASSUME AuditInit PROVE AuditInv
    OBVIOUS
  <2>1. job = Idle /\ rows = <<>> /\ cur = NoAudit /\ audits = <<>> /\ rollups = {}
    BY DEF AuditInit
  <2>2. RowsInv
    BY <2>1, SequencesBegin DEF RowsInv, IsASeq
  <2>. QED
    BY <2>1, <2>2 DEF AuditInv, JobInv, BudgetInv, FoundInv, RollupsInv, NoAudit
<1>2. AuditInv /\ [AuditNext]_auditVars => AuditInv'
  BY AuditStep
<1>. QED
  BY <1>1, <1>2, PTL DEF AuditSpec

-----------------------------------------------------------------------------
(* The properties *)

\* Whatever calls failed and wherever the cap was met, a done audit has a
\* finding for every check and the score they give, another has neither.
THEOREM DoneAuditsAreWhole == AuditSpec => []DoneIsWhole
<1>1. ASSUME AuditInv
      PROVE  DoneIsWhole
  <2>0. RowsInv
    BY <1>1 DEF AuditInv
  <2>1. Range(All) = Range(audits) \union Range(rows)
    BY <2>0, SequencesJoin DEF RowsInv, All
  <2>2. \A i \in DOMAIN All : Whole(All[i])
    BY <2>0, <2>1 DEF RowsInv, Range
  <2>. QED
    BY <2>2 DEF DoneIsWhole, Whole, Found
<1>. QED
  BY <1>1, AuditInvariant, PTL

\* The findings of a done audit, as the scores read them: the statuses stored.
LEMMA CleanIs ==
  ASSUME NEW row, row.status = "done", Whole(row), row.score # NoScore
  PROVE  /\ DOMAIN Validated(row.found) = Checks
         /\ \A c \in Checks : Validated(row.found)[c].status = row.found[c].status
         /\ Typed(Validated(row.found))
         /\ row.score = Pcr(Validated(row.found))
<1>0. /\ DOMAIN row.found = Checks
      /\ \A c \in Checks : Found(row.found[c], row.versions[c]) /\ row.found[c].status \in Statuses
      /\ row.score = RecomputeScores(row.found, row.graded).overall
  BY DEF Whole
<1>1. DOMAIN Validated(row.found) = Checks
  BY <1>0 DEF Validated
<1>2. ASSUME NEW c \in Checks
      PROVE  Validated(row.found)[c].status = row.found[c].status
  <2>1. "status" \in DOMAIN row.found[c] /\ row.found[c].status \in Statuses
    BY <1>0 DEF Found
  <2>2. Validated(row.found)[c]
          = [row.found[c] EXCEPT !.status = IF @ \in Statuses THEN @ ELSE "na"]
    BY <1>0 DEF Validated
  <2>. QED
    BY <2>1, <2>2
<1>3. Typed(Validated(row.found))
  BY <1>0, <1>1, <1>2 DEF Typed
<1>4. row.score = Pcr(Validated(row.found))
  BY <1>0 DEF RecomputeScores
<1>. QED
  BY <1>1, <1>2, <1>3, <1>4

\* A score that falls from one audit of a page to the next has one of five
\* causes, three of which the delta names: without them no check has fewer
\* points, none that had points is left out, and none comes in below a pass, so
\* that the mean of each section, and the mean of the sections, does not fall.
THEOREM FallsAreAccountedFor == AuditSpec => []FallIsAccountedFor
<1>1. ASSUME AuditInv, NEW i \in DOMAIN audits, NEW j \in DOMAIN audits,
             audits[i].status = "done", audits[j].status = "done",
             audits[i].score # NoScore, audits[j].score # NoScore,
             ScoreChange(audits[i], audits[j]) < 0
      PROVE  \/ Regressed(audits[i].found, audits[j].found) # {}
             \/ NewIssues(audits[i].found, audits[j].found) # {}
             \/ NonComparable(audits[i].found, audits[j].found) # {}
             \/ \E c \in Persisting(audits[i].found, audits[j].found) :
                  audits[i].found[c].status = "warn" /\ audits[j].found[c].status = "fail"
             \/ \E c \in Checks : /\ StatusIn(audits[i].found, c) \in {"pass", "warn"}
                                  /\ StatusIn(audits[j].found, c) \in Neutral
  <2>. DEFINE row == audits[i]
              next == audits[j]
              b == row.found
              a == next.found
  <2>1. Whole(row) /\ Whole(next)
    BY <1>1 DEF AuditInv, RowsInv, Range
  <2>2. /\ DOMAIN Validated(b) = Checks /\ Typed(Validated(b)) /\ row.score = Pcr(Validated(b))
        /\ \A c \in Checks : Validated(b)[c].status = b[c].status
    BY <1>1, <2>1, CleanIs
  <2>3. /\ DOMAIN Validated(a) = Checks /\ Typed(Validated(a)) /\ next.score = Pcr(Validated(a))
        /\ \A c \in Checks : Validated(a)[c].status = a[c].status
    BY <1>1, <2>1, CleanIs
  <2>4. /\ DOMAIN b = Checks /\ DOMAIN a = Checks
        /\ \A c \in Checks : b[c].status \in Statuses /\ a[c].status \in Statuses
    BY <1>1, <2>1 DEF Whole
  <2>. SUFFICES ASSUME Regressed(b, a) = {}, NewIssues(b, a) = {}, NonComparable(b, a) = {},
                       \A c \in Persisting(b, a) : ~(b[c].status = "warn" /\ a[c].status = "fail"),
                       \A c \in Checks : StatusIn(b, c) \in {"pass", "warn"} => StatusIn(a, c) \notin Neutral
                PROVE  FALSE
    OBVIOUS
  <2>5. row.score # NoScore /\ next.score # NoScore /\ ScoreChange(row, next) < 0
    BY <1>1
  <2>. HIDE DEF row, next, b, a
  <2>6. \A c \in Checks : StatusIn(b, c) = b[c].status /\ StatusIn(a, c) = a[c].status
    BY <2>4 DEF StatusIn
  <2>7. Comparable(b, a) = Checks
    BY <2>4 DEF Comparable
  <2>8. ASSUME NEW c \in Checks
        PROVE  /\ a[c].status \in Bad => b[c].status \in Bad
               /\ ~(b[c].status = "warn" /\ a[c].status = "fail")
               /\ b[c].status \in {"pass", "warn"} => a[c].status \in Judged
    <3>1. /\ ~(b[c].status = "pass" /\ a[c].status \in Bad)
          /\ ~(b[c].status \in Neutral /\ a[c].status \in Bad)
      BY <2>6, <2>7 DEF Regressed, NewIssues
    <3>2. b[c].status \in Bad /\ a[c].status \in Bad => c \in Persisting(b, a)
      BY <2>6, <2>7 DEF Persisting
    <3>3. b[c].status \in {"pass", "warn"} => a[c].status \notin Neutral
      BY <2>6
    <3>. QED
      BY <2>4, <3>1, <3>2, <3>3 DEF Statuses, Bad, Neutral, Judged, StatusPoints
  <2>9. NoWorse(Validated(b), Validated(a))
    <3>1. \A c \in Checks :
            /\ b[c].status \in Judged /\ a[c].status \in Judged
                 => StatusPoints[b[c].status] <= StatusPoints[a[c].status]
            /\ a[c].status \in Judged /\ b[c].status \notin Judged => a[c].status = "pass"
            /\ b[c].status \in Judged /\ a[c].status \notin Judged => b[c].status = "fail"
      BY <2>4, <2>8 DEF Statuses, Bad, Judged, StatusPoints
    <3>. QED
      BY <2>2, <2>3, <3>1 DEF NoWorse
  <2>10. Pcr(Validated(b)) <= Pcr(Validated(a)) /\ Within(Pcr(Validated(b))) /\ Within(Pcr(Validated(a)))
    BY <2>2, <2>3, <2>5, <2>9, PcrRises, PcrWithin
  <2>11. ScoreChange(row, next) = next.score - row.score
    BY <2>5 DEF ScoreChange
  <2>. QED
    BY <2>2, <2>3, <2>5, <2>10, <2>11 DEF Within
<1>2. AuditInv => FallIsAccountedFor
  <2>. SUFFICES ASSUME AuditInv PROVE FallIsAccountedFor
    OBVIOUS
  <2>. QED
    BY <1>1 DEF FallIsAccountedFor
<1>. QED
  BY <1>2, AuditInvariant, PTL

\* What an audit has booked is within the cap; what was paid beyond it is one
\* answer at most, and the requests without an answer that the retries of the
\* letters done with allow.
THEOREM BudgetsHold == AuditSpec => []UnbookedIsBounded
<1>1. AuditInv => UnbookedIsBounded
  BY DEF AuditInv, BudgetInv, WithinRetries, UnbookedIsBounded
<1>. QED
  BY <1>1, AuditInvariant, PTL

\* A check that fails on a page of a group is in the fix queue once.
LEMMA QueuedOnce ==
  ASSUME NEW group, NEW i \in DOMAIN group, NEW c \in DOMAIN group[i].found,
         Whole(group[i]), group[i].found[c].status = "fail",
         NEW fixes, fixes = FixQueue(group)
  PROVE  LET about == {e \in fixes : e.check = c}
         IN  /\ Cardinality(about) = 1
             /\ \A e \in about : i \in e.pages
                  \/ (e.scope = "sitewide" /\ group[i].score = NoScore)
<1>1. group[i].status = "done" /\ c \in Checks
  BY DEF Whole
<1>2. i \in Failing(group, c) /\ (i \in Graded(group) \/ group[i].score = NoScore)
  BY <1>1 DEF Failing, Graded
<1>. DEFINE about == {e \in fixes : e.check = c}
            sitewide == [check |-> c, scope |-> "sitewide",
                         pages |-> Failing(group, c) \intersect Graded(group)]
            local == [check |-> c, scope |-> "per_location", pages |-> Failing(group, c)]
<1>3. CASE c \in SitewideIds(group)
  <2>1. about = {sitewide}
    BY <1>3 DEF FixQueue
  <2>2. sitewide.pages = Failing(group, c) \intersect Graded(group) /\ sitewide.scope = "sitewide"
    OBVIOUS
  <2>. HIDE DEF sitewide, about
  <2>3. Cardinality(about) = 1
    BY <2>1, FS_Singleton
  <2>4. \A e \in about : i \in e.pages \/ (e.scope = "sitewide" /\ group[i].score = NoScore)
    BY <1>2, <2>1, <2>2
  <2>. QED
    BY <2>3, <2>4 DEF about
<1>4. CASE c \notin SitewideIds(group)
  <2>1. about = {local}
    BY <1>1, <1>2, <1>4 DEF FixQueue
  <2>2. local.pages = Failing(group, c)
    OBVIOUS
  <2>. HIDE DEF local, about
  <2>3. Cardinality(about) = 1
    BY <2>1, FS_Singleton
  <2>4. \A e \in about : i \in e.pages
    BY <1>2, <2>1, <2>2
  <2>. QED
    BY <2>3, <2>4 DEF about
<1>. QED
  BY <1>3, <1>4

\* No failing check of a group is dropped from its fix queue, but for the pages
\* without a grade of a check that is found sitewide.
THEOREM FailuresAreQueued == AuditSpec => []NoFailureDropped
<1>1. ASSUME AuditInv
      PROVE  NoFailureDropped
  <2>0. RowsInv /\ RollupsInv
    BY <1>1 DEF AuditInv
  <2>1. SUFFICES ASSUME NEW r \in rollups,
                        NEW group, group = [i \in DOMAIN r.members |-> audits[r.members[i]]],
                        NEW i \in DOMAIN group, NEW c \in DOMAIN group[i].found,
                        group[i].found[c].status = "fail"
                 PROVE  LET about == {e \in r.rollup.queue : e.check = c}
                        IN  /\ Cardinality(about) = 1
                            /\ \A e \in about : i \in e.pages
                                 \/ (e.scope = "sitewide" /\ group[i].score = NoScore)
    BY ZenonT(60) DEF NoFailureDropped
  <2>2. r.rollup.queue = FixQueue(group)
    BY <2>0, <2>1 DEF RollupsInv, Summarised
  <2>3. group[i] \in Range(audits)
    <3>1. r.members[i] \in 1 .. Len(audits) /\ group[i] = audits[r.members[i]]
      BY <2>0, <2>1 DEF RollupsInv, Summarised
    <3>2. DOMAIN audits = 1 .. Len(audits)
      BY <2>0 DEF RowsInv, IsASeq
    <3>. QED
      BY <3>1, <3>2 DEF Range
  <2>4. Whole(group[i])
    BY <2>0, <2>3 DEF RowsInv
  <2>. QED
    BY <2>1, <2>2, <2>4, QueuedOnce
<1>. QED
  BY <1>1, AuditInvariant, PTL
-----------------------------------------------------------------------------
(* The walk through the sitemaps *)

Waiting == {v.file : v \in Range(pending)}

\* A visit is due at a depth, of a file the site has.
SitemapTyped ==
  /\ site \in SitemapSites /\ seen \subseteq DOMAIN site /\ truncated \in BOOLEAN
  /\ IsASeq(roots) /\ Range(roots) \subseteq DOMAIN site
  /\ IsASeq(pending) /\ Waiting \subseteq DOMAIN site
  /\ \A v \in Range(pending) : v.depth \in Nat

\* What is left out is seen, waits, or has been owned up to.
NothingLost ==
  truncated = FALSE =>
    /\ Range(roots) \subseteq seen \union Waiting
    /\ \A f \in seen : Sub(f) \subseteq seen \union Waiting

\* The pages of every file that was read are kept, and none before there is one.
PagesKept ==
  /\ \A f \in seen : site[f].kind = "urlset" =>
       \A p \in site[f].pages : [file |-> f, page |-> p] \in entries
  /\ roots = <<>> => pending = <<>> /\ entries = {}

SitemapInv == SitemapTyped /\ NothingLost /\ PagesKept

\* Sequences of files are sequences.
LEMMA SequencesAre ==
  ASSUME NEW S, NEW s \in Seq(S)
  PROVE  /\ IsASeq(s) /\ Range(s) \subseteq S /\ ToSet(s) = Range(s)
         /\ DOMAIN s = 1 .. Len(s) /\ Len(s) \in Nat
<1>1. DOMAIN s = 1 .. Len(s) /\ Len(s) \in Nat /\ \A i \in 1 .. Len(s) : s[i] \in S
  OBVIOUS
<1>2. s \in Seq(Range(s))
  BY <1>1 DEF Range
<1>. QED
  BY <1>1, <1>2 DEF IsASeq, Range, ToSet


\* The declared sitemaps, each once, can be collected line by line.
Collects(f, declared) ==
  f = [n \in 0 .. Len(declared) |->
         IF n = 0 THEN <<>>
         ELSE IF declared[n] \in ToSet(f[n-1]) THEN f[n-1] ELSE Append(f[n-1], declared[n])]

\* For every length there is such a collection.
LEMMA CollectionExists ==
  ASSUME NEW S, NEW declared \in Seq(S)
  PROVE  \E f : Collects(f, declared)
<1>. DEFINE N == Len(declared)
            Next1(s, n) == IF declared[n] \in ToSet(s) THEN s ELSE Append(s, declared[n])
            Upto(f, k) == f = [n \in 0 .. k |-> IF n = 0 THEN <<>> ELSE Next1(f[n-1], n)]
            Wrong == {k \in 0 .. N : ~ \E f : Upto(f, k)}
<1>0. N \in Nat
  OBVIOUS
<1>. HIDE DEF Next1
<1>1. Wrong = {}
  <2>. SUFFICES ASSUME Wrong # {} PROVE FALSE
    OBVIOUS
  <2>0. Wrong \subseteq Nat
    BY <1>0
  <2>1. PICK m \in Wrong : \A k \in Wrong : m <= k
    <3>. HIDE DEF Wrong
    <3>. QED
      BY <2>0, LeastNumber
  <2>2. m # 0
    <3>. DEFINE z == [n \in 0 .. 0 |-> <<>>]
    <3>1. Upto(z, 0)
      OBVIOUS
    <3>. QED
      BY <3>1
  <2>. HIDE DEF Upto
  <2>7. m \in 0 .. N
    OBVIOUS
  <2>8. m - 1 \in 0 .. N /\ m \in Nat /\ ~(m <= m - 1)
    BY <1>0, <2>2, <2>7
  <2>3. m - 1 \in 0 .. N /\ m - 1 \notin Wrong /\ m \in Nat
    <3>. HIDE DEF Wrong
    <3>. QED
      BY <2>1, <2>8
  <2>4. PICK f : Upto(f, m - 1)
    BY <2>3
  <2>. USE DEF Upto
  <2>. DEFINE g == [n \in 0 .. m |-> IF n = m THEN Next1(f[m-1], m) ELSE f[n]]
  <2>5. \A n \in 0 .. m : g[n] = IF n = 0 THEN <<>> ELSE Next1(g[n-1], n)
    <3>. SUFFICES ASSUME NEW n \in 0 .. m
                  PROVE  g[n] = IF n = 0 THEN <<>> ELSE Next1(g[n-1], n)
      OBVIOUS
    <3>1. CASE n = m
      BY <2>2, <2>3, <3>1
    <3>2. CASE n # m
      BY <2>2, <2>3, <2>4, <3>2
    <3>. QED
      BY <3>1, <3>2
  <2>6. Upto(g, m)
    <3>. HIDE DEF Next1
    <3>1. g = [n \in 0 .. m |-> g[n]]
      OBVIOUS
    <3>2. [n \in 0 .. m |-> g[n]] = [n \in 0 .. m |-> IF n = 0 THEN <<>> ELSE Next1(g[n-1], n)]
      <4>. HIDE DEF g
      <4>. QED
        BY <2>5
    <3>. QED
      BY <3>1, <3>2
  <2>. QED
    BY <2>1, <2>6
<1>2. PICK f : Upto(f, N)
  BY <1>0, <1>1
<1>. QED
  BY <1>2 DEF Next1, Collects

\* What is discovered is a sequence of the site's files.
LEMMA DiscoveredAre ==
  ASSUME NEW in \in SitemapSites, NEW declared \in Declarations
  PROVE  Discover(in, declared) \in Seq(DOMAIN in)
<1>. DEFINE F == DOMAIN in
            f == CHOOSE g : Collects(g, declared)
            Wrong == {n \in 0 .. Len(declared) : f[n] \notin Seq(F)}
<1>1. declared \in Seq(F) /\ Len(declared) \in Nat /\ DefaultSitemap \in F /\ IndexSitemap \in F
  BY SitemapAssumption
<1>2. Collects(f, declared)
  BY <1>1, CollectionExists
<1>. HIDE DEF f
<1>3. \A n \in 0 .. Len(declared) :
         f[n] = IF n = 0 THEN <<>>
                ELSE IF declared[n] \in ToSet(f[n-1]) THEN f[n-1] ELSE Append(f[n-1], declared[n])
  BY <1>2 DEF Collects
<1>6. f[0] = <<>>
  BY <1>1, <1>3
<1>7. \A n \in 1 .. Len(declared) : f[n] = f[n-1] \/ f[n] = Append(f[n-1], declared[n])
  <2>. SUFFICES ASSUME NEW n \in 1 .. Len(declared)
                PROVE  f[n] = f[n-1] \/ f[n] = Append(f[n-1], declared[n])
    OBVIOUS
  <2>1. n \in 0 .. Len(declared) /\ n # 0
    BY <1>1
  <2>. QED
    BY <1>3, <2>1
<1>9. <<>> \in Seq(F) /\ \A s \in Seq(F), e \in F : Append(s, e) \in Seq(F)
  OBVIOUS
<1>4. Wrong = {}
  <2>. SUFFICES ASSUME Wrong # {} PROVE FALSE
    OBVIOUS
  <2>0. Wrong \subseteq Nat
    BY <1>1
  <2>1. PICK m \in Wrong : \A k \in Wrong : m <= k
    <3>. HIDE DEF Wrong
    <3>. QED
      BY <2>0, LeastNumber
  <2>5. m \in 0 .. Len(declared) /\ f[m] \notin Seq(F)
    OBVIOUS
  <2>. HIDE DEF F
  <2>2. m # 0
    BY <1>6, <1>9, <2>5
  <2>6. m - 1 \in 0 .. Len(declared) /\ m \in 1 .. Len(declared) /\ ~(m <= m - 1)
    BY <1>1, <2>2, <2>5
  <2>7. m - 1 \notin Wrong
    <3>. HIDE DEF Wrong
    <3>. QED
      BY <2>1, <2>6
  <2>3. f[m - 1] \in Seq(F) /\ declared[m] \in F
    BY <1>1, <2>6, <2>7
  <2>4. f[m] \in Seq(F)
    BY <1>7, <1>9, <2>3, <2>6
  <2>. QED
    BY <2>1, <2>4
<1>5. f[Len(declared)] \in Seq(F)
  BY <1>1, <1>4
<1>8. Discover(in, declared) =
        IF declared # <<>> THEN f[Len(declared)]
        ELSE IF in[DefaultSitemap].kind # "down" THEN <<DefaultSitemap>>
        ELSE IF in[IndexSitemap].kind # "down" THEN <<IndexSitemap>> ELSE <<>>
  BY DEF Discover, f, Collects
<1>. HIDE DEF F
<1>10. <<DefaultSitemap>> \in Seq(F) /\ <<IndexSitemap>> \in Seq(F)
  BY <1>1
<1>11. Discover(in, declared) \in Seq(F)
  BY <1>5, <1>8, <1>9, <1>10
<1>. QED
  BY <1>11 DEF F

\* The visits of a list of files: each file on it, or the first ones and then
\* there were too many.
LEMMA VisitsAre ==
  ASSUME NEW S, NEW files \in Seq(S), NEW depth
  PROVE  /\ IsASeq(Visits(files, depth))
         /\ \A v \in Range(Visits(files, depth)) : v.file \in Range(files) /\ v.depth = depth
         /\ ~(Len(files) > MAX_SUBSITEMAPS_PER_INDEX) =>
              \A f \in Range(files) : \E v \in Range(Visits(files, depth)) : v.file = f
<1>. DEFINE n == Min({Len(files), MAX_SUBSITEMAPS_PER_INDEX})
            vs == Visits(files, depth)
<1>1. Len(files) \in Nat /\ MAX_SUBSITEMAPS_PER_INDEX \in Nat /\ DOMAIN files = 1 .. Len(files)
  BY SitemapAssumption
<1>2. n \in {Len(files), MAX_SUBSITEMAPS_PER_INDEX} /\ n <= Len(files)
  <2>1. \E x \in {Len(files), MAX_SUBSITEMAPS_PER_INDEX} :
          \A y \in {Len(files), MAX_SUBSITEMAPS_PER_INDEX} : x <= y
    BY <1>1
  <2>. QED
    BY <1>1, <2>1 DEF Min
<1>3. ~(Len(files) > MAX_SUBSITEMAPS_PER_INDEX) => n = Len(files)
  <2>1. \A y \in {Len(files), MAX_SUBSITEMAPS_PER_INDEX} : n <= y
    <3>1. \E x \in {Len(files), MAX_SUBSITEMAPS_PER_INDEX} :
            \A y \in {Len(files), MAX_SUBSITEMAPS_PER_INDEX} : x <= y
      BY <1>1
    <3>. QED
      BY <1>1, <3>1 DEF Min
  <2>. QED
    BY <1>1, <1>2, <2>1
<1>. HIDE DEF n
<1>4. n \in Nat /\ n <= Len(files)
  BY <1>1, <1>2
<1>5. DOMAIN Kept(files) = 1 .. n
  <2>1. Kept(files) = SubSeq(files, 1, n)
    BY DEF Kept, n
  <2>. QED
    BY <1>1, <1>4, <2>1
<1>6. vs = [i \in 1 .. n |-> [file |-> files[i], depth |-> depth]]
  BY <1>5 DEF Visits
<1>. HIDE DEF vs
<1>11. DOMAIN vs = 1 .. n /\ \A i \in 1 .. n : vs[i].file = files[i] /\ vs[i].depth = depth
  BY <1>6
<1>12. \A i \in 1 .. n : vs[i] \in Range(vs)
  BY <1>11 DEF Range
<1>13. vs \in Seq(Range(vs)) /\ Len(vs) = n
  <2>1. vs = [i \in 1 .. n |-> vs[i]]
    BY <1>6
  <2>. QED
    BY <1>4, <1>12, <2>1
<1>7. /\ DOMAIN vs = 1 .. n
      /\ \A i \in 1 .. n : vs[i].file = files[i] /\ vs[i].depth = depth /\ vs[i] \in Range(vs)
      /\ vs \in Seq(Range(vs))
  BY <1>11, <1>12, <1>13
<1>8. \A i \in 1 .. n : files[i] \in Range(files)
  BY <1>1, <1>4 DEF Range
<1>9. \A v \in Range(vs) : v.file \in Range(files) /\ v.depth = depth
  BY <1>7, <1>8 DEF Range
<1>10. n = Len(files) => \A f \in Range(files) : \E v \in Range(vs) : v.file = f
  BY <1>1, <1>7 DEF Range
<1>. QED
  BY <1>3, <1>7, <1>9, <1>10 DEF IsASeq, vs

\* Without its first element, a sequence holds all the others.
LEMMA SequencesGoOn ==
  ASSUME NEW s, IsASeq(s), s # <<>>
  PROVE  /\ IsASeq(Tail(s)) /\ Head(s) \in Range(s)
         /\ Range(s) = {Head(s)} \union Range(Tail(s))
<1>. DEFINE T == Range(s)
<1>1. s \in Seq(T) /\ Len(s) \in Nat \ {0} /\ DOMAIN s = 1 .. Len(s)
  BY DEF IsASeq
<1>2. /\ Tail(s) \in Seq(T) /\ Len(Tail(s)) = Len(s) - 1 /\ DOMAIN Tail(s) = 1 .. Len(s) - 1
      /\ \A i \in 1 .. Len(s) - 1 : Tail(s)[i] = s[i + 1]
      /\ Head(s) = s[1]
  BY <1>1
<1>3. \A x \in Range(Tail(s)) : x \in T
  BY <1>1, <1>2, SequencesAre
<1>4. \A x \in T : x = Head(s) \/ x \in Range(Tail(s))
  <2>. SUFFICES ASSUME NEW i \in 1 .. Len(s), i # 1
                PROVE  s[i] \in Range(Tail(s))
    BY <1>1, <1>2 DEF Range
  <2>1. i - 1 \in DOMAIN Tail(s) /\ Tail(s)[i - 1] = s[i]
    BY <1>1, <1>2
  <2>. QED
    BY <2>1 DEF Range
<1>5. Head(s) \in T
  BY <1>1, <1>2 DEF Range
<1>6. IsASeq(Tail(s))
  BY <1>2, SequencesAre
<1>. QED
  BY <1>3, <1>4, <1>5, <1>6

\* What the next file lists is among the site's files, and it is one itself.
LEMMA NextIs ==
  ASSUME SitemapInv, pending # <<>>
  PROVE  /\ NextFile.file \in Waiting /\ NextFile.file \in DOMAIN site /\ NextFile.depth \in Nat
         /\ IsASeq(Tail(pending)) /\ Range(pending) = {NextFile} \union Range(Tail(pending))
         /\ \A v \in Range(Tail(pending)) : v.file \in DOMAIN site /\ v.depth \in Nat
<1>1. /\ IsASeq(Tail(pending)) /\ NextFile \in Range(pending)
      /\ Range(pending) = {NextFile} \union Range(Tail(pending))
  BY SequencesGoOn DEF SitemapInv, SitemapTyped, NextFile
<1>. QED
  BY <1>1 DEF SitemapInv, SitemapTyped, Waiting

\* Every step keeps the invariant.
LEMMA SitemapStep ==
  ASSUME SitemapInv, [SitemapNext]_sitemapVars
  PROVE  SitemapInv'
<1>1. CASE UNCHANGED sitemapVars
  BY <1>1 DEF sitemapVars, SitemapInv, SitemapTyped, NothingLost, PagesKept, Waiting, Sub
<1>2. ASSUME pending # <<>>, pending' = Tail(pending), UNCHANGED <<site, roots>>,
             seen' = seen \union {NextFile.file} \/ (seen' = seen /\ NextFile.file \in seen)
               \/ (seen' = seen /\ truncated' # FALSE),
             truncated' \in BOOLEAN, truncated' = FALSE => truncated = FALSE,
             NextFile.file \in seen' \ seen => Sub(NextFile.file) = {}
      PROVE  SitemapTyped' /\ NothingLost' /\ (roots' = <<>> => pending' = <<>>)
  <2>1. /\ NextFile.file \in DOMAIN site
        /\ IsASeq(Tail(pending)) /\ Range(pending) = {NextFile} \union Range(Tail(pending))
        /\ \A v \in Range(Tail(pending)) : v.file \in DOMAIN site /\ v.depth \in Nat
    BY <1>2, NextIs
  <2>2. Waiting = Waiting' \union {NextFile.file}
    BY <1>2, <2>1 DEF Waiting
  <2>3. SitemapTyped'
    BY <1>2, <2>1 DEF SitemapInv, SitemapTyped, Waiting
  <2>4. ASSUME truncated' = FALSE PROVE Waiting \union seen \subseteq Waiting' \union seen'
    BY <1>2, <2>2, <2>4
  <2>5. NothingLost'
    <3>. SUFFICES ASSUME truncated' = FALSE
                  PROVE  /\ Range(roots) \subseteq seen' \union Waiting'
                         /\ \A f \in seen' : Sub(f) \subseteq seen' \union Waiting'
      BY <1>2 DEF NothingLost, Sub
    <3>1. Range(roots) \subseteq seen' \union Waiting'
      BY <1>2, <2>4 DEF SitemapInv, NothingLost
    <3>2. \A f \in seen : Sub(f) \subseteq seen' \union Waiting'
      BY <1>2, <2>4 DEF SitemapInv, NothingLost
    <3>3. \A f \in seen' \ seen : Sub(f) = {}
      BY <1>2
    <3>. QED
      BY <3>1, <3>2, <3>3
  <2>6. roots' # <<>>
    BY <1>2 DEF SitemapInv, PagesKept
  <2>. QED
    BY <2>3, <2>5, <2>6
<1>3. CASE Skip
  <2>1. NextFile.file \in seen \/ NextFile.depth > MAX_INDEX_DEPTH
    BY <1>3, NextIs, SitemapAssumption DEF Skip, Fresh
  <2>5. truncated \in BOOLEAN
    BY DEF SitemapInv, SitemapTyped
  <2>3. truncated' \in BOOLEAN /\ (truncated' = FALSE => truncated = FALSE)
    BY <1>3, <2>5 DEF Skip, TooDeep
  <2>4. NextFile.file \in seen \/ truncated' # FALSE
    BY <1>3, <2>1 DEF Skip, TooDeep
  <2>2. SitemapTyped' /\ NothingLost' /\ (roots' = <<>> => pending' = <<>>)
    BY <1>2, <1>3, <2>3, <2>4 DEF Skip
  <2>. QED
    BY <1>3, <2>2 DEF SitemapInv, PagesKept, Skip
<1>4. CASE VisitUnreadable
  <2>1. Sub(NextFile.file) = {} /\ site[NextFile.file].kind # "urlset"
    BY <1>4 DEF VisitUnreadable, Visit, Sub
  <2>3. truncated \in BOOLEAN
    BY DEF SitemapInv, SitemapTyped
  <2>2. SitemapTyped' /\ NothingLost' /\ (roots' = <<>> => pending' = <<>>)
    BY <1>2, <1>4, <2>1, <2>3 DEF VisitUnreadable, Visit, Fresh
  <2>. QED
    BY <1>4, <2>1, <2>2 DEF SitemapInv, PagesKept, VisitUnreadable, Visit, Fresh
<1>5. CASE VisitUrlset
  <2>1. Sub(NextFile.file) = {}
    BY <1>5 DEF VisitUrlset, Visit, Sub
  <2>4. truncated \in BOOLEAN
    BY DEF SitemapInv, SitemapTyped
  <2>2. SitemapTyped' /\ NothingLost' /\ (roots' = <<>> => pending' = <<>>)
    BY <1>2, <1>5, <2>1, <2>4 DEF VisitUrlset, Visit, Fresh
  <2>3. roots # <<>>
    BY <1>5 DEF VisitUrlset, Visit, Fresh, SitemapInv, PagesKept
  <2>. QED
    BY <1>5, <2>2, <2>3 DEF SitemapInv, PagesKept, VisitUrlset, Visit
<1>6. CASE VisitIndex
  <2>. DEFINE f == NextFile.file
              subs == site[f].files
              vs == Visits(subs, NextFile.depth + 1)
  <2>1. /\ f \in DOMAIN site /\ site \in SitemapSites /\ NextFile.depth \in Nat
        /\ IsASeq(Tail(pending)) /\ Range(pending) = {NextFile} \union Range(Tail(pending))
        /\ \A v \in Range(Tail(pending)) : v.file \in DOMAIN site /\ v.depth \in Nat
    BY <1>6, NextIs DEF VisitIndex, Visit, Fresh, SitemapInv, SitemapTyped
  <2>2. /\ pending # <<>> /\ site[f].kind = "index" /\ seen' = seen \union {f}
        /\ pending' = vs \o Tail(pending) /\ UNCHANGED <<site, roots, entries, errors>>
        /\ truncated' = (truncated \/ Len(subs) > MAX_SUBSITEMAPS_PER_INDEX)
    BY <1>6 DEF VisitIndex, Visit, Fresh
  <2>3. subs \in Seq(DOMAIN site)
    BY <2>1, <2>2, SitemapAssumption
  <2>4. /\ IsASeq(vs) /\ \A v \in Range(vs) : v.file \in Range(subs) /\ v.depth \in Nat
        /\ ~(Len(subs) > MAX_SUBSITEMAPS_PER_INDEX) =>
             \A g \in Range(subs) : \E v \in Range(vs) : v.file = g
    BY <2>1, <2>3, VisitsAre
  <2>5. Range(subs) \subseteq DOMAIN site /\ Sub(f) = Range(subs)
    BY <2>2, <2>3, SequencesAre DEF Sub
  <2>. HIDE DEF vs, subs
  <2>6. IsASeq(pending') /\ Range(pending') = Range(vs) \union Range(Tail(pending))
    BY <2>1, <2>2, <2>4, SequencesJoin
  <2>7. SitemapTyped'
    BY <2>1, <2>2, <2>4, <2>5, <2>6 DEF SitemapInv, SitemapTyped, Waiting
  <2>8. Waiting \union seen \subseteq Waiting' \union seen'
    BY <2>1, <2>2, <2>6 DEF Waiting
  <2>9. NothingLost'
    <3>. SUFFICES ASSUME truncated' = FALSE
                  PROVE  /\ Range(roots) \subseteq seen' \union Waiting'
                         /\ \A g \in seen' : Sub(g) \subseteq seen' \union Waiting'
      BY <2>2 DEF NothingLost, Sub
    <3>1. ~(Len(subs) > MAX_SUBSITEMAPS_PER_INDEX) /\ ~truncated
      BY <2>2
    <3>2. Range(subs) \subseteq Waiting'
      BY <2>4, <2>6, <3>1 DEF Waiting
    <3>3. truncated = FALSE
      BY <3>1
    <3>. QED
      BY <2>2, <2>5, <2>8, <3>2, <3>3 DEF SitemapInv, NothingLost
  <2>10. PagesKept'
    BY <2>2 DEF SitemapInv, PagesKept
  <2>. QED
    BY <2>7, <2>9, <2>10 DEF SitemapInv
<1>. QED
  BY <1>1, <1>3, <1>4, <1>5, <1>6 DEF SitemapNext

\* No file is lost on the walk: an invariant.
THEOREM SitemapInvariant == SitemapSpec => []SitemapInv
<1>1. SitemapInit => SitemapInv
  <2>. SUFFICES ASSUME SitemapInit PROVE SitemapInv
    OBVIOUS
  <2>1. PICK declared \in Declarations : roots = Discover(site, declared)
    BY DEF SitemapInit
  <2>2. /\ site \in SitemapSites /\ pending = Visits(roots, 0) /\ seen = {} /\ entries = {}
        /\ truncated = (Len(roots) > MAX_SUBSITEMAPS_PER_INDEX)
    BY DEF SitemapInit
  <2>3. roots \in Seq(DOMAIN site)
    BY <2>1, <2>2, DiscoveredAre
  <2>4. IsASeq(roots) /\ Range(roots) \subseteq DOMAIN site
    BY <2>3, SequencesAre
  <2>5. /\ IsASeq(pending) /\ \A v \in Range(pending) : v.file \in Range(roots) /\ v.depth \in Nat
        /\ ~(Len(roots) > MAX_SUBSITEMAPS_PER_INDEX) =>
             \A f \in Range(roots) : \E v \in Range(pending) : v.file = f
    BY <2>2, <2>3, VisitsAre
  <2>6. SitemapTyped
    BY <2>2, <2>4, <2>5 DEF SitemapTyped, Waiting
  <2>7. NothingLost
    BY <2>2, <2>5 DEF NothingLost, Waiting
  <2>8. roots = <<>> => pending = <<>>
    <3>. SUFFICES ASSUME roots = <<>>, pending # <<>> PROVE FALSE
      OBVIOUS
    <3>1. Range(roots) = {}
      BY SequencesBegin
    <3>2. Head(pending) \in Range(pending)
      BY <2>5, SequencesGoOn
    <3>. QED
      BY <2>5, <3>1, <3>2
  <2>. QED
    BY <2>2, <2>6, <2>7, <2>8 DEF SitemapInv, PagesKept
<1>2. SitemapInv /\ [SitemapNext]_sitemapVars => SitemapInv'
  BY SitemapStep
<1>. QED
  BY <1>1, <1>2, PTL DEF SitemapSpec

\* A page is said to be missing only if it is in none of the sitemaps, a walk
\* passes only if it owns up to what it left out, and what is shielded from
\* robots is not graded as dead.
THEOREM MissingPagesAreMissing == SitemapSpec => []MissingMeansMissing
<1>1. SitemapInv => MissingMeansMissing
  <2>. SUFFICES ASSUME SitemapInv, pending = <<>>, NEW sample \in Samples
                PROVE  LET checks == InspectSitemap(sample) IN
                       /\ (roots # <<>> /\ checks.target = "fail" /\ errors = {}) =>
                            \A f \in Reachable : site[f].kind = "urlset" =>
                              Target \notin {p.name : p \in site[f].pages}
                       /\ checks.reachable = "pass" => errors = {} /\ (truncated \/ Reachable \subseteq seen)
                       /\ (entries # {} /\ \A e \in sample : e.page.answer # "dead")
                            => checks.sampled # "fail"
    BY DEF MissingMeansMissing
  <2>. DEFINE checks == InspectSitemap(sample)
  <2>1. ASSUME ~truncated PROVE Reachable \subseteq seen
    <3>1. Waiting = {}
      BY SequencesBegin DEF Waiting
    <3>2. truncated = FALSE /\ ToSet(roots) = Range(roots) /\ seen \in SUBSET DOMAIN site
      BY <2>1, SequencesAre DEF SitemapInv, SitemapTyped, IsASeq
    <3>3. Closed(seen)
      BY <3>1, <3>2 DEF SitemapInv, NothingLost, Closed
    <3>. QED
      BY <3>2, <3>3 DEF Reachable
  <2>2. ASSUME roots # <<>>, checks.target = "fail"
        PROVE  \A f \in Reachable : site[f].kind = "urlset" =>
                 Target \notin {p.name : p \in site[f].pages}
    <3>1. Target \notin Listed /\ ~truncated
      BY <2>2 DEF InspectSitemap
    <3>2. SUFFICES ASSUME NEW f \in seen, site[f].kind = "urlset", NEW p \in site[f].pages
                   PROVE  p.name # Target
      BY <2>1, <3>1
    <3>3. [file |-> f, page |-> p] \in entries
      BY <3>2 DEF SitemapInv, PagesKept
    <3>4. p.name \in Listed
      BY <3>3 DEF Listed
    <3>. QED
      BY <3>1, <3>4
  <2>3. ASSUME checks.reachable = "pass" PROVE errors = {} /\ (truncated \/ Reachable \subseteq seen)
    BY <2>1, <2>3 DEF InspectSitemap
  <2>4. ASSUME entries # {}, \A e \in sample : e.page.answer # "dead"
        PROVE  checks.sampled # "fail"
    <3>1. roots # <<>>
      BY <2>4 DEF SitemapInv, PagesKept
    <3>2. {e \in sample : e.page.answer = "dead"} = {}
      BY <2>4
    <3>3. Cardinality({e \in sample : e.page.answer = "dead"}) = 0
      BY <3>2, FS_EmptySet
    <3>4. SampleGrade(sample) # "fail"
      BY <3>3 DEF SampleGrade
    <3>. QED
      BY <3>1, <3>4 DEF InspectSitemap
  <2>. QED
    BY <2>2, <2>3, <2>4
<1>. QED
  BY <1>1, SitemapInvariant, PTL

-----------------------------------------------------------------------------
(* robots.txt: the groups that the parser makes of the lines *)

Tokens       == {line.token : line \in {x \in RobotsLines : x.kind = "user-agent"}}
AccessLines  == {line \in RobotsLines : line.kind \in {"allow", "disallow"}}
Groups       == [agents : Seq(Tokens), rules : Seq(AccessLines)]

\* An agent line whose group can get no more rules.
Cut(m) == \E i \in Rules, j \in DOMAIN lines : m < i /\ i < j /\ lines[j].kind = "user-agent"
Open   == {m \in Agents : ~Cut(m)}

\* The rules that an agent line heads.
HeadedBy(m) == {lines[n] : n \in {k \in Rules : lines[k].kind # "crawl-delay" /\ Heads(m, k)}}

\* The group under way is that of the open agent lines: it takes another agent
\* as long as no rule has come behind one of them.
OpenGroupInv ==
  /\ ToSet(parser.agents) = {lines[m].token : m \in Open}
  /\ \A m \in Open : /\ ToSet(parser.rules) = HeadedBy(m)
                     /\ parser.lastWasAgent <=> ~\E i \in Rules : m < i
  /\ Open = {} => parser.rules = <<>>

\* The groups that are finished are those of the other agent lines.
ClosedGroupsInv ==
  /\ \A g \in ToSet(parser.groups) : \A t \in ToSet(g.agents) :
       \E m \in Agents \ Open : lines[m].token = t /\ ToSet(g.rules) = HeadedBy(m)
  /\ \A m \in Agents \ Open : \E g \in ToSet(parser.groups) :
       lines[m].token \in ToSet(g.agents) /\ ToSet(g.rules) = HeadedBy(m)

ParserInv ==
  /\ lines \in Seq(RobotsLines)
  /\ parser \in [groups : Seq(Groups), agents : Seq(Tokens), rules : Seq(AccessLines),
                 lastWasAgent : BOOLEAN]
  /\ OpenGroupInv /\ ClosedGroupsInv

\* What one line more makes of the rules, the agents and what they head.
LEMMA LinesGrow ==
  ASSUME NEW line \in RobotsLines, lines \in Seq(RobotsLines), lines' = Append(lines, line),
         NEW N, N = Len(lines) + 1
  PROVE  /\ lines' \in Seq(RobotsLines) /\ N \notin Agents
         /\ lines'[N] = line /\ \A m \in Agents : lines'[m] = lines[m]
         /\ Agents' = Agents \union
              (IF line.kind = "user-agent" /\ line.token # <<>> THEN {N} ELSE {})
         /\ \A m \in Agents : (\E i \in Rules' : m < i) <=>
              \/ \E i \in Rules : m < i
              \/ line.kind \in {"allow", "disallow", "crawl-delay"}
         /\ \A m \in Agents : Cut(m)' <=> \/ Cut(m)
                                          \/ line.kind = "user-agent" /\ \E i \in Rules : m < i
         /\ ~Cut(N)' /\ ~\E i \in Rules' : N < i
         /\ HeadedBy(N)' = {}
         /\ \A m \in Agents : HeadedBy(m)' = HeadedBy(m) \union
              (IF line.kind \in {"allow", "disallow"} /\ ~Cut(m) THEN {line} ELSE {})
<1>1. /\ N \in Nat /\ lines' \in Seq(RobotsLines) /\ DOMAIN lines = 1 .. N - 1
      /\ DOMAIN lines' = (1 .. N - 1) \union {N}
      /\ \A i \in 1 .. N - 1 : lines'[i] = lines[i]
      /\ lines'[N] = line
  <2>1. /\ Len(lines) \in Nat /\ Append(lines, line) \in Seq(RobotsLines)
        /\ DOMAIN lines = 1 .. Len(lines)
        /\ DOMAIN Append(lines, line) = 1 .. (Len(lines) + 1)
        /\ \A i \in 1 .. Len(lines) : Append(lines, line)[i] = lines[i]
        /\ Append(lines, line)[Len(lines) + 1] = line
    OBVIOUS
  <2>2. 1 .. (Len(lines) + 1) = (1 .. Len(lines)) \union {Len(lines) + 1} /\ N - 1 = Len(lines)
    BY <2>1
  <2>. QED
    BY <2>1, <2>2
<1>2. \A i \in 1 .. N - 1 : i \in Nat /\ i < N /\ ~(N < i) /\ i # N
  BY <1>1
<1>3. /\ Rules \subseteq 1 .. N - 1 /\ Agents \subseteq 1 .. N - 1
      /\ Rules' = Rules \union
           (IF line.kind \in {"allow", "disallow", "crawl-delay"} THEN {N} ELSE {})
      /\ Agents' = Agents \union
           (IF line.kind = "user-agent" /\ line.token # <<>> THEN {N} ELSE {})
  BY <1>1, <1>2 DEF Rules, Agents
<1>4. \A m \in Agents : (\E i \in Rules' : m < i) <=>
        (\E i \in Rules : m < i) \/ line.kind \in {"allow", "disallow", "crawl-delay"}
  BY <1>2, <1>3
<1>5. ASSUME NEW m \in Agents
      PROVE  Cut(m)' <=> Cut(m) \/ (line.kind = "user-agent" /\ \E i \in Rules : m < i)
  <2>1. ASSUME Cut(m) PROVE Cut(m)'
    BY <1>1, <1>3, <2>1 DEF Cut
  <2>2. ASSUME line.kind = "user-agent", NEW i \in Rules, m < i PROVE Cut(m)'
    <3>1. i < N /\ i \in Rules' /\ N \in DOMAIN lines' /\ lines'[N].kind = "user-agent"
      BY <1>1, <1>2, <1>3, <2>2
    <3>. QED
      BY <2>2, <3>1 DEF Cut
  <2>3. ASSUME NEW i \in Rules', NEW j \in DOMAIN lines', m < i, i < j,
               lines'[j].kind = "user-agent"
        PROVE  Cut(m) \/ (line.kind = "user-agent" /\ \E k \in Rules : m < k)
    <3>1. i # N /\ i \in Rules
      BY <1>1, <1>2, <1>3, <2>3
    <3>2. CASE j = N
      BY <1>1, <2>3, <3>1, <3>2
    <3>3. CASE j # N
      <4>1. j \in DOMAIN lines /\ lines[j].kind = "user-agent"
        BY <1>1, <2>3, <3>3
      <4>. QED
        BY <2>3, <3>1, <4>1 DEF Cut
    <3>. QED
      BY <3>2, <3>3
  <2>4. Cut(m)' => Cut(m) \/ (line.kind = "user-agent" /\ \E k \in Rules : m < k)
    BY <2>3 DEF Cut
  <2>. QED
    BY <2>1, <2>2, <2>4
<1>6. ~\E i \in Rules' : N < i
  BY <1>1, <1>2, <1>3
<1>7. ~Cut(N)'
  BY <1>6 DEF Cut
<1>8. HeadedBy(N)' = {}
  BY <1>6 DEF HeadedBy, Heads
<1>9. ASSUME NEW m \in Agents
      PROVE  HeadedBy(m)' = HeadedBy(m) \union
               (IF line.kind \in {"allow", "disallow"} /\ ~Cut(m) THEN {line} ELSE {})
  <2>1. ASSUME NEW k \in Rules PROVE Heads(m, k)' <=> Heads(m, k)
    <3>1. k \in 1 .. N - 1 /\ k \in Nat /\ k < N /\ ~(N < k)
      BY <1>2, <1>3
    <3>2. \A j \in DOMAIN lines' : j < k => j \in DOMAIN lines /\ lines'[j] = lines[j]
      BY <1>1, <3>1
    <3>3. ASSUME NEW i \in Rules', NEW j \in DOMAIN lines', i < j, j < k
          PROVE  i \in Rules
      <4>1. j \in 1 .. N - 1 /\ i # N
        BY <1>1, <1>2, <3>2, <3>3
      <4>. QED
        BY <1>3, <4>1
    <3>4. Rules \subseteq Rules' /\ DOMAIN lines \subseteq DOMAIN lines'
      BY <1>1, <1>3
    <3>5. ASSUME Heads(m, k) PROVE Heads(m, k)'
      BY <3>2, <3>3, <3>5 DEF Heads
    <3>6. ASSUME Heads(m, k)' PROVE Heads(m, k)
      <4>1. \A j \in DOMAIN lines : j < k => lines'[j] = lines[j]
        BY <3>2, <3>4
      <4>. QED
        BY <3>4, <3>6, <4>1 DEF Heads
    <3>. QED
      BY <3>5, <3>6
  <2>2. N \in Rules' => (Heads(m, N)' <=> ~Cut(m))
    <3>1. m < N
      BY <1>2, <1>3
    <3>2. \A i \in Rules' : i < N => i \in Rules
      BY <1>2, <1>3
    <3>3. ASSUME Cut(m) PROVE ~Heads(m, N)'
      <4>1. PICK i \in Rules, j \in DOMAIN lines :
              m < i /\ i < j /\ lines[j].kind = "user-agent"
        BY <3>3 DEF Cut
      <4>2. i \in Rules' /\ j \in DOMAIN lines' /\ lines'[j].kind = "user-agent" /\ j < N
        BY <1>1, <1>2, <1>3, <4>1
      <4>. QED
        BY <4>1, <4>2 DEF Heads
    <3>4. ASSUME ~Cut(m) PROVE Heads(m, N)'
      <4>1. ASSUME NEW i \in Rules', NEW j \in DOMAIN lines', m < i, i < j, j < N,
                   lines'[j].kind = "user-agent"
            PROVE  FALSE
        <5>1. j \in 1 .. N - 1 /\ j \in DOMAIN lines /\ lines[j].kind = "user-agent"
          BY <1>1, <1>2, <4>1
        <5>2. i # N /\ i \in Rules
          BY <1>2, <1>3, <4>1, <5>1
        <5>. QED
          BY <3>4, <4>1, <5>1, <5>2 DEF Cut
      <4>. QED
        BY <3>1, <4>1 DEF Heads
    <3>. QED
      BY <3>3, <3>4
  <2>3. \A k \in Rules : lines'[k] = lines[k] /\ k # N
    BY <1>1, <1>2, <1>3
  <2>. DEFINE old == {k \in Rules : lines[k].kind # "crawl-delay" /\ Heads(m, k)}
              now == {k \in Rules' : lines'[k].kind # "crawl-delay" /\ Heads(m, k)'}
              more == IF line.kind \in {"allow", "disallow"} /\ ~Cut(m) THEN {N} ELSE {}
  <2>4. now = old \union more
    <3>1. \A k \in Rules : k \in now <=> k \in old
      BY <1>3, <2>1, <2>3
    <3>2. N \in now <=> N \in more
      BY <1>1, <1>3, <2>2
    <3>3. now \subseteq Rules \union {N} /\ old \subseteq Rules /\ more \subseteq {N}
      BY <1>3
    <3>. HIDE DEF now, old, more
    <3>. QED
      BY <2>3, <3>1, <3>2, <3>3
  <2>5. HeadedBy(m)' = {lines'[k] : k \in now} /\ HeadedBy(m) = {lines[k] : k \in old}
    BY DEF HeadedBy
  <2>6. \A k \in old : lines'[k] = lines[k]
    BY <2>3
  <2>7. {lines'[k] : k \in more} =
          (IF line.kind \in {"allow", "disallow"} /\ ~Cut(m) THEN {line} ELSE {})
    BY <1>1
  <2>. HIDE DEF now, old, more
  <2>. QED
    BY <2>4, <2>5, <2>6, <2>7
<1>10. \A m \in Agents : lines'[m] = lines[m] /\ m # N
  BY <1>1, <1>2, <1>3
<1>. QED
  BY <1>1, <1>3, <1>4, <1>5, <1>6, <1>7, <1>8, <1>9, <1>10

\* A group is under way exactly when an agent line is open.
LEMMA OpenAgents ==
  ASSUME OpenGroupInv, parser.agents \in Seq(Tokens)
  PROVE  parser.agents = <<>> <=> Open = {}
<1>1. \A m \in Open : lines[m].token \in ToSet(parser.agents)
  BY DEF OpenGroupInv
<1>2. parser.agents = <<>> => ToSet(parser.agents) = {}
  BY DEF ToSet
<1>3. Open = {} => ToSet(parser.agents) = {}
  BY DEF OpenGroupInv
<1>4. ASSUME parser.agents # <<>> PROVE ToSet(parser.agents) # {}
  <2>1. Len(parser.agents) # 0 /\ Len(parser.agents) \in Nat
    BY <1>4
  <2>2. 1 \in DOMAIN parser.agents
    BY <2>1
  <2>. QED
    BY <2>2 DEF ToSet
<1>. QED
  BY <1>1, <1>2, <1>3, <1>4

\* The finished groups stay those of their agent lines when nothing of either changes.
LEMMA ClosedGroupsStay ==
  ASSUME ClosedGroupsInv, parser'.groups = parser.groups, Agents' \ Open' = Agents \ Open,
         \A m \in Agents \ Open : lines'[m] = lines[m] /\ HeadedBy(m)' = HeadedBy(m)
  PROVE  ClosedGroupsInv'
<1>1. ASSUME NEW g \in ToSet(parser.groups), NEW t \in ToSet(g.agents)
      PROVE  \E m \in Agents' \ Open' : lines'[m].token = t /\ ToSet(g.rules) = HeadedBy(m)'
  <2>1. PICK m \in Agents \ Open : lines[m].token = t /\ ToSet(g.rules) = HeadedBy(m)
    BY <1>1 DEF ClosedGroupsInv
  <2>2. m \in Agents' \ Open' /\ lines'[m].token = t /\ ToSet(g.rules) = HeadedBy(m)'
    BY <2>1
  <2>. QED
    BY <2>2
<1>2. ASSUME NEW m \in Agents' \ Open'
      PROVE  \E g \in ToSet(parser.groups) :
               lines'[m].token \in ToSet(g.agents) /\ ToSet(g.rules) = HeadedBy(m)'
  <2>1. PICK g \in ToSet(parser.groups) :
          lines[m].token \in ToSet(g.agents) /\ ToSet(g.rules) = HeadedBy(m)
    BY <1>2 DEF ClosedGroupsInv
  <2>2. lines'[m].token \in ToSet(g.agents) /\ ToSet(g.rules) = HeadedBy(m)'
    BY <1>2, <2>1
  <2>. QED
    BY <2>2
<1>. QED
  BY <1>1, <1>2 DEF ClosedGroupsInv

\* A user-agent line: another agent of the group under way, or the first of the next.
LEMMA AgentLineKeeps ==
  ASSUME ParserInv, NEW line \in RobotsLines, line.kind = "user-agent",
         lines' = Append(lines, line), parser' = Read(parser, line)
  PROVE  ParserInv'
<1>. DEFINE p == parser
<1>0. /\ lines \in Seq(RobotsLines) /\ OpenGroupInv /\ ClosedGroupsInv
      /\ p \in [groups : Seq(Groups), agents : Seq(Tokens), rules : Seq(AccessLines),
                lastWasAgent : BOOLEAN]
  BY DEF ParserInv
<1>1. PICK n : n = Len(lines) + 1
  OBVIOUS
<1>g. /\ lines' \in Seq(RobotsLines) /\ n \notin Agents
      /\ lines'[n] = line /\ \A m \in Agents : lines'[m] = lines[m]
      /\ Agents' = Agents \union
           (IF line.kind = "user-agent" /\ line.token # <<>> THEN {n} ELSE {})
      /\ \A m \in Agents : (\E i \in Rules' : m < i) <=>
           \/ \E i \in Rules : m < i
           \/ line.kind \in {"allow", "disallow", "crawl-delay"}
      /\ \A m \in Agents : Cut(m)' <=> \/ Cut(m)
                                       \/ line.kind = "user-agent" /\ \E i \in Rules : m < i
      /\ ~Cut(n)' /\ ~\E i \in Rules' : n < i
      /\ HeadedBy(n)' = {}
      /\ \A m \in Agents : HeadedBy(m)' = HeadedBy(m) \union
           (IF line.kind \in {"allow", "disallow"} /\ ~Cut(m) THEN {line} ELSE {})
  <2>. HIDE DEF p
  <2>. QED
    BY <1>0, <1>1, LinesGrow
<1>2. /\ lines' \in Seq(RobotsLines) /\ n \notin Agents
      /\ lines'[n] = line /\ \A m \in Agents : lines'[m] = lines[m]
      /\ Agents' = Agents \union (IF line.token # <<>> THEN {n} ELSE {})
      /\ \A m \in Agents : (\E i \in Rules' : m < i) <=> \E i \in Rules : m < i
      /\ \A m \in Agents : Cut(m)' <=> Cut(m) \/ \E i \in Rules : m < i
      /\ ~Cut(n)' /\ ~\E i \in Rules' : n < i
      /\ HeadedBy(n)' = {}
      /\ \A m \in Agents : HeadedBy(m)' = HeadedBy(m)
  <2>1. line.kind \notin {"allow", "disallow", "crawl-delay"}
    OBVIOUS
  <2>. QED
    BY <1>g, <2>1
<1>3. line.token \in Tokens
  BY DEF Tokens
<1>4. PICK q : /\ q = Opened(p)
               /\ parser' = [q EXCEPT !.lastWasAgent = TRUE,
                               !.agents = IF line.token = <<>> THEN @ ELSE Append(@, line.token)]
  BY DEF Read
<1>. DEFINE more == IF line.token # <<>> THEN {n} ELSE {}
<1>5. ASSUME q \in [groups : Seq(Groups), agents : Seq(Tokens), rules : Seq(AccessLines),
                    lastWasAgent : BOOLEAN]
      PROVE  /\ parser' \in [groups : Seq(Groups), agents : Seq(Tokens), rules : Seq(AccessLines),
                             lastWasAgent : BOOLEAN]
             /\ parser'.groups = q.groups /\ parser'.rules = q.rules /\ parser'.lastWasAgent = TRUE
             /\ ToSet(parser'.agents) = ToSet(q.agents) \union
                  (IF line.token # <<>> THEN {line.token} ELSE {})
  <2>1. CASE line.token = <<>>
    BY <1>4, <1>5, <2>1
  <2>2. CASE line.token # <<>>
    <3>1. /\ Append(q.agents, line.token) \in Seq(Tokens)
          /\ ToSet(Append(q.agents, line.token)) = ToSet(q.agents) \union {line.token}
      BY <1>3, <1>5, OneMore
    <3>. QED
      BY <1>4, <1>5, <2>2, <3>1
  <2>. QED
    BY <2>1, <2>2
<1>6. CASE p.lastWasAgent \/ (p.agents = <<>> /\ p.rules = <<>>)
  <2>1. q = p
    BY <1>4, <1>6 DEF Opened
  <2>2. \A m \in Open : ~\E i \in Rules : m < i
    <3>1. CASE p.lastWasAgent
      BY <1>0, <3>1 DEF OpenGroupInv
    <3>2. CASE p.agents = <<>>
      BY <1>0, <3>2, OpenAgents
    <3>. QED
      BY <1>6, <3>1, <3>2
  <2>3. Open' = Open \union more
    BY <1>2, <2>2 DEF Open
  <2>4. \A m \in Open : ToSet(p.rules) = {}
    BY <1>0, <2>2 DEF OpenGroupInv, HeadedBy, Heads
  <2>5. Open = {} => ToSet(p.rules) = {}
    BY <1>0 DEF OpenGroupInv, ToSet
  <2>6. ToSet(p.rules) = {}
    BY <2>4, <2>5
  <2>7. \A m \in Open : lines'[m] = lines[m] /\ HeadedBy(m)' = HeadedBy(m)
                        /\ ((\E i \in Rules' : m < i) <=> \E i \in Rules : m < i)
    BY <1>2 DEF Open
  <2>8. {lines'[m].token : m \in Open'} = {lines[m].token : m \in Open} \union
          (IF line.token # <<>> THEN {line.token} ELSE {})
    BY <1>2, <2>3, <2>7
  <2>9. ToSet(parser'.agents) = {lines'[m].token : m \in Open'}
    BY <1>0, <1>5, <2>1, <2>8 DEF OpenGroupInv
  <2>10. \A m \in Open' : /\ ToSet(parser'.rules) = HeadedBy(m)'
                          /\ parser'.lastWasAgent <=> ~\E i \in Rules' : m < i
    <3>1. ASSUME NEW m \in Open
          PROVE  /\ ToSet(parser'.rules) = HeadedBy(m)'
                 /\ parser'.lastWasAgent <=> ~\E i \in Rules' : m < i
      BY <1>0, <1>5, <2>1, <2>2, <2>7, <3>1 DEF OpenGroupInv
    <3>2. /\ ToSet(parser'.rules) = HeadedBy(n)'
          /\ parser'.lastWasAgent <=> ~\E i \in Rules' : n < i
      BY <1>0, <1>2, <1>5, <2>1, <2>6
    <3>. QED
      BY <2>3, <3>1, <3>2
  <2>11. Open' = {} => parser'.rules = <<>>
    BY <1>0, <1>5, <2>1, <2>3 DEF OpenGroupInv
  <2>12. OpenGroupInv'
    BY <2>9, <2>10, <2>11 DEF OpenGroupInv
  <2>13. Agents' \ Open' = Agents \ Open
    BY <1>2, <2>3 DEF Open
  <2>14. \A m \in Agents \ Open : lines'[m] = lines[m] /\ HeadedBy(m)' = HeadedBy(m)
    BY <1>2
  <2>15. ClosedGroupsInv'
    BY <1>0, <1>5, <2>1, <2>13, <2>14, ClosedGroupsStay
  <2>. QED
    BY <1>0, <1>2, <1>5, <2>1, <2>12, <2>15 DEF ParserInv
<1>7. CASE ~(p.lastWasAgent \/ (p.agents = <<>> /\ p.rules = <<>>))
  <2>. DEFINE new == [agents |-> p.agents, rules |-> p.rules]
  <2>1. p.agents # <<>> /\ p.lastWasAgent = FALSE
    <3>1. CASE p.agents = <<>>
      <4>1. Open = {}
        BY <1>0, <3>1, OpenAgents
      <4>. QED
        BY <1>0, <1>7, <3>1, <4>1 DEF OpenGroupInv
    <3>. QED
      BY <1>0, <1>7, <3>1
  <2>2. CommitGroup(p) = Append(p.groups, new) /\ new \in Groups
    BY <1>0, <2>1 DEF CommitGroup, Groups
  <2>3. /\ Append(p.groups, new) \in Seq(Groups)
        /\ ToSet(Append(p.groups, new)) = ToSet(p.groups) \union {new}
    BY <1>0, <2>2, OneMore
  <2>4. /\ q = [p EXCEPT !.groups = Append(p.groups, new), !.agents = <<>>, !.rules = <<>>]
        /\ q \in [groups : Seq(Groups), agents : Seq(Tokens), rules : Seq(AccessLines),
                  lastWasAgent : BOOLEAN]
        /\ q.groups = Append(p.groups, new) /\ q.agents = <<>> /\ q.rules = <<>>
    <3>1. q = [p EXCEPT !.groups = CommitGroup(p), !.agents = <<>>, !.rules = <<>>]
      BY <1>4, <1>7 DEF Opened
    <3>2. q = [p EXCEPT !.groups = Append(p.groups, new), !.agents = <<>>, !.rules = <<>>]
      BY <2>2, <3>1
    <3>. DEFINE gs == Append(p.groups, new)
    <3>3. gs \in Seq(Groups) /\ q = [p EXCEPT !.groups = gs, !.agents = <<>>, !.rules = <<>>]
      BY <2>3, <3>2
    <3>. HIDE DEF gs
    <3>4. /\ q \in [groups : Seq(Groups), agents : Seq(Tokens), rules : Seq(AccessLines),
                    lastWasAgent : BOOLEAN]
          /\ q.groups = gs /\ q.agents = <<>> /\ q.rules = <<>>
      <4>1. p \in [groups : Seq(Groups), agents : Seq(Tokens), rules : Seq(AccessLines),
                   lastWasAgent : BOOLEAN]
        BY <1>0
      <4>2. <<>> \in Seq(Tokens) /\ <<>> \in Seq(AccessLines)
        OBVIOUS
      <4>. HIDE DEF p
      <4>. QED
        BY <3>3, <4>1, <4>2
    <3>. QED
      BY <3>2, <3>4 DEF gs
  <2>5. \A m \in Open : \E i \in Rules : m < i
    BY <1>0, <2>1 DEF OpenGroupInv
  <2>6. Open' = more
    BY <1>2, <2>5 DEF Open
  <2>7. ToSet(parser'.agents) = (IF line.token # <<>> THEN {line.token} ELSE {})
        /\ ToSet(parser'.rules) = {} /\ parser'.rules = <<>>
    <3>1. ToSet(<<>>) = {}
      BY DEF ToSet
    <3>. HIDE DEF new
    <3>2. /\ parser'.rules = <<>>
          /\ ToSet(parser'.agents) = ToSet(<<>>) \union
               (IF line.token # <<>> THEN {line.token} ELSE {})
      BY <1>5, <2>4
    <3>. QED
      BY <3>1, <3>2
  <2>8. OpenGroupInv'
    <3>1. ToSet(parser'.agents) = {lines'[m].token : m \in Open'}
      BY <1>2, <2>6, <2>7
    <3>2. \A m \in Open' : /\ ToSet(parser'.rules) = HeadedBy(m)'
                           /\ parser'.lastWasAgent <=> ~\E i \in Rules' : m < i
      <4>1. /\ ToSet(parser'.rules) = HeadedBy(n)'
            /\ parser'.lastWasAgent <=> ~\E i \in Rules' : n < i
        BY <1>2, <1>5, <2>4, <2>7
      <4>. QED
        BY <2>6, <4>1
    <3>. QED
      BY <2>7, <3>1, <3>2 DEF OpenGroupInv
  <2>9. Agents' \ Open' = Agents
    BY <1>2, <2>6
  <2>10. ToSet(parser'.groups) = ToSet(p.groups) \union {new}
    BY <1>5, <2>3, <2>4
  <2>11. \A t \in ToSet(new.agents) :
           \E m \in Agents : lines'[m].token = t /\ ToSet(new.rules) = HeadedBy(m)'
    BY <1>0, <1>2 DEF OpenGroupInv, Open
  <2>12. \A m \in Open : /\ lines'[m].token \in ToSet(new.agents)
                         /\ ToSet(new.rules) = HeadedBy(m)'
    BY <1>0, <1>2 DEF OpenGroupInv, Open
  <2>. HIDE DEF new, p
  <2>13. ClosedGroupsInv'
    <3>1. ASSUME NEW g \in ToSet(p.groups), NEW t \in ToSet(g.agents)
          PROVE  \E m \in Agents : lines'[m].token = t /\ ToSet(g.rules) = HeadedBy(m)'
      <4>1. PICK m \in Agents \ Open : lines[m].token = t /\ ToSet(g.rules) = HeadedBy(m)
        BY <1>0, <3>1 DEF ClosedGroupsInv, p
      <4>2. m \in Agents /\ lines'[m].token = t /\ ToSet(g.rules) = HeadedBy(m)'
        BY <1>2, <4>1
      <4>. QED
        BY <4>2
    <3>2. ASSUME NEW m \in Agents \ Open
          PROVE  \E g \in ToSet(p.groups) :
                   lines'[m].token \in ToSet(g.agents) /\ ToSet(g.rules) = HeadedBy(m)'
      <4>1. PICK g \in ToSet(p.groups) :
              lines[m].token \in ToSet(g.agents) /\ ToSet(g.rules) = HeadedBy(m)
        BY <1>0, <3>2 DEF ClosedGroupsInv, p
      <4>2. lines'[m].token \in ToSet(g.agents) /\ ToSet(g.rules) = HeadedBy(m)'
        BY <1>2, <3>2, <4>1
      <4>. QED
        BY <4>2
    <3>3. \A g \in ToSet(parser'.groups) : \A t \in ToSet(g.agents) :
            \E m \in Agents : lines'[m].token = t /\ ToSet(g.rules) = HeadedBy(m)'
      BY <2>10, <2>11, <3>1
    <3>4. \A m \in Agents : \E g \in ToSet(parser'.groups) :
            lines'[m].token \in ToSet(g.agents) /\ ToSet(g.rules) = HeadedBy(m)'
      BY <2>10, <2>12, <3>2
    <3>. QED
      BY <2>9, <3>3, <3>4 DEF ClosedGroupsInv
  <2>. QED
    BY <1>2, <1>5, <2>4, <2>8, <2>13 DEF ParserInv
<1>. QED
  BY <1>6, <1>7

\* Another line: a rule of the group under way, what ends its agents, or nothing.
LEMMA OtherLineKeeps ==
  ASSUME ParserInv, NEW line \in RobotsLines, line.kind # "user-agent",
         lines' = Append(lines, line), parser' = Read(parser, line)
  PROVE  ParserInv'
<1>. DEFINE access == line.kind \in {"allow", "disallow"}
            p == parser
<1>0. /\ lines \in Seq(RobotsLines) /\ OpenGroupInv /\ ClosedGroupsInv
      /\ p \in [groups : Seq(Groups), agents : Seq(Tokens), rules : Seq(AccessLines),
                lastWasAgent : BOOLEAN]
  BY DEF ParserInv
<1>1. PICK n : n = Len(lines) + 1
  OBVIOUS
<1>g. /\ lines' \in Seq(RobotsLines) /\ n \notin Agents
      /\ lines'[n] = line /\ \A m \in Agents : lines'[m] = lines[m]
      /\ Agents' = Agents \union
           (IF line.kind = "user-agent" /\ line.token # <<>> THEN {n} ELSE {})
      /\ \A m \in Agents : (\E i \in Rules' : m < i) <=>
           \/ \E i \in Rules : m < i
           \/ line.kind \in {"allow", "disallow", "crawl-delay"}
      /\ \A m \in Agents : Cut(m)' <=> \/ Cut(m)
                                       \/ line.kind = "user-agent" /\ \E i \in Rules : m < i
      /\ ~Cut(n)' /\ ~\E i \in Rules' : n < i
      /\ HeadedBy(n)' = {}
      /\ \A m \in Agents : HeadedBy(m)' = HeadedBy(m) \union
           (IF line.kind \in {"allow", "disallow"} /\ ~Cut(m) THEN {line} ELSE {})
  <2>. HIDE DEF p, access
  <2>. QED
    BY <1>0, <1>1, LinesGrow
<1>2. /\ lines' \in Seq(RobotsLines)
      /\ \A m \in Agents : lines'[m] = lines[m]
      /\ Agents' = Agents
      /\ \A m \in Agents : (\E i \in Rules' : m < i) <=>
           (\E i \in Rules : m < i) \/ line.kind \in {"allow", "disallow", "crawl-delay"}
      /\ \A m \in Agents : Cut(m)' <=> Cut(m)
      /\ \A m \in Agents : HeadedBy(m)' = HeadedBy(m) \union
           (IF line.kind \in {"allow", "disallow"} /\ ~Cut(m) THEN {line} ELSE {})
  BY <1>g
<1>3. Open' = Open /\ \A m \in Agents \ Open : HeadedBy(m)' = HeadedBy(m)
  BY <1>2 DEF Open
<1>4. parser'.groups = p.groups => ClosedGroupsInv'
  <2>1. \A m \in Agents \ Open : lines'[m] = lines[m] /\ HeadedBy(m)' = HeadedBy(m)
    BY <1>2, <1>3
  <2>. QED
    BY <1>0, <1>2, <1>3, <2>1, ClosedGroupsStay
<1>5. {lines'[m].token : m \in Open'} = {lines[m].token : m \in Open}
  BY <1>2, <1>3 DEF Open
<1>6. p.agents = <<>> => Open = {}
  BY <1>0, OpenAgents
<1>7. p.agents # <<>> => Open # {}
  BY <1>0, OpenAgents
<1>8. CASE access /\ p.agents # <<>>
  <2>1. parser' = [p EXCEPT !.rules = Append(@, line), !.lastWasAgent = FALSE]
    BY <1>8 DEF Read
  <2>2. line \in AccessLines
    BY <1>8 DEF AccessLines
  <2>3. /\ Append(p.rules, line) \in Seq(AccessLines)
        /\ ToSet(Append(p.rules, line)) = ToSet(p.rules) \union {line}
    BY <1>0, <2>2, OneMore
  <2>4. /\ parser' \in [groups : Seq(Groups), agents : Seq(Tokens), rules : Seq(AccessLines),
                        lastWasAgent : BOOLEAN]
        /\ parser'.groups = p.groups /\ parser'.agents = p.agents
        /\ parser'.lastWasAgent = FALSE /\ parser'.rules = Append(p.rules, line)
    BY <1>0, <2>1, <2>3
  <2>5. \A m \in Open : /\ ToSet(parser'.rules) = HeadedBy(m)'
                        /\ parser'.lastWasAgent <=> ~\E i \in Rules' : m < i
    BY <1>0, <1>2, <1>8, <2>3, <2>4 DEF OpenGroupInv, Open
  <2>6. OpenGroupInv'
    BY <1>0, <1>3, <1>5, <1>7, <1>8, <2>4, <2>5 DEF OpenGroupInv
  <2>. QED
    BY <1>2, <1>4, <2>4, <2>6 DEF ParserInv
<1>9. CASE ~(access /\ p.agents # <<>>)
  <2>1. \/ line.kind = "crawl-delay" /\ parser' = [p EXCEPT !.lastWasAgent = FALSE]
        \/ line.kind # "crawl-delay" /\ parser' = p
    BY <1>9 DEF Read
  <2>2. /\ parser' \in [groups : Seq(Groups), agents : Seq(Tokens), rules : Seq(AccessLines),
                        lastWasAgent : BOOLEAN]
        /\ parser'.groups = p.groups /\ parser'.agents = p.agents /\ parser'.rules = p.rules
        /\ parser'.lastWasAgent = IF line.kind = "crawl-delay" THEN FALSE ELSE p.lastWasAgent
    BY <1>0, <2>1
  <2>3. \A m \in Open : /\ HeadedBy(m)' = HeadedBy(m)
                        /\ (\E i \in Rules' : m < i) <=>
                             (\E i \in Rules : m < i) \/ line.kind = "crawl-delay"
    BY <1>2, <1>6, <1>9 DEF Open
  <2>4. \A m \in Open : /\ ToSet(parser'.rules) = HeadedBy(m)'
                        /\ parser'.lastWasAgent <=> ~\E i \in Rules' : m < i
    BY <1>0, <2>2, <2>3 DEF OpenGroupInv
  <2>5. OpenGroupInv'
    BY <1>0, <1>3, <1>5, <2>2, <2>4 DEF OpenGroupInv
  <2>. QED
    BY <1>2, <1>4, <2>2, <2>5 DEF ParserInv
<1>. QED
  BY <1>8, <1>9

\* The groups that the parser has made, or is making, of the lines read so far
\* are those of the agent lines: an agent has the rules that it heads, whatever
\* the order of the lines (parse_robots_txt, robots.py 39-117).
THEOREM ParserInvariant == RobotsSpec => []ParserInv
<1>1. RobotsInit => ParserInv
  <2>. SUFFICES ASSUME RobotsInit PROVE ParserInv
    OBVIOUS
  <2>1. lines = <<>> /\ DOMAIN lines = {}
    BY DEF RobotsInit
  <2>2. Agents = {} /\ Open = {}
    BY <2>1 DEF Agents, Open
  <2>3. ToSet(<<>>) = {}
    BY DEF ToSet
  <2>4. /\ parser.groups = <<>> /\ parser.agents = <<>> /\ parser.rules = <<>>
        /\ parser \in [groups : Seq(Groups), agents : Seq(Tokens), rules : Seq(AccessLines),
                       lastWasAgent : BOOLEAN]
    BY DEF RobotsInit
  <2>5. OpenGroupInv /\ ClosedGroupsInv
    BY <2>2, <2>3, <2>4 DEF OpenGroupInv, ClosedGroupsInv
  <2>. QED
    BY <2>1, <2>4, <2>5 DEF ParserInv
<1>2. ParserInv /\ [RobotsNext]_robotsVars => ParserInv'
  <2>. SUFFICES ASSUME ParserInv, [RobotsNext]_robotsVars PROVE ParserInv'
    OBVIOUS
  <2>1. CASE RobotsNext
    <3>1. PICK line \in RobotsLines :
            lines' = Append(lines, line) /\ parser' = Read(parser, line)
      BY <2>1 DEF RobotsNext, ReadLine
    <3>. QED
      BY <3>1, AgentLineKeeps, OtherLineKeeps
  <2>2. CASE UNCHANGED robotsVars
    <3>1. lines' = lines /\ parser' = parser
      BY <2>2 DEF robotsVars
    <3>2. Rules' = Rules /\ Agents' = Agents
      BY <3>1 DEF Rules, Agents
    <3>3. \A m : Cut(m)' <=> Cut(m)
      BY <3>1, <3>2 DEF Cut
    <3>4. Open' = Open
      BY <3>2, <3>3 DEF Open
    <3>5. \A m, k : Heads(m, k)' <=> Heads(m, k)
      BY <3>1, <3>2 DEF Heads
    <3>6. \A m : HeadedBy(m)' = HeadedBy(m)
      BY <3>1, <3>2, <3>5 DEF HeadedBy
    <3>7. OpenGroupInv'
      <4>1. OpenGroupInv
        BY DEF ParserInv
      <4>2. ToSet(parser'.agents) = {lines'[m].token : m \in Open'}
        BY <3>1, <3>4, <4>1 DEF OpenGroupInv
      <4>3. \A m \in Open' : /\ ToSet(parser'.rules) = HeadedBy(m)'
                             /\ parser'.lastWasAgent <=> ~\E i \in Rules' : m < i
        BY <3>1, <3>2, <3>4, <3>6, <4>1 DEF OpenGroupInv
      <4>4. Open' = {} => parser'.rules = <<>>
        BY <3>1, <3>4, <4>1 DEF OpenGroupInv
      <4>. QED
        BY <4>2, <4>3, <4>4 DEF OpenGroupInv
    <3>8. ClosedGroupsInv'
      BY <3>1, <3>2, <3>4, <3>6, ClosedGroupsStay DEF ParserInv
    <3>. QED
      BY <3>1, <3>7, <3>8 DEF ParserInv
  <2>. QED
    BY <2>1, <2>2
<1>. QED
  BY <1>1, <1>2, PTL DEF RobotsSpec

\* Once the last line is read: the agents of the groups are those of the agent lines,
\* each with the rules that its line heads.
LEMMA GroupsAtEnd ==
  ASSUME ParserInv, NEW groups, groups = CommitGroup(parser)
  PROVE  /\ groups \in Seq(Groups)
         /\ \A g \in ToSet(groups) : \A t \in ToSet(g.agents) :
              \E m \in Agents : lines[m].token = t /\ ToSet(g.rules) = HeadedBy(m)
         /\ \A m \in Agents : \E g \in ToSet(groups) :
              lines[m].token \in ToSet(g.agents) /\ ToSet(g.rules) = HeadedBy(m)
<1>. DEFINE p == parser
            new == [agents |-> p.agents, rules |-> p.rules]
<1>0. /\ OpenGroupInv /\ ClosedGroupsInv /\ Open \subseteq Agents
      /\ p.groups \in Seq(Groups) /\ new \in Groups /\ p.agents \in Seq(Tokens)
  BY DEF ParserInv, Open, Groups
<1>1. CASE p.agents = <<>>
  <2>1. groups = p.groups /\ Open = {}
    BY <1>0, <1>1, OpenAgents DEF CommitGroup
  <2>. HIDE DEF new
  <2>. QED
    BY <1>0, <2>1 DEF ClosedGroupsInv
<1>2. CASE p.agents # <<>>
  <2>1. groups = Append(p.groups, new)
    BY <1>2 DEF CommitGroup
  <2>2. groups \in Seq(Groups) /\ ToSet(groups) = ToSet(p.groups) \union {new}
    <3>. HIDE DEF p, new
    <3>. QED
      BY <1>0, <2>1, OneMore
  <2>3. new.agents = p.agents /\ new.rules = p.rules
    OBVIOUS
  <2>. HIDE DEF new
  <2>4. ASSUME NEW g \in ToSet(groups), NEW t \in ToSet(g.agents)
        PROVE  \E m \in Agents : lines[m].token = t /\ ToSet(g.rules) = HeadedBy(m)
    <3>1. CASE g = new
      <4>1. PICK m \in Open : lines[m].token = t
        BY <1>0, <2>3, <2>4, <3>1 DEF OpenGroupInv
      <4>. QED
        BY <1>0, <2>3, <3>1, <4>1 DEF OpenGroupInv
    <3>2. CASE g \in ToSet(p.groups)
      BY <1>0, <2>4, <3>2 DEF ClosedGroupsInv
    <3>. QED
      BY <2>2, <2>4, <3>1, <3>2
  <2>5. ASSUME NEW m \in Agents
        PROVE  \E g \in ToSet(groups) :
                 lines[m].token \in ToSet(g.agents) /\ ToSet(g.rules) = HeadedBy(m)
    <3>1. CASE m \in Open
      <4>1. lines[m].token \in ToSet(new.agents) /\ ToSet(new.rules) = HeadedBy(m)
        BY <1>0, <2>3, <3>1 DEF OpenGroupInv
      <4>. QED
        BY <2>2, <4>1
    <3>2. CASE m \notin Open
      BY <1>0, <2>2, <2>5, <3>2 DEF ClosedGroupsInv
    <3>. QED
      BY <3>1, <3>2
  <2>. QED
    BY <2>2, <2>4, <2>5
<1>. QED
  BY <1>1, <1>2

\* What is kept of a sequence of groups is what was chosen of it.
LEMMA KeptIs ==
  ASSUME NEW R, NEW groups \in Seq(R), NEW chosen
  PROVE  /\ AmongGroups(groups, chosen) \in Seq(R)
         /\ ToSet(AmongGroups(groups, chosen)) = ToSet(groups) \intersect chosen
<1>. DEFINE ss == [i \in DOMAIN groups |->
                     IF groups[i] \in chosen THEN <<groups[i]>> ELSE <<>>]
<1>1. PICK n \in Nat : DOMAIN groups = 1 .. n
  OBVIOUS
<1>2. \A i \in 1 .. n : groups[i] \in R
  BY <1>1
<1>3. ASSUME NEW x \in R PROVE <<x>> \in Seq(R) /\ ToSet(<<x>>) = {x}
  BY DEF ToSet
<1>4. <<>> \in Seq(R) /\ ToSet(<<>>) = {}
  BY DEF ToSet
<1>5. \A i \in 1 .. n : ss[i] \in Seq(R)
  BY <1>1, <1>2, <1>3, <1>4
<1>6. \A i \in 1 .. n : ToSet(ss[i]) = {groups[i]} \intersect chosen
  BY <1>1, <1>2, <1>3, <1>4
<1>7. DOMAIN ss = 1 .. n /\ ss \in [1 .. n -> Seq(R)]
  BY <1>1, <1>5
<1>8. AmongGroups(groups, chosen) = FlattenSeq(ss)
  BY DEF AmongGroups
<1>9. ToSet(groups) = {groups[i] : i \in 1 .. n}
  BY <1>1 DEF ToSet
<1>. HIDE DEF ss
<1>10. /\ FlattenSeq(ss) \in Seq(R)
       /\ ToSet(FlattenSeq(ss)) = UNION {ToSet(ss[i]) : i \in 1 .. n}
  BY <1>7, FlattenIs
<1>. QED
  BY <1>6, <1>8, <1>9, <1>10

RulesOf(groups) == UNION {ToSet(g.rules) : g \in ToSet(groups)}

\* The rules of groups, one after the other.
LEMMA RulesFlat ==
  ASSUME NEW groups \in Seq(Groups)
  PROVE  /\ FlattenSeq([i \in DOMAIN groups |-> groups[i].rules]) \in Seq(AccessLines)
         /\ ToSet(FlattenSeq([i \in DOMAIN groups |-> groups[i].rules])) = RulesOf(groups)
<1>. DEFINE ss == [i \in DOMAIN groups |-> groups[i].rules]
<1>1. PICK n \in Nat : DOMAIN groups = 1 .. n
  OBVIOUS
<1>2. \A i \in 1 .. n : groups[i] \in Groups
  BY <1>1
<1>3. \A i \in 1 .. n : ss[i] = groups[i].rules /\ ss[i] \in Seq(AccessLines)
  BY <1>1, <1>2 DEF Groups
<1>4. DOMAIN ss = 1 .. n /\ ss \in [1 .. n -> Seq(AccessLines)]
  BY <1>1, <1>3
<1>5. ToSet(groups) = {groups[i] : i \in 1 .. n}
  BY <1>1 DEF ToSet
<1>. HIDE DEF ss
<1>6. /\ FlattenSeq(ss) \in Seq(AccessLines)
      /\ ToSet(FlattenSeq(ss)) = UNION {ToSet(ss[i]) : i \in 1 .. n}
  BY <1>4, FlattenIs
<1>7. UNION {ToSet(ss[i]) : i \in 1 .. n} = RulesOf(groups)
  BY <1>3, <1>5 DEF RulesOf
<1>. QED
  BY <1>6, <1>7 DEF ss

-----------------------------------------------------------------------------
(* Which groups a crawler obeys *)

\* How long the longest token of a group is that names the crawler.
LEMMA MatchLengthIs ==
  ASSUME NEW g \in Groups, NEW bot
  PROVE  /\ MatchLength(g, bot) \in Int /\ MatchLength(g, bot) >= -1
         /\ \/ MatchLength(g, bot) = -1
            \/ \E t \in ToSet(g.agents) : NamesBot(t, bot) /\ Len(t) = MatchLength(g, bot)
         /\ \A t \in ToSet(g.agents) : NamesBot(t, bot) => Len(t) <= MatchLength(g, bot)
<1>1. g.agents \in Seq(Tokens)
  BY DEF Groups
<1>2. \A t \in Tokens : Len(t) \in Nat
  BY RobotsAssumption DEF Tokens
<1>. DEFINE S == {x \in ToSet(g.agents) : NamesBot(x, bot)}
            f == [t \in S |-> Len(t)]
<1>3. IsFiniteSet(S)
  BY <1>1, ElementsAreFinite, FS_Subset
<1>4. \A t \in S : f[t] \in Int /\ f[t] = Len(t)
  BY <1>1, <1>2, ElementsAreFinite
<1>5. {f[t] : t \in S} = {Len(t) : t \in S}
  BY <1>4
<1>6. MatchLength(g, bot) = LongestOf(f, S)
  BY <1>5 DEF MatchLength, LongestOf
<1>. HIDE DEF f
<1>7. /\ LongestOf(f, S) \in Int /\ LongestOf(f, S) >= -1
      /\ LongestOf(f, S) = -1 \/ \E x \in S : f[x] = LongestOf(f, S)
      /\ \A x \in S : f[x] <= LongestOf(f, S)
  <2>. HIDE DEF S
  <2>. QED
    BY <1>3, <1>4, LongestIs
<1>. QED
  BY <1>4, <1>6, <1>7

\* The groups the parser's code picks for a crawler have the rules that the RFC's agents
\* for it head: every line with the longest token that names it, else every "*".
LEMMA RulesMatched ==
  ASSUME ParserInv, NEW bot, NEW groups, groups = CommitGroup(parser)
  PROVE  /\ FindMatchingGroups(groups, bot) \in Seq(Groups)
         /\ RulesOf(FindMatchingGroups(groups, bot)) = UNION {HeadedBy(m) : m \in AgentsFor(bot)}
<1>. DEFINE named    == {m \in Agents : NamesBot(lines[m].token, bot)}
            longest  == Max({-1} \union {Len(lines[m].token) : m \in named})
            best     == Max({-1} \union {MatchLength(g, bot) : g \in ToSet(groups)})
            chosen   == IF best >= 0 THEN {g \in ToSet(groups) : MatchLength(g, bot) = best}
                        ELSE {g \in ToSet(groups) : EveryCrawler \in ToSet(g.agents)}
<1>1. /\ groups \in Seq(Groups)
      /\ \A g \in ToSet(groups) : \A t \in ToSet(g.agents) :
           \E m \in Agents : lines[m].token = t /\ ToSet(g.rules) = HeadedBy(m)
      /\ \A m \in Agents : \E g \in ToSet(groups) :
           lines[m].token \in ToSet(g.agents) /\ ToSet(g.rules) = HeadedBy(m)
  BY GroupsAtEnd
<1>2. FindMatchingGroups(groups, bot) = AmongGroups(groups, chosen)
  BY DEF FindMatchingGroups
<1>3. AgentsFor(bot) = IF named # {} THEN {m \in named : Len(lines[m].token) = longest}
                       ELSE {m \in Agents : lines[m].token = EveryCrawler}
  BY DEF AgentsFor
<1>4. IsFiniteSet(ToSet(groups)) /\ ToSet(groups) \subseteq Groups
  BY <1>1, ElementsAreFinite
<1>5. /\ best \in Int /\ best >= -1
      /\ best = -1 \/ \E g \in ToSet(groups) : MatchLength(g, bot) = best
      /\ \A g \in ToSet(groups) : MatchLength(g, bot) <= best
  <2>. DEFINE G == ToSet(groups)
              f == [g \in G |-> MatchLength(g, bot)]
  <2>1. \A g \in G : f[g] \in Int /\ f[g] = MatchLength(g, bot)
    BY <1>4, MatchLengthIs
  <2>2. {f[g] : g \in G} = {MatchLength(g, bot) : g \in G}
    BY <2>1
  <2>3. best = LongestOf(f, G)
    BY <2>2 DEF LongestOf
  <2>. HIDE DEF f, best
  <2>4. /\ LongestOf(f, G) \in Int /\ LongestOf(f, G) >= -1
        /\ LongestOf(f, G) = -1 \/ \E x \in G : f[x] = LongestOf(f, G)
        /\ \A x \in G : f[x] <= LongestOf(f, G)
    <3>. HIDE DEF G
    <3>1. IsFiniteSet(G)
      BY <1>4 DEF G
    <3>. QED
      BY <2>1, <3>1, LongestIs
  <2>. QED
    BY <2>1, <2>3, <2>4
<1>6. \A m \in Agents : m \in DOMAIN lines /\ lines[m].token \in Tokens
                        /\ Len(lines[m].token) \in Nat
  BY RobotsAssumption DEF ParserInv, Agents, Tokens
<1>7. /\ longest \in Int /\ longest >= -1
      /\ longest = -1 \/ \E m \in named : Len(lines[m].token) = longest
      /\ \A m \in named : Len(lines[m].token) <= longest
  <2>. DEFINE f == [m \in named |-> Len(lines[m].token)]
  <2>1. IsFiniteSet(named)
    <3>1. PICK n \in Nat : DOMAIN lines = 1 .. n
      BY DEF ParserInv
    <3>2. named \subseteq 1 .. n /\ IsFiniteSet(1 .. n)
      BY <1>6, <3>1, FS_Interval
    <3>. QED
      BY <3>2, FS_Subset
  <2>2. \A m \in named : f[m] \in Int /\ f[m] = Len(lines[m].token)
    BY <1>6
  <2>3. {f[m] : m \in named} = {Len(lines[m].token) : m \in named}
    BY <2>2
  <2>4. longest = LongestOf(f, named)
    BY <2>3 DEF LongestOf
  <2>. HIDE DEF f, named, longest
  <2>5. /\ LongestOf(f, named) \in Int /\ LongestOf(f, named) >= -1
        /\ LongestOf(f, named) = -1 \/ \E x \in named : f[x] = LongestOf(f, named)
        /\ \A x \in named : f[x] <= LongestOf(f, named)
    BY <2>1, <2>2, LongestIs
  <2>. QED
    BY <2>2, <2>4, <2>5
<1>. HIDE DEF best, longest
<1>8. \A g \in ToSet(groups) :
         /\ MatchLength(g, bot) \in Int
         /\ \/ MatchLength(g, bot) = -1
            \/ \E t \in ToSet(g.agents) : NamesBot(t, bot) /\ Len(t) = MatchLength(g, bot)
         /\ \A t \in ToSet(g.agents) : NamesBot(t, bot) => Len(t) <= MatchLength(g, bot)
  BY <1>4, MatchLengthIs
\* each named line lies behind a group at least as long, and the other way about
<1>9. ASSUME NEW m \in named
      PROVE  \E g \in ToSet(groups) :
               /\ Len(lines[m].token) <= MatchLength(g, bot)
               /\ ToSet(g.rules) = HeadedBy(m)
  <2>1. PICK g \in ToSet(groups) :
          lines[m].token \in ToSet(g.agents) /\ ToSet(g.rules) = HeadedBy(m)
    BY <1>1
  <2>. QED
    BY <1>8, <2>1
<1>10. ASSUME NEW g \in ToSet(groups), MatchLength(g, bot) # -1
       PROVE  \E m \in named : /\ Len(lines[m].token) = MatchLength(g, bot)
                               /\ ToSet(g.rules) = HeadedBy(m)
  <2>1. PICK t \in ToSet(g.agents) : NamesBot(t, bot) /\ Len(t) = MatchLength(g, bot)
    BY <1>8, <1>10
  <2>2. PICK m \in Agents : lines[m].token = t /\ ToSet(g.rules) = HeadedBy(m)
    BY <1>1, <2>1
  <2>. QED
    BY <2>1, <2>2
<1>11. named # {} <=> best >= 0
  <2>1. ASSUME NEW m \in named PROVE best >= 0
    <3>1. PICK g \in ToSet(groups) : Len(lines[m].token) <= MatchLength(g, bot)
      BY <1>9
    <3>2. Len(lines[m].token) \in Nat /\ MatchLength(g, bot) \in Int
          /\ MatchLength(g, bot) <= best
      BY <1>5, <1>6, <1>8
    <3>. QED
      BY <1>5, <3>1, <3>2
  <2>2. ASSUME best >= 0 PROVE named # {}
    <3>1. best # -1
      BY <2>2
    <3>. QED
      BY <1>5, <1>10, <3>1
  <2>. QED
    BY <2>1, <2>2
<1>12. ASSUME best >= 0 PROVE best = longest
  <2>1. best # -1
    BY <1>12
  <2>2. best <= longest
    <3>1. PICK g \in ToSet(groups) : MatchLength(g, bot) = best
      BY <1>5, <2>1
    <3>2. PICK m \in named : Len(lines[m].token) = best
      BY <1>10, <2>1, <3>1
    <3>. QED
      BY <1>7, <3>2
  <2>3. longest <= best
    <3>1. longest # -1
      BY <1>5, <1>7, <1>12, <2>2
    <3>2. PICK m \in named : Len(lines[m].token) = longest
      BY <1>7, <3>1
    <3>3. PICK g \in ToSet(groups) : longest <= MatchLength(g, bot)
      BY <1>9, <3>2
    <3>4. MatchLength(g, bot) \in Int /\ MatchLength(g, bot) <= best
      BY <1>5, <1>8
    <3>. QED
      BY <1>5, <1>7, <3>3, <3>4
  <2>. QED
    BY <1>5, <1>7, <2>2, <2>3
<1>13. chosen \subseteq ToSet(groups)
  OBVIOUS
<1>14. \A g \in chosen : \E m \in AgentsFor(bot) : ToSet(g.rules) = HeadedBy(m)
  <2>. SUFFICES ASSUME NEW g \in chosen
                PROVE  \E m \in AgentsFor(bot) : ToSet(g.rules) = HeadedBy(m)
    OBVIOUS
  <2>1. CASE best >= 0
    <3>1. g \in ToSet(groups) /\ MatchLength(g, bot) = best /\ MatchLength(g, bot) # -1
      BY <2>1
    <3>2. PICK m \in named : Len(lines[m].token) = best /\ ToSet(g.rules) = HeadedBy(m)
      BY <1>10, <3>1
    <3>3. m \in AgentsFor(bot)
      BY <1>3, <1>11, <1>12, <2>1, <3>2
    <3>. QED
      BY <3>2, <3>3
  <2>2. CASE ~(best >= 0)
    <3>1. g \in ToSet(groups) /\ EveryCrawler \in ToSet(g.agents)
      BY <2>2
    <3>2. PICK m \in Agents : lines[m].token = EveryCrawler /\ ToSet(g.rules) = HeadedBy(m)
      BY <1>1, <3>1
    <3>3. m \in AgentsFor(bot)
      BY <1>3, <1>11, <2>2, <3>2
    <3>. QED
      BY <3>2, <3>3
  <2>. QED
    BY <2>1, <2>2
<1>15. \A m \in AgentsFor(bot) : \E g \in chosen : ToSet(g.rules) = HeadedBy(m)
  <2>. SUFFICES ASSUME NEW m \in AgentsFor(bot)
                PROVE  \E g \in chosen : ToSet(g.rules) = HeadedBy(m)
    OBVIOUS
  <2>1. CASE best >= 0
    <3>1. m \in named /\ Len(lines[m].token) = best
      BY <1>3, <1>11, <1>12, <2>1
    <3>2. PICK g \in ToSet(groups) : best <= MatchLength(g, bot) /\ ToSet(g.rules) = HeadedBy(m)
      BY <1>9, <3>1
    <3>3. MatchLength(g, bot) = best
      BY <1>5, <1>8, <3>2
    <3>. QED
      BY <2>1, <3>2, <3>3
  <2>2. CASE ~(best >= 0)
    <3>1. m \in Agents /\ lines[m].token = EveryCrawler
      BY <1>3, <1>11, <2>2
    <3>2. PICK g \in ToSet(groups) :
            lines[m].token \in ToSet(g.agents) /\ ToSet(g.rules) = HeadedBy(m)
      BY <1>1, <3>1
    <3>. QED
      BY <2>2, <3>1, <3>2
  <2>. QED
    BY <2>1, <2>2
<1>. HIDE DEF chosen
<1>16. /\ AmongGroups(groups, chosen) \in Seq(Groups)
       /\ ToSet(AmongGroups(groups, chosen)) = ToSet(groups) \intersect chosen
  BY <1>1, KeptIs
<1>17. ToSet(AmongGroups(groups, chosen)) = chosen
  BY <1>13, <1>16
<1>18. RulesOf(AmongGroups(groups, chosen)) = UNION {ToSet(g.rules) : g \in chosen}
  BY <1>17 DEF RulesOf
<1>19. UNION {ToSet(g.rules) : g \in chosen} = UNION {HeadedBy(m) : m \in AgentsFor(bot)}
  BY <1>14, <1>15
<1>. QED
  BY <1>2, <1>16, <1>18, <1>19

-----------------------------------------------------------------------------
(* What the rules of a crawler say *)

\* The rules that say something of the path, and what they say together: the longest
\* wins and an allow wins a tie.
Said(S)  == {r \in S : r.pattern.size > 0 /\ r.pattern.hits}
Lets(S)  == \/ Said(S) = {}
            \/ \E a \in Said(S) : /\ a.kind = "allow"
                                  /\ \A r \in Said(S) : r.pattern.size <= a.pattern.size

\* The best after the first rules: nothing yet, or the longest of those that say something.
Standing(b, S) ==
  /\ b \in [size : Int, allow : BOOLEAN]
  /\ Said(S) = {} => b.size \in {-1, 0} /\ b.allow = TRUE
  /\ Said(S) # {} => /\ \A r \in Said(S) : r.pattern.size <= b.size
                     /\ \E r \in Said(S) : r.pattern.size = b.size
                     /\ b.allow <=> \E r \in Said(S) : r.pattern.size = b.size /\ r.kind = "allow"

\* What stands decides.
LEMMA StandingDecides ==
  ASSUME NEW S, S \subseteq AccessLines, NEW b, Standing(b, S)
  PROVE  b.allow <=> Lets(S)
<1>1. \A r \in Said(S) : r.pattern.size \in Nat
  BY RobotsAssumption DEF Said, AccessLines
<1>2. CASE Said(S) = {}
  BY <1>2 DEF Standing, Lets
<1>3. CASE Said(S) # {}
  <2>1. ASSUME b.allow PROVE Lets(S)
    <3>1. PICK a \in Said(S) : a.pattern.size = b.size /\ a.kind = "allow"
      BY <1>3, <2>1 DEF Standing
    <3>2. \A r \in Said(S) : r.pattern.size <= a.pattern.size
      BY <1>3, <3>1 DEF Standing
    <3>. QED
      BY <3>1, <3>2 DEF Lets
  <2>2. ASSUME Lets(S) PROVE b.allow
    <3>1. PICK a \in Said(S) : a.kind = "allow" /\ \A r \in Said(S) : r.pattern.size <= a.pattern.size
      BY <1>3, <2>2 DEF Lets
    <3>2. PICK r \in Said(S) : r.pattern.size = b.size
      BY <1>3 DEF Standing
    <3>3. a.pattern.size <= b.size /\ b.size <= a.pattern.size
      BY <1>3, <3>1, <3>2 DEF Standing
    <3>4. a.pattern.size = b.size
      BY <1>1, <3>2, <3>3
    <3>. QED
      BY <1>3, <3>1, <3>4 DEF Standing
  <2>. QED
    BY <2>1, <2>2 DEF Standing
<1>. QED
  BY <1>2, <1>3

\* One rule more keeps the best.
LEMMA BetterStands ==
  ASSUME NEW S, S \subseteq AccessLines, NEW b, Standing(b, S), NEW rule \in AccessLines
  PROVE  Standing(Better(rule, b), S \union {rule})
<1>1. /\ rule.kind \in {"allow", "disallow"} /\ rule.pattern.size \in Nat
      /\ rule.pattern.hits \in BOOLEAN /\ \A r \in S : r.pattern.size \in Nat
  BY RobotsAssumption DEF AccessLines
<1>2. b \in [size : Int, allow : BOOLEAN]
  BY DEF Standing
<1>. DEFINE T == S \union {rule}
            c == Better(rule, b)
<1>3. CASE rule.pattern.size = 0 \/ ~rule.pattern.hits
  <2>1. Said(T) = Said(S)
    BY <1>1, <1>3 DEF Said
  <2>2. CASE c = b
    BY <2>1, <2>2 DEF Standing
  <2>3. CASE c # b
    <3>1. rule.pattern.size = 0 /\ b.size < 0 /\ c = [size |-> 0, allow |-> TRUE]
      BY <1>1, <1>3, <2>3 DEF Better
    <3>2. Said(S) = {}
      <4>1. ASSUME NEW r \in Said(S), r.pattern.size = b.size PROVE FALSE
        <5>1. r.pattern.size \in Nat
          BY <1>1 DEF Said
        <5>. QED
          BY <1>2, <3>1, <4>1, <5>1
      <4>. QED
        BY <4>1 DEF Standing
    <3>. HIDE DEF c
    <3>3. c \in [size : Int, allow : BOOLEAN] /\ c.size = 0 /\ c.allow = TRUE
      BY <3>1
    <3>. QED
      BY <2>1, <3>2, <3>3 DEF Standing, c
  <2>. QED
    BY <2>2, <2>3
<1>4. CASE rule.pattern.size # 0 /\ rule.pattern.hits
  <2>1. Said(T) = Said(S) \union {rule} /\ rule.pattern.size > 0
    BY <1>1, <1>4 DEF Said
  <2>2. \A r \in Said(S) : r.pattern.size \in Nat /\ r.pattern.size <= b.size
    BY <1>1 DEF Said, Standing
  <2>3. CASE rule.pattern.size > b.size
    <3>1. c = [size |-> rule.pattern.size, allow |-> rule.kind = "allow"]
      BY <1>4, <2>3 DEF Better
    <3>2. c.size = rule.pattern.size /\ (c.allow <=> rule.kind = "allow")
          /\ c \in [size : Int, allow : BOOLEAN]
      <4>. DEFINE said == rule.kind = "allow"
                  size == rule.pattern.size
      <4>1. said \in BOOLEAN /\ size \in Int /\ c = [size |-> size, allow |-> said]
        BY <1>1, <3>1
      <4>. HIDE DEF said, size, c
      <4>2. c.size = size /\ (c.allow <=> said) /\ c \in [size : Int, allow : BOOLEAN]
        BY <4>1
      <4>. QED
        BY <4>2 DEF said, size
    <3>3. \A r \in Said(S) : r.pattern.size <= rule.pattern.size /\ r.pattern.size # rule.pattern.size
      BY <1>1, <1>2, <2>2, <2>3
    <3>. HIDE DEF c, T
    <3>4. \A r \in Said(T) : r.pattern.size <= c.size
      BY <1>1, <2>1, <3>2, <3>3
    <3>5. \E r \in Said(T) : r.pattern.size = c.size
      BY <2>1, <3>2
    <3>6. c.allow <=> \E r \in Said(T) : r.pattern.size = c.size /\ r.kind = "allow"
      BY <2>1, <3>2, <3>3
    <3>7. Standing(c, T)
      BY <3>2, <3>4, <3>5, <3>6 DEF Standing
    <3>. QED
      BY <3>7 DEF c, T
  <2>4. CASE ~(rule.pattern.size > b.size)
    <3>0. Said(S) # {}
      <4>1. b.size \notin {-1, 0}
        BY <1>1, <1>2, <2>1, <2>4
      <4>. QED
        BY <4>1 DEF Standing
    <3>1. /\ \E r \in Said(S) : r.pattern.size = b.size
          /\ b.allow <=> \E r \in Said(S) : r.pattern.size = b.size /\ r.kind = "allow"
      BY <3>0 DEF Standing
    <3>2. rule.pattern.size <= b.size
      BY <1>1, <1>2, <2>4
    <3>3. /\ c \in [size : Int, allow : BOOLEAN] /\ c.size = b.size
          /\ c.allow <=> b.allow \/ (rule.pattern.size = b.size /\ rule.kind = "allow")
      <4>1. CASE rule.pattern.size = b.size /\ rule.kind = "allow"
        <5>1. c = [b EXCEPT !.allow = TRUE]
          BY <1>4, <2>4, <4>1 DEF Better
        <5>. HIDE DEF c
        <5>. QED
          BY <1>2, <4>1, <5>1
      <4>2. CASE ~(rule.pattern.size = b.size /\ rule.kind = "allow")
        <5>1. c = b
          BY <1>4, <2>4, <4>2 DEF Better
        <5>. HIDE DEF c
        <5>. QED
          BY <1>2, <4>2, <5>1
      <4>. QED
        BY <4>1, <4>2
    <3>. HIDE DEF c, T
    <3>4. \A r \in Said(T) : r.pattern.size <= c.size
      BY <2>1, <2>2, <3>2, <3>3
    <3>5. \E r \in Said(T) : r.pattern.size = c.size
      BY <2>1, <3>1, <3>3
    <3>6. c.allow <=> \E r \in Said(T) : r.pattern.size = c.size /\ r.kind = "allow"
      BY <2>1, <3>1, <3>3
    <3>7. Standing(c, T)
      BY <3>3, <3>4, <3>5, <3>6 DEF Standing
    <3>. QED
      BY <3>7 DEF c, T
  <2>. QED
    BY <2>3, <2>4
<1>. QED
  BY <1>3, <1>4

\* A crawler may read the path when the rules of its groups let it.
LEMMA AccessIsDecided ==
  ASSUME NEW groups \in Seq(Groups)
  PROVE  EvaluatePathAccess(groups) <=> Lets(RulesOf(groups))
<1>. DEFINE rules == FlattenSeq([i \in DOMAIN groups |-> groups[i].rules])
            base == [size |-> -1, allow |-> TRUE]
            V == [size : Int, allow : BOOLEAN]
            Folds(f) == f = [s \in SUBSET DOMAIN rules |->
                               IF s = {} THEN base
                               ELSE Better(rules[Max(s)], f[s \ {Max(s)}])]
<1>1. rules \in Seq(AccessLines) /\ ToSet(rules) = RulesOf(groups)
  BY RulesFlat
<1>2. EvaluatePathAccess(groups) = (CHOOSE f : Folds(f))[DOMAIN rules].allow
  BY DEF EvaluatePathAccess, FoldLeft, MapThenFoldSet
<1>. HIDE DEF rules
<1>3. PICK n \in Nat : DOMAIN rules = 1 .. n
  BY <1>1
<1>4. \A i \in 1 .. n : rules[i] \in AccessLines
  BY <1>1, <1>3
<1>5. \E f : Folds(f)
  <2>. DEFINE top  == [s \in SUBSET (1 .. n) |-> Max(s)]
              step == [q \in (1 .. n) \X V |-> Better(rules[q[1]], q[2])]
  <2>1. IsFiniteSet(1 .. n)
    BY FS_Interval
  <2>2. \A s \in SUBSET (1 .. n) : s # {} => top[s] = Max(s) /\ top[s] \in s
    <3>. SUFFICES ASSUME NEW s \in SUBSET (1 .. n), s # {} PROVE Max(s) \in s
      OBVIOUS
    <3>0. IsFiniteSet(s)
      BY <2>1, FS_Subset
    <3>1. IsFiniteSet(s) /\ s \subseteq Int
      BY <3>0
    <3>. QED
      BY <3>1, GreatestIs
  <2>3. ASSUME NEW i \in 1 .. n, NEW v \in V
        PROVE  step[<<i, v>>] = Better(rules[i], v) /\ step[<<i, v>>] \in V
    <3>1. /\ rules[i].kind \in {"allow", "disallow"} /\ rules[i].pattern.size \in Nat
      BY <1>4, RobotsAssumption DEF AccessLines
    <3>2. step[<<i, v>>] = Better(rules[i], v)
      <4>1. <<i, v>> \in (1 .. n) \X V /\ <<i, v>>[1] = i /\ <<i, v>>[2] = v
        OBVIOUS
      <4>. QED
        BY <4>1
    <3>. DEFINE kind == rules[i].kind
                size == rules[i].pattern.size
                hits == rules[i].pattern.hits
    <3>3. Better(rules[i], v) \in {v, base, [size |-> 0, allow |-> TRUE],
                                   [size |-> size, allow |-> kind = "allow"],
                                   [v EXCEPT !.allow = TRUE]}
      BY DEF Better
    <3>. HIDE DEF kind, size
    <3>4. size \in Int /\ (kind = "allow") \in BOOLEAN
      BY <3>1 DEF size
    <3>5. /\ v \in V /\ base \in V /\ [size |-> 0, allow |-> TRUE] \in V
          /\ [size |-> size, allow |-> kind = "allow"] \in V /\ [v EXCEPT !.allow = TRUE] \in V
      <4>. DEFINE said == kind = "allow"
      <4>1. said \in BOOLEAN
        BY <3>4
      <4>. HIDE DEF said
      <4>2. [size |-> size, allow |-> said] \in V
        BY <3>4, <4>1
      <4>3. v \in V /\ base \in V /\ [size |-> 0, allow |-> TRUE] \in V
        OBVIOUS
      <4>4. [v EXCEPT !.allow = TRUE] \in V
        <5>1. PICK w : w = v /\ w \in [size : Int, allow : BOOLEAN]
          OBVIOUS
        <5>2. [w EXCEPT !.allow = TRUE] \in [size : Int, allow : BOOLEAN]
          BY <5>1
        <5>. QED
          BY <5>1, <5>2
      <4>. QED
        BY <4>2, <4>3, <4>4 DEF said
    <3>. QED
      BY <3>2, <3>3, <3>5
  <2>4. base \in V
    OBVIOUS
  <2>. DEFINE S == 1 .. n
  <2>. HIDE DEF top, step, V, base
  <2>5. PICK f \in [SUBSET S -> V] : \A s \in SUBSET S :
          f[s] = IF s = {} THEN base ELSE step[<<top[s], f[s \ {top[s]}]>>]
    <3>1. IsFiniteSet(S) /\ (\A s \in SUBSET S : s # {} => top[s] \in s) /\ StaysIn(V, step, S)
      BY <2>1, <2>2, <2>3 DEF StaysIn
    <3>. HIDE DEF S
    <3>2. PICK f : FoldsBy(f, S, V, base, top, step)
      BY <2>4, <3>1, FoldExists
    <3>. QED
      BY <3>2 DEF FoldsBy
  <2>6. ASSUME NEW s \in SUBSET S
        PROVE  f[s] = IF s = {} THEN base ELSE Better(rules[Max(s)], f[s \ {Max(s)}])
    <3>1. CASE s = {}
      BY <2>5, <3>1
    <3>2. CASE s # {}
      <4>1. top[s] = Max(s) /\ Max(s) \in 1 .. n /\ s \ {Max(s)} \in SUBSET S
        BY <2>2, <3>2
      <4>2. f[s \ {Max(s)}] \in V
        BY <2>5, <4>1
      <4>3. f[s] = step[<<Max(s), f[s \ {Max(s)}]>>]
        BY <2>5, <3>2, <4>1
      <4>. QED
        BY <2>3, <3>2, <4>1, <4>2, <4>3
    <3>. QED
      BY <3>1, <3>2
  <2>7. f = [s \in SUBSET S |-> f[s]]
    BY <2>5
  <2>8. f = [s \in SUBSET S |->
               IF s = {} THEN base ELSE Better(rules[Max(s)], f[s \ {Max(s)}])]
    BY <2>6, <2>7
  <2>9. Folds(f)
    BY <1>3, <2>8
  <2>. QED
    BY <2>9
<1>6. PICK f : Folds(f) /\ EvaluatePathAccess(groups) = f[DOMAIN rules].allow
  <2>. DEFINE g == CHOOSE f : Folds(f)
  <2>1. Folds(g)
    BY <1>5
  <2>. HIDE DEF Folds
  <2>. QED
    BY <1>2, <2>1
<1>7. /\ f[{}] = base
      /\ \A s \in SUBSET (1 .. n) : s # {} => f[s] = Better(rules[Max(s)], f[s \ {Max(s)}])
  BY <1>3, <1>6
<1>. DEFINE Right == {k \in 0 .. n : Standing(f[1 .. k], {rules[i] : i \in 1 .. k})}
<1>8. 0 \in Right
  <2>1. 1 .. 0 = {} /\ {rules[i] : i \in {}} = {} /\ 0 \in 0 .. n
    OBVIOUS
  <2>2. Standing(base, {})
    BY DEF Standing, Said
  <2>. QED
    BY <1>7, <2>1, <2>2
<1>9. ASSUME NEW k \in 0 .. n - 1, k \in Right PROVE k + 1 \in Right
  <2>. DEFINE s == 1 .. k + 1
              S == {rules[i] : i \in 1 .. k}
              T == {rules[i] : i \in 1 .. k + 1}
  <2>1. /\ k + 1 \in 1 .. n /\ k + 1 \in 0 .. n /\ s \in SUBSET (1 .. n) /\ s # {}
        /\ s = (1 .. k) \union {k + 1} /\ s \ {k + 1} = 1 .. k /\ s \subseteq Int
    BY <1>9
  <2>2. Max(s) = k + 1
    <3>1. IsFiniteSet(s)
      BY <1>9, FS_Interval
    <3>2. Max(s) \in s /\ Max(s) \in Int /\ k + 1 <= Max(s)
      <4>1. k + 1 \in s
        BY <2>1
      <4>. HIDE DEF s
      <4>. QED
        BY <2>1, <3>1, <4>1, GreatestIs
    <3>3. Max(s) <= k + 1
      BY <3>2
    <3>. QED
      BY <3>2, <3>3
  <2>3. f[s] = Better(rules[k + 1], f[1 .. k])
    BY <1>7, <2>1, <2>2
  <2>4. T = S \union {rules[k + 1]}
    BY <2>1
  <2>5. S \subseteq AccessLines /\ rules[k + 1] \in AccessLines
    BY <1>4, <1>9, <2>1
  <2>6. Standing(f[1 .. k], S)
    BY <1>9
  <2>. HIDE DEF S, T, s
  <2>7. Standing(Better(rules[k + 1], f[1 .. k]), S \union {rules[k + 1]})
    BY <2>5, <2>6, BetterStands
  <2>8. Standing(f[s], T)
    BY <2>3, <2>4, <2>7
  <2>. QED
    BY <2>1, <2>8 DEF s, T
<1>10. Standing(f[1 .. n], {rules[i] : i \in 1 .. n})
  <2>. HIDE DEF Right
  <2>1. \A k \in 0 .. n : k \in Right
    BY <1>8, <1>9, CountUp
  <2>2. n \in Right
    BY <2>1
  <2>. QED
    BY <2>2 DEF Right
<1>11. {rules[i] : i \in 1 .. n} = RulesOf(groups) /\ RulesOf(groups) \subseteq AccessLines
  <2>1. ToSet(rules) = {rules[i] : i \in 1 .. n}
    BY <1>3 DEF ToSet
  <2>. QED
    BY <1>1, <1>4, <2>1
<1>12. f[1 .. n].allow <=> Lets(RulesOf(groups))
  BY <1>10, <1>11, StandingDecides
<1>13. EvaluatePathAccess(groups) = f[1 .. n].allow
  BY <1>3, <1>6
<1>. QED
  BY <1>12, <1>13

\* The RFC lets a crawler read the path when the rules that its agents head let it.
LEMMA RfcIsDecided ==
  ASSUME ParserInv, NEW bot
  PROVE  RfcAllows(bot) <=> Lets(UNION {HeadedBy(m) : m \in AgentsFor(bot)})
<1>. DEFINE mine == {n \in Rules : /\ lines[n].kind # "crawl-delay"
                                   /\ lines[n].pattern.size > 0 /\ lines[n].pattern.hits
                                   /\ \E m \in AgentsFor(bot) : Heads(m, n)}
            S == UNION {HeadedBy(m) : m \in AgentsFor(bot)}
<1>1. RfcAllows(bot) <=> \/ mine = {}
                         \/ \E a \in mine :
                              /\ lines[a].kind = "allow"
                              /\ \A n \in mine : lines[n].pattern.size <= lines[a].pattern.size
  BY DEF RfcAllows
<1>2. \A n \in mine : lines[n] \in Said(S)
  BY DEF Said, HeadedBy
<1>3. \A r \in Said(S) : \E n \in mine : lines[n] = r
  BY DEF Said, HeadedBy
<1>. HIDE DEF mine, S
<1>4. mine = {} <=> Said(S) = {}
  BY <1>2, <1>3
<1>5. ASSUME NEW a \in mine, lines[a].kind = "allow",
             \A n \in mine : lines[n].pattern.size <= lines[a].pattern.size
      PROVE  Lets(S)
  <2>1. lines[a] \in Said(S) /\ \A r \in Said(S) : r.pattern.size <= lines[a].pattern.size
    BY <1>2, <1>3, <1>5
  <2>. QED
    BY <1>5, <2>1 DEF Lets
<1>6. ASSUME NEW b \in Said(S), b.kind = "allow",
             \A r \in Said(S) : r.pattern.size <= b.pattern.size
      PROVE  \E a \in mine : /\ lines[a].kind = "allow"
                             /\ \A n \in mine : lines[n].pattern.size <= lines[a].pattern.size
  <2>1. PICK a \in mine : lines[a] = b
    BY <1>3
  <2>. QED
    BY <1>2, <1>6, <2>1
<1>7. Lets(S) <=> \/ mine = {}
                  \/ \E a \in mine :
                       /\ lines[a].kind = "allow"
                       /\ \A n \in mine : lines[n].pattern.size <= lines[a].pattern.size
  BY <1>4, <1>5, <1>6 DEF Lets
<1>. QED
  BY <1>1, <1>7 DEF S

\* Whatever the order and the grouping of the lines, a crawler is reported as shut out
\* exactly when RFC 9309 shuts it out, and a file that could not be read shuts nobody
\* out (robots.py 39-204, 216-372).
THEOREM VerdictsAreTheRfcs == RobotsSpec => []VerdictsFollowTheRfc
<1>1. ParserInv => VerdictsFollowTheRfc
  <2>. SUFFICES ASSUME ParserInv PROVE VerdictsFollowTheRfc
    OBVIOUS
  <2>1. PICK groups : groups = CommitGroup(parser)
    OBVIOUS
  <2>2. PICK read : read = InspectRobots("text", groups, Sitemaps)
    OBVIOUS
  <2>3. PICK unread : unread = InspectRobots("none", groups, Sitemaps)
    OBVIOUS
  <2>4. ASSUME NEW bot PROVE EvaluatePathAccess(FindMatchingGroups(groups, bot)) <=> RfcAllows(bot)
    <3>1. /\ FindMatchingGroups(groups, bot) \in Seq(Groups)
          /\ RulesOf(FindMatchingGroups(groups, bot)) = UNION {HeadedBy(m) : m \in AgentsFor(bot)}
      BY <2>1, RulesMatched
    <3>2. EvaluatePathAccess(FindMatchingGroups(groups, bot))
            <=> Lets(RulesOf(FindMatchingGroups(groups, bot)))
      BY <3>1, AccessIsDecided
    <3>. QED
      BY <3>1, <3>2, RfcIsDecided
  <2>. DEFINE bots == [b \in Crawlers |-> BotAccess(groups, b)]
  <2>5. \A b \in Crawlers : bots[b].allowed <=> RfcAllows(b)
    BY <2>4 DEF BotAccess
  <2>6. \A b \in Crawlers : bots[b].explicit => \E m \in Agents : lines[m].token = b
    <3>. SUFFICES ASSUME NEW b \in Crawlers, bots[b].explicit
                  PROVE  \E m \in Agents : lines[m].token = b
      OBVIOUS
    <3>1. PICK g \in ToSet(FindMatchingGroups(groups, b)) : b \in ToSet(g.agents)
      BY DEF BotAccess
    <3>2. groups \in Seq(Groups)
      BY <2>1, GroupsAtEnd
    <3>3. g \in ToSet(groups)
      BY <3>1, <3>2, KeptIs DEF FindMatchingGroups
    <3>. QED
      BY <2>1, <3>1, <3>3, GroupsAtEnd
  <2>7. /\ read.googlebot = IF bots[Googlebot].allowed THEN "pass" ELSE "fail"
        /\ read.ai_crawlers = IF \E b \in AiCrawlers : ~bots[b].allowed THEN "fail"
                              ELSE IF \A b \in AiCrawlers : bots[b].explicit THEN "pass"
                              ELSE "warn"
        /\ read.target_path = IF \E b \in Crawlers : ~bots[b].allowed THEN "fail" ELSE "pass"
    BY <2>2 DEF InspectRobots
  <2>8. unread.googlebot = "warn" /\ unread.ai_crawlers = "warn" /\ unread.target_path = "warn"
    BY <2>3 DEF InspectRobots
  <2>. HIDE DEF bots
  <2>9. Googlebot \in Crawlers /\ AiCrawlers \subseteq Crawlers
    BY RobotsAssumption
  <2>10. read.googlebot = "fail" <=> ~RfcAllows(Googlebot)
    BY <2>5, <2>7, <2>9
  <2>11. read.ai_crawlers = "fail" <=> \E b \in AiCrawlers : ~RfcAllows(b)
    BY <2>5, <2>7, <2>9
  <2>12. read.target_path = "fail" <=> \E b \in Crawlers : ~RfcAllows(b)
    BY <2>5, <2>7
  <2>13. read.ai_crawlers = "pass" => \A b \in AiCrawlers : \E m \in Agents : lines[m].token = b
    BY <2>6, <2>7, <2>9
  <2>. QED
    BY <2>1, <2>2, <2>3, <2>8, <2>10, <2>11, <2>12, <2>13 DEF VerdictsFollowTheRfc
<1>. QED
  BY <1>1, ParserInvariant, PTL
=============================================================================
