------------------------ MODULE MemoryBackendProofs ------------------------
(***************************************************************************)
(* Proofs about the memory backend, for every value of the constants: what  *)
(* its queues hold and in which order, that no request is lost or answered  *)
(* twice, and that the backend is the port its memory partition expects.    *)
(***************************************************************************)
EXTENDS MemoryBackend, FiniteSetTheorems, SequenceTheorems, TLAPS

\* The proofs about the buffer, with the backend's hints and requests for its
\* tensors and accesses.
LP == INSTANCE LatencyHidingBufferLedger
        WITH Tensors <- {Schedule[k].tensor : k \in DOMAIN Schedule},
             Demands <- {DemandOf(r) : r \in Requests},
             MaxHints <- Len(Schedule)

-----------------------------------------------------------------------------
(* The buffer inside the backend.                                           *)

\* What the constants are.
LEMMA ConstantTypes ==
  /\ NumHalves \in Nat /\ Hop \in Nat /\ ReadLatency \in Nat /\ SramLatency \in Nat
  /\ HbmLatency \in Nat /\ HbmTransfer \in Nat /\ HbfTransfer \in Nat
  /\ RequestQueueSize \in Nat \ {0} /\ ReturnQueueSize \in Nat \ {0}
  /\ \A k \in DOMAIN Schedule : Schedule[k].tensor \in [addr : Nat, size : Nat]
  /\ \A k \in DOMAIN Schedule : Schedule[k].at \in Nat
  /\ Len(Schedule) \in Nat /\ DOMAIN Schedule = 1 .. Len(Schedule)
  /\ \A r \in Requests : DemandOf(r) \in [addr : Nat, size : Nat \ {0}]
<1>1. \A r \in Requests : DemandOf(r) \in [addr : Nat, size : Nat \ {0}]
  BY BackendConstants DEF DemandOf
<1>2. Schedule \in Seq([tensor : [addr : Nat, size : Nat], at : Nat])
  BY BackendConstants
<1>3. /\ Len(Schedule) \in Nat /\ DOMAIN Schedule = 1 .. Len(Schedule)
      /\ \A k \in DOMAIN Schedule :
           Schedule[k] \in [tensor : [addr : Nat, size : Nat], at : Nat]
  <2>1. Len(Schedule) \in Nat /\ DOMAIN Schedule = 1 .. Len(Schedule)
    BY <1>2, LenProperties
  <2> QED
    BY <1>2, <2>1, ElementOfSeq
<1> QED
  BY <1>1, <1>3, BackendConstants

\* The buffer's own assumption holds in the backend.
LEMMA BufferConstants ==
  /\ {Schedule[k].tensor : k \in DOMAIN Schedule} \subseteq [addr : Nat, size : Nat]
  /\ {DemandOf(r) : r \in Requests} \subseteq [addr : Nat, size : Nat \ {0}]
  /\ LP!LhbConstants
BY ConstantTypes, BackendConstants DEF LP!LhbConstants

\* The operations the model calls are those the proofs are about.
LEMMA SameBuffer ==
  /\ LHB!Halves = LP!Halves
  /\ LHB!Init <=> LP!Init
  /\ \A t : LHB!IssueHint(t) <=> LP!IssueHint(t)
  /\ LHB!Tick <=> LP!Tick
  /\ \A d : LHB!Access(d) <=> LP!Access(d)
  /\ \A token : LHB!FillComplete(token) <=> LP!FillComplete(token)
  /\ \A h, d : LHB!Covers(h, d) <=> LP!Covers(h, d)
  /\ \A r : LHB!ReadyTime(r) = LP!ReadyTime(r)
<1>1. LHB!Halves = LP!Halves
  BY DEF LHB!Halves, LP!Halves
<1>c. \A S : LHB!Cardinality(S) = LP!Cardinality(S)
  BY Zenon DEF LHB!Cardinality, LP!Cardinality
<1>2. LHB!Init <=> LP!Init
  BY DEF LHB!Halves, LP!Halves, LHB!Init, LP!Init, LHB!EmptyHalf, LP!EmptyHalf,
         LHB!Answer, LP!Answer
<1>3. \A t : LHB!IssueHint(t) <=> LP!IssueHint(t)
  BY DEF LHB!IssueHint, LP!IssueHint, LHB!ChunksOf, LP!ChunksOf, LHB!ChunkSpan,
         LP!ChunkSpan, LHB!Factor, LP!Factor, LHB!Least, LP!Least
<1>4. /\ LHB!Tick <=> LP!Tick
      /\ \A d : LHB!Access(d) <=> LP!Access(d)
  <2>1. \A hs, t : LHB!RetireFills(hs, t) = LP!RetireFills(hs, t)
    BY Zenon DEF LHB!RetireFills, LP!RetireFills, LHB!LandsBy, LP!LandsBy,
       LHB!InFlight, LP!InFlight, LHB!Halves, LP!Halves
  <2>2. \A b : LHB!LaunchCount(b) = LP!LaunchCount(b)
    <3>1. \A hs : LHB!IdleHalves(hs) = LP!IdleHalves(hs)
      BY <1>1 DEF LHB!IdleHalves, LP!IdleHalves
    <3>2. \A hs : LHB!Outstanding(hs) = LP!Outstanding(hs)
      BY <1>1, <1>c DEF LHB!Outstanding, LP!Outstanding, LHB!InFlight, LP!InFlight
    <3> QED
      BY <1>c, <3>1, <3>2 DEF LHB!LaunchCount, LP!LaunchCount, LHB!Least, LP!Least,
         LHB!Greatest, LP!Greatest
  <2>3. \A hs, i : LHB!Rank(hs, i) = LP!Rank(hs, i)
    BY <1>1, <1>c DEF LHB!Rank, LP!Rank, LHB!IdleHalves, LP!IdleHalves
  <2>4. \A c, token, t : LHB!FilledHalf(c, token, t) = LP!FilledHalf(c, token, t)
    BY Zenon DEF LHB!FilledHalf, LP!FilledHalf, LHB!Greatest, LP!Greatest,
       LHB!Factor, LP!Factor
  <2>5. \A hs : LHB!IdleHalves(hs) = LP!IdleHalves(hs)
    BY <1>1 DEF LHB!IdleHalves, LP!IdleHalves
  <2>6. \A b, t : LHB!LaunchFills(b, t) = LP!LaunchFills(b, t)
    <3> SUFFICES ASSUME NEW b, NEW t PROVE LHB!LaunchFills(b, t) = LP!LaunchFills(b, t)
      OBVIOUS
    <3> QED
      BY <1>1, <2>2, <2>3, <2>4, <2>5 DEF LHB!LaunchFills, LP!LaunchFills
  <2>7. \A b, t : LHB!Ticked(b, t) = LP!Ticked(b, t)
    BY <2>1, <2>6 DEF LHB!Ticked, LP!Ticked
  <2>8. \A hs, t : LHB!Landing(hs, t) = LP!Landing(hs, t)
    BY <1>1, <1>c DEF LHB!Landing, LP!Landing, LHB!LandsBy, LP!LandsBy,
       LHB!InFlight, LP!InFlight
  <2>9. \A b, n, s : LHB!Becomes(b, n, s) <=> LP!Becomes(b, n, s)
    BY DEF LHB!Becomes, LP!Becomes
  <2>10. LHB!Tick <=> LP!Tick
    BY <1>1, <2>7, <2>8, <2>9 DEF LHB!Tick, LP!Tick, LHB!Aged, LP!Aged, LHB!Buffer,
       LP!Buffer, LHB!Greatest, LP!Greatest
  <2>11. \A hs, d : LHB!Covering(hs, d) = LP!Covering(hs, d)
    BY <1>1 DEF LHB!Covering, LP!Covering, LHB!Covers, LP!Covers
  <2>12. \A hs, d : LHB!FindHalf(hs, d) = LP!FindHalf(hs, d)
    BY <1>1 DEF LHB!FindHalf, LP!FindHalf, LHB!Covering, LP!Covering, LHB!Covers, LP!Covers
  <2>13. \A h, d : LHB!Consume(h, d) = LP!Consume(h, d)
    BY DEF LHB!Consume, LP!Consume, LHB!Least, LP!Least
  <2>14. \A h : LHB!InFlight(h) <=> LP!InFlight(h)
    BY DEF LHB!InFlight, LP!InFlight
  <2>15. \A b, d : LHB!AfterAccess(b, d) = LP!AfterAccess(b, d)
    BY <2>6, <2>11, <2>12, <2>13, <2>14
       DEF LHB!AfterAccess, LP!AfterAccess, LHB!EmptyHalf, LP!EmptyHalf
  <2>16. \A b, d : LHB!Drains(b, d) <=> LP!Drains(b, d)
    BY <2>11, <2>12, <2>13, <2>14 DEF LHB!Drains, LP!Drains
  <2>17. \A b, d : LHB!Result(b, d) = LP!Result(b, d)
    <3>1. \A o, h, w, s, l : LHB!Answer(o, h, w, s, l) = LP!Answer(o, h, w, s, l)
      BY DEF LHB!Answer, LP!Answer
    <3>2. \A d : LHB!DemandLatency(d) = LP!DemandLatency(d)
      BY DEF LHB!DemandLatency, LP!DemandLatency
    <3>3. \A h : LHB!HasLanded(h) = LP!HasLanded(h)
      BY Zenon DEF LHB!HasLanded, LP!HasLanded
    <3>4. \A a, b : LHB!Greatest(a, b) = LP!Greatest(a, b)
      BY DEF LHB!Greatest, LP!Greatest
    <3> QED
      <4> SUFFICES ASSUME NEW b, NEW d PROVE LHB!Result(b, d) = LP!Result(b, d)
        OBVIOUS
      <4> QED
        BY <2>11, <2>12, <2>14, <3>1, <3>2, <3>3, <3>4 DEF LHB!Result, LP!Result
  <2>18. \A d : LHB!Access(d) <=> LP!Access(d)
    BY <2>7, <2>8, <2>9, <2>15, <2>16, <2>17 DEF LHB!Access, LP!Access, LHB!Buffer, LP!Buffer
  <2> QED
    BY <2>10, <2>18
<1>5. \A token : LHB!FillComplete(token) <=> LP!FillComplete(token)
  BY DEF LHB!FillComplete, LP!FillComplete, LHB!Halves, LP!Halves
<1>6. \A h, d : LHB!Covers(h, d) <=> LP!Covers(h, d)
  BY DEF LHB!Covers, LP!Covers
<1>7. \A r : LHB!ReadyTime(r) = LP!ReadyTime(r)
  BY DEF LHB!ReadyTime, LP!ReadyTime
<1> QED
  BY <1>1, <1>2, <1>3, <1>4, <1>5, <1>6, <1>7

-----------------------------------------------------------------------------
(* Counting the places a request can be in.                                 *)

\* A set of positions that is closed downwards is an initial segment.
LEMMA InitialSegment ==
  ASSUME NEW m \in Nat, NEW S \in SUBSET (1 .. m),
         \A i \in S : \A j \in 1 .. i : j \in S
  PROVE  Cardinality(S) \in 0 .. m /\ S = 1 .. Cardinality(S)
<1> DEFINE n == Cardinality(S)
<1>1. IsFiniteSet(1 .. m) /\ Cardinality(1 .. m) = m
  BY FS_Interval
<1>2. IsFiniteSet(S) /\ n \in Nat /\ n <= m
  <2>1. IsFiniteSet(S) /\ Cardinality(S) <= Cardinality(1 .. m)
    BY <1>1, FS_Subset
  <2> QED
    BY <1>1, <2>1, FS_CardinalityType
<1>3. ASSUME NEW k \in S, k > n PROVE FALSE
  <2>1. k \in Nat /\ IsFiniteSet(1 .. k) /\ Cardinality(1 .. k) = k
    BY FS_Interval
  <2>2. 1 .. k \in SUBSET S
    OBVIOUS
  <2>3. k <= n
    BY <1>2, <2>1, <2>2, FS_Subset
  <2> QED
    BY <1>2, <1>3, <2>1, <2>3
<1>4. IsFiniteSet(1 .. n) /\ Cardinality(1 .. n) = n
  BY <1>2, FS_Interval
<1>5. S \in SUBSET (1 .. n)
  BY <1>2, <1>3
<1>6. S = 1 .. n
  BY <1>4, <1>5, FS_Subset
<1> QED
  BY <1>2, <1>6

\* A function takes at most as many values as it has arguments.
LEMMA ImageBound ==
  ASSUME NEW S, IsFiniteSet(S), NEW f, DOMAIN f = S
  PROVE  /\ IsFiniteSet({f[x] : x \in S})
         /\ Cardinality({f[x] : x \in S}) \in Nat
         /\ Cardinality({f[x] : x \in S}) <= Cardinality(S)
<1> DEFINE T == {f[x] : x \in S}
           g == [x \in S |-> f[x]]
<1>1. g \in Surjection(S, T)
  BY DEF Surjection
<1> HIDE DEF g
<1>2. IsFiniteSet(T) /\ Cardinality(T) <= Cardinality(S)
  BY <1>1, FS_Surjection
<1> QED
  BY <1>2, FS_CardinalityType

\* Sets that have no member in common are counted apart.
LEMMA CountApart ==
  ASSUME NEW S, NEW T, IsFiniteSet(S), IsFiniteSet(T), S \cap T = {}
  PROVE  Cardinality(S \cup T) = Cardinality(S) + Cardinality(T)
<1>1. Cardinality(S \cap T) = 0
  BY FS_EmptySet
<1>2. Cardinality(S) \in Nat /\ Cardinality(T) \in Nat
  BY FS_CardinalityType
<1>3. Cardinality(S \cup T) = Cardinality(S) + Cardinality(T) - Cardinality(S \cap T)
  BY FS_Union
<1> QED
  BY <1>1, <1>2, <1>3

\* A union is counted at most once for each part.
LEMMA CountUnion ==
  ASSUME NEW S, NEW T, IsFiniteSet(S), IsFiniteSet(T),
         NEW m \in Nat, NEW n \in Nat, Cardinality(S) <= m, Cardinality(T) <= n
  PROVE  IsFiniteSet(S \cup T) /\ Cardinality(S \cup T) <= m + n
<1>1. /\ IsFiniteSet(S \cup T)
      /\ Cardinality(S \cup T) = Cardinality(S) + Cardinality(T) - Cardinality(S \cap T)
  BY FS_Union
<1>2. Cardinality(S) \in Nat /\ Cardinality(T) \in Nat
  BY FS_CardinalityType
<1>3. Cardinality(S \cap T) \in Nat
  BY FS_Intersection, FS_CardinalityType
<1> QED
  BY <1>1, <1>2, <1>3

\* The places of an index w of parked requests, and the requests in them.
Slots(w) == UNION {{h} \X DOMAIN w[h] : h \in LHB!Halves}

ParkedIn(w) == {w[x[1]][x[2]] : x \in Slots(w)}

LEMMA SlotsFinite ==
  ASSUME NEW w \in [LHB!Halves -> Seq(Requests)]
  PROVE  IsFiniteSet(Slots(w)) /\ Cardinality(Slots(w)) \in Nat
<1> DEFINE f == [h \in LHB!Halves |-> {h} \X DOMAIN w[h]]
           T == {f[h] : h \in LHB!Halves}
<1>1. IsFiniteSet(LHB!Halves)
  BY ConstantTypes, FS_Interval DEF LHB!Halves
<1>2. ASSUME NEW h \in LHB!Halves PROVE IsFiniteSet(f[h])
  <2>1. w[h] \in Seq(Requests)
    OBVIOUS
  <2>2. DOMAIN w[h] = 1 .. Len(w[h]) /\ Len(w[h]) \in Nat
    BY <2>1, LenProperties
  <2>3. IsFiniteSet(1 .. Len(w[h]))
    BY <2>2, FS_Interval
  <2>4. IsFiniteSet({h})
    BY FS_Singleton
  <2> QED
    BY <2>2, <2>3, <2>4, FS_Product
<1>3. Slots(w) = UNION T
  BY DEF Slots
<1>4. DOMAIN f = LHB!Halves /\ \A x \in T : IsFiniteSet(x)
  BY <1>2
<1> HIDE DEF f
<1>5. IsFiniteSet(T)
  BY <1>1, <1>4, ImageBound
<1> QED
  BY <1>3, <1>4, <1>5, FS_UNION, FS_CardinalityType

\* Parking a request takes one place more.
LEMMA SlotsPark ==
  ASSUME NEW w \in [LHB!Halves -> Seq(Requests)], NEW h \in LHB!Halves,
         NEW r \in Requests
  PROVE  LET v == [w EXCEPT ![h] = Append(@, r)]
         IN  /\ v \in [LHB!Halves -> Seq(Requests)]
             /\ Cardinality(Slots(v)) = Cardinality(Slots(w)) + 1
             /\ ParkedIn(v) = ParkedIn(w) \cup {r}
<1> DEFINE v == [w EXCEPT ![h] = Append(@, r)]
           n == Len(w[h])
<1>1. w[h] \in Seq(Requests) /\ n \in Nat /\ DOMAIN w[h] = 1 .. n
  BY LenProperties
<1>2. /\ Append(w[h], r) \in Seq(Requests)
      /\ DOMAIN Append(w[h], r) = 1 .. n + 1
      /\ \A k \in 1 .. n : Append(w[h], r)[k] = w[h][k]
      /\ Append(w[h], r)[n + 1] = r
  BY <1>1, AppendProperties, LenProperties
<1>3. /\ v \in [LHB!Halves -> Seq(Requests)] /\ v[h] = Append(w[h], r)
      /\ \A i \in LHB!Halves : i # h => v[i] = w[i]
  BY <1>2
<1> HIDE DEF v, n
<1>4. Slots(v) = Slots(w) \cup {<<h, n + 1>>} /\ <<h, n + 1>> \notin Slots(w)
  <2>1. ASSUME NEW i \in LHB!Halves
        PROVE  DOMAIN v[i] = IF i = h THEN 1 .. n + 1 ELSE DOMAIN w[i]
    BY <1>2, <1>3
  <2> QED
    BY <1>1, <2>1 DEF Slots
<1>5. Cardinality(Slots(v)) = Cardinality(Slots(w)) + 1
  BY <1>4, SlotsFinite, FS_AddElement
<1>6. ASSUME NEW x \in Slots(w) PROVE v[x[1]][x[2]] = w[x[1]][x[2]]
  <2>1. PICK i \in LHB!Halves : \E k \in DOMAIN w[i] : x = <<i, k>>
    BY DEF Slots
  <2>2. PICK k \in DOMAIN w[i] : x = <<i, k>>
    BY <2>1
  <2>3. v[i][k] = w[i][k]
    BY <1>1, <1>2, <1>3
  <2> QED
    BY <2>2, <2>3
<1>7. v[h][n + 1] = r
  BY <1>2, <1>3
<1>8. ParkedIn(v) = ParkedIn(w) \cup {r}
  <2> DEFINE what(x) == v[x[1]][x[2]]
  <2>1. ParkedIn(v) = {what(x) : x \in Slots(v)}
    BY DEF ParkedIn
  <2>2. ParkedIn(w) = {what(x) : x \in Slots(w)}
    BY <1>6 DEF ParkedIn
  <2>3. what(<<h, n + 1>>) = r
    BY <1>7
  <2> HIDE DEF what
  <2> QED
    BY <1>4, <2>1, <2>2, <2>3
<1> QED
  BY <1>3, <1>5, <1>8 DEF v

\* Releasing a half frees the places of its requests and no other.
LEMMA SlotsRelease ==
  ASSUME NEW w \in [LHB!Halves -> Seq(Requests)], NEW h \in LHB!Halves
  PROVE  LET v == [w EXCEPT ![h] = <<>>]
         IN  /\ v \in [LHB!Halves -> Seq(Requests)]
             /\ Cardinality(Slots(w)) = Cardinality(Slots(v)) + Len(w[h])
             /\ ParkedIn(w) = ParkedIn(v) \cup {w[h][k] : k \in DOMAIN w[h]}
<1> DEFINE v == [w EXCEPT ![h] = <<>>]
           n == Len(w[h])
           T == {h} \X DOMAIN w[h]
<1>1. w[h] \in Seq(Requests) /\ n \in Nat /\ DOMAIN w[h] = 1 .. n
  BY LenProperties
<1>2. <<>> \in Seq(Requests) /\ \A k : k \notin DOMAIN <<>>
  BY EmptySeq
<1>3. /\ v \in [LHB!Halves -> Seq(Requests)] /\ v[h] = <<>>
      /\ \A i \in LHB!Halves : i # h => v[i] = w[i]
  BY <1>2
<1> HIDE DEF v, n
<1>4. Slots(w) = Slots(v) \cup T /\ Slots(v) \cap T = {}
  BY <1>2, <1>3 DEF Slots
<1>5. IsFiniteSet(T) /\ Cardinality(T) = n
  <2>1. IsFiniteSet(DOMAIN w[h]) /\ Cardinality(DOMAIN w[h]) = n
    BY <1>1, FS_Interval
  <2>2. IsFiniteSet({h}) /\ Cardinality({h}) = 1
    BY FS_Singleton
  <2>3. IsFiniteSet(T) /\ Cardinality(T) = 1 * n
    BY <2>1, <2>2, FS_Product
  <2> QED
    BY <1>1, <2>3
<1>6. Cardinality(Slots(w)) = Cardinality(Slots(v)) + n
  BY <1>3, <1>4, <1>5, SlotsFinite, CountApart
<1>7. ASSUME NEW x \in Slots(v) PROVE v[x[1]][x[2]] = w[x[1]][x[2]]
  <2>1. PICK i \in LHB!Halves : \E k \in DOMAIN v[i] : x = <<i, k>>
    BY DEF Slots
  <2>2. PICK k \in DOMAIN v[i] : x = <<i, k>>
    BY <2>1
  <2>3. v[i][k] = w[i][k]
    BY <1>2, <1>3
  <2> QED
    BY <2>2, <2>3
<1>8. ParkedIn(w) = ParkedIn(v) \cup {w[h][k] : k \in DOMAIN w[h]}
  <2>1. ParkedIn(w) = {w[x[1]][x[2]] : x \in Slots(v)} \cup {w[x[1]][x[2]] : x \in T}
    BY <1>4 DEF ParkedIn
  <2>2. {w[x[1]][x[2]] : x \in Slots(v)} = ParkedIn(v)
    BY <1>7 DEF ParkedIn
  <2>3. {w[x[1]][x[2]] : x \in T} = {w[h][k] : k \in DOMAIN w[h]}
    <3>1. \A x \in T : x[2] \in DOMAIN w[h] /\ w[x[1]][x[2]] = w[h][x[2]]
      OBVIOUS
    <3>2. \A k \in DOMAIN w[h] :
            <<h, k>> \in T /\ w[<<h, k>>[1]][<<h, k>>[2]] = w[h][k]
      OBVIOUS
    <3> HIDE DEF T
    <3>3. ASSUME NEW y \in {w[x[1]][x[2]] : x \in T}
          PROVE  y \in {w[h][k] : k \in DOMAIN w[h]}
      BY <3>1
    <3>4. ASSUME NEW k \in DOMAIN w[h] PROVE w[h][k] \in {w[x[1]][x[2]] : x \in T}
      BY <3>2
    <3> QED
      BY <3>3, <3>4
  <2> QED
    BY <2>1, <2>2, <2>3
<1> QED
  BY <1>3, <1>6, <1>8 DEF v, n

\* The requests in a queue of entries, in all places outside the GPU, and the
\* number of these places.
PendingEntry == [req : Requests, left : Nat, lat : Nat]

Reqs(q) == {q[k].req : k \in DOMAIN q}

Held(p, a, w, d, q) == Reqs(p) \cup a \cup ParkedIn(w) \cup Reqs(d) \cup Seqs!ToSet(q)

Places(p, a, w, d, q) ==
  Len(p) + Cardinality(a) + Cardinality(Slots(w)) + Len(d) + Len(q)

\* No more requests are held than there are places.
LEMMA HeldInPlaces ==
  ASSUME NEW p \in Seq(PendingEntry), NEW a, IsFiniteSet(a),
         NEW w \in [LHB!Halves -> Seq(Requests)], NEW d \in Seq(Entry),
         NEW q \in Seq(Requests)
  PROVE  /\ IsFiniteSet(Held(p, a, w, d, q))
         /\ Cardinality(Held(p, a, w, d, q)) <= Places(p, a, w, d, q)
<1>1. ASSUME NEW T, NEW s \in Seq(T)
      PROVE  /\ IsFiniteSet(Reqs(s)) /\ Cardinality(Reqs(s)) <= Len(s)
             /\ IsFiniteSet(Seqs!ToSet(s)) /\ Cardinality(Seqs!ToSet(s)) <= Len(s)
  <2> DEFINE f == [k \in DOMAIN s |-> s[k].req]
  <2>1. DOMAIN s = 1 .. Len(s) /\ Len(s) \in Nat
    BY LenProperties
  <2> DEFINE n == Len(s)
  <2>2. n \in Nat => IsFiniteSet(1 .. n) /\ Cardinality(1 .. n) = n
    <3> HIDE DEF n
    <3> QED
      BY FS_Interval
  <2>3. IsFiniteSet(DOMAIN s) /\ Cardinality(DOMAIN s) = Len(s)
    BY <2>1, <2>2
  <2>4. DOMAIN f = DOMAIN s /\ Reqs(s) = {f[k] : k \in DOMAIN s}
    BY DEF Reqs
  <2> HIDE DEF f
  <2>5. /\ IsFiniteSet({f[k] : k \in DOMAIN s})
        /\ Cardinality({f[k] : k \in DOMAIN s}) <= Cardinality(DOMAIN s)
    BY <2>3, <2>4, ImageBound
  <2>6. /\ IsFiniteSet({s[k] : k \in DOMAIN s})
        /\ Cardinality({s[k] : k \in DOMAIN s}) <= Cardinality(DOMAIN s)
    BY <2>3, ImageBound
  <2>7. Seqs!ToSet(s) = {s[k] : k \in DOMAIN s}
    BY DEF Seqs!ToSet
  <2> QED
    BY <2>3, <2>4, <2>5, <2>6, <2>7
<1>2. IsFiniteSet(ParkedIn(w)) /\ Cardinality(ParkedIn(w)) <= Cardinality(Slots(w))
  <2> DEFINE f == [x \in Slots(w) |-> w[x[1]][x[2]]]
  <2>1. DOMAIN f = Slots(w) /\ ParkedIn(w) = {f[x] : x \in Slots(w)}
    BY DEF ParkedIn
  <2> HIDE DEF f
  <2>2. /\ IsFiniteSet({f[x] : x \in Slots(w)})
        /\ Cardinality({f[x] : x \in Slots(w)}) <= Cardinality(Slots(w))
    BY <2>1, SlotsFinite, ImageBound
  <2> QED
    BY <2>1, <2>2
<1>3. /\ Len(p) \in Nat /\ Len(d) \in Nat /\ Len(q) \in Nat
      /\ Cardinality(a) \in Nat /\ Cardinality(Slots(w)) \in Nat
      /\ Cardinality(a) <= Cardinality(a)
  BY LenProperties, FS_CardinalityType, SlotsFinite
<1> DEFINE A == Reqs(p) \cup a
           B == A \cup ParkedIn(w)
           C == B \cup Reqs(d)
           m == Len(p) + Cardinality(a)
           n == m + Cardinality(Slots(w))
           o == n + Len(d)
<1>4. IsFiniteSet(Reqs(p)) /\ Cardinality(Reqs(p)) <= Len(p)
  BY <1>1
<1>5. IsFiniteSet(Reqs(d)) /\ Cardinality(Reqs(d)) <= Len(d)
  BY <1>1
<1>6. IsFiniteSet(A) /\ Cardinality(A) <= m
  BY <1>3, <1>4, CountUnion
<1>7. m \in Nat /\ n \in Nat /\ o \in Nat
  BY <1>3
<1> HIDE DEF A, m
<1>8. IsFiniteSet(B) /\ Cardinality(B) <= n
  BY <1>2, <1>3, <1>6, <1>7, CountUnion
<1> HIDE DEF B, n
<1>9. IsFiniteSet(C) /\ Cardinality(C) <= o
  BY <1>3, <1>5, <1>7, <1>8, CountUnion
<1> HIDE DEF C, o
<1>10. /\ IsFiniteSet(C \cup Seqs!ToSet(q))
       /\ Cardinality(C \cup Seqs!ToSet(q)) <= o + Len(q)
  BY <1>1, <1>3, <1>7, <1>9, CountUnion
<1> QED
  BY <1>10 DEF Held, Places, A, B, C, m, n, o

\* What the model's own counters come to.
LEMMA HeldInside ==
  /\ Parked = Slots(waiters)
  /\ Inside \cup Seqs!ToSet(returnQueue)
       = Held(pending, asyncPending, waiters, asyncDone, returnQueue)
  /\ Unfinished + Len(asyncDone) + Len(returnQueue)
       = Places(pending, asyncPending, waiters, asyncDone, returnQueue)
<1>1. Parked = Slots(waiters)
  BY DEF Parked, Slots
<1> QED
  BY <1>1 DEF Inside, Unfinished, Held, Places, Reqs, ParkedIn

-----------------------------------------------------------------------------
(* Types.                                                                   *)

\* What is true of the buffer stays true: the backend moves it only by its own
\* operations.
BufferInv == LP!LhbInv

LEMMA BufferTypes ==
  /\ BufferInv => LHB!TypeOK
  /\ BufferInv' => LHB!TypeOK'
<1>1. LHB!HalfType = LP!HalfType /\ LHB!ChunkType = LP!ChunkType
  BY DEF LHB!HalfType, LP!HalfType, LHB!States, LP!States, LHB!ChunkType, LP!ChunkType
<1>2. LHB!Outcomes = LP!Outcomes
  BY DEF LHB!Outcomes, LP!Outcomes
<1>3. BufferInv => LHB!TypeOK
  BY <1>1, <1>2, SameBuffer DEF BufferInv, LP!LhbInv, LP!TypeOK, LHB!TypeOK
<1>4. BufferInv' => LHB!TypeOK'
  BY <1>1, <1>2, SameBuffer DEF BufferInv, LP!LhbInv, LP!TypeOK, LHB!TypeOK
<1> QED
  BY <1>3, <1>4

LEMMA BufferInit == Init => BufferInv
BY BufferConstants, SameBuffer, LP!LhbInvInit DEF Init, BufferInv

\* A step of the backend moves the buffer by one operation or not at all.
LEMMA BufferMoves ==
  ASSUME TypeOK, [Next]_vars
  PROVE  \/ \E t \in {Schedule[k].tensor : k \in DOMAIN Schedule} : LP!IssueHint(t)
         \/ LP!Tick
         \/ \E d \in {DemandOf(r) : r \in Requests} : LP!Access(d)
         \/ \E token \in fills : FillDone(token) /\ LP!FillComplete(token)
         \/ UNCHANGED lhbVars
<1>1. ASSUME NEW r \in Requests, Push(r)
      PROVE  LP!Access(DemandOf(r)) \/ UNCHANGED lhbVars
  BY <1>1, SameBuffer
     DEF Push, PushHbm, PushHbf, PushRejected, PushBackendFull
<1>2. ASSUME NEW r \in Requests, DemandDone(r) PROVE UNCHANGED lhbVars
  BY <1>2 DEF DemandDone
<1>3. ASSUME NEW token \in fills, FillDone(token) PROVE LP!FillComplete(token)
  BY <1>3, SameBuffer DEF FillDone
<1>4. CASE ScheduleHint
  <2>1. nextHint \in DOMAIN Schedule
    BY <1>4, ConstantTypes DEF ScheduleHint, HintDue, TypeOK
  <2> QED
    BY <1>4, <2>1, SameBuffer DEF ScheduleHint
<1>5. CASE TickLhb
  BY <1>5, SameBuffer DEF TickLhb
<1>6. CASE \/ CollectNothing \/ BeginCycle \/ HintsIssued \/ TickHbm \/ TickHbf
           \/ RetireAsync \/ RetirePending \/ Retired \/ PushNothing \/ Collect
           \/ UNCHANGED vars
  BY <1>6 DEF CollectNothing, BeginCycle, HintsIssued, TickHbm, TickHbf, RetireAsync,
     RetirePending, Retired, PushNothing, Collect, vars
<1> QED
  BY <1>1, <1>2, <1>3, <1>4, <1>5, <1>6 DEF Next, Walk

LEMMA BufferNext == TypeOK /\ BufferInv /\ [Next]_vars => BufferInv'
<1> SUFFICES ASSUME TypeOK, BufferInv, [Next]_vars PROVE BufferInv'
  OBVIOUS
<1>1. [LP!Next]_(LP!vars)
  BY BufferMoves DEF LP!Next, LP!vars, lhbVars
<1> QED
  BY <1>1, BufferConstants, LP!LhbInvNext DEF BufferInv

\* The half a callback is for is the one that stops waiting.
LEMMA LandingHalf ==
  ASSUME BufferInv, NEW token \in fills, FillDone(token)
  PROVE  /\ Landing \in LHB!Halves
         /\ halves[Landing].pending /\ ~halves'[Landing].pending
         /\ \A h \in LHB!Halves : h # Landing => halves'[h] = halves[h]
<1>1. LP!FillComplete(token)
  BY SameBuffer DEF FillDone
<1>2. PICK i \in LP!Halves :
        /\ halves[i].pending /\ ~halves'[i].pending
        /\ \A j \in LP!Halves : j # i => halves'[j] = halves[j]
  BY <1>1, BufferConstants, LP!CallbackFindsHalf DEF BufferInv
<1>3. \E h \in LHB!Halves : halves[h].pending /\ ~halves'[h].pending
  BY <1>2, SameBuffer
<1>4. Landing \in LHB!Halves /\ halves[Landing].pending /\ ~halves'[Landing].pending
  BY <1>3 DEF Landing
<1>5. Landing = i
  BY <1>2, <1>4, SameBuffer
<1> QED
  BY <1>2, <1>4, <1>5, SameBuffer

\* Taking from the front and ageing keep the types of queues and devices.
LEMMA QueueTypes ==
  /\ \A S : \A s \in Seq(S) : s # <<>> => s[1] \in S /\ Tail(s) \in Seq(S)
  /\ \A q \in Seq(PendingEntry) : SoonerAll(q) \in Seq(PendingEntry)
  /\ \A q \in Seq(Entry) : SoonerAll(q) \in Seq(Entry)
<1>1. \A S : \A s \in Seq(S) : s # <<>> => s[1] \in S /\ Tail(s) \in Seq(S)
  BY HeadTailProperties
<1>2. \A n \in Nat : Sooner(n) \in Nat
  BY DEF Sooner
<1>3. ASSUME NEW q \in Seq(PendingEntry) PROVE SoonerAll(q) \in Seq(PendingEntry)
  <2>1. DOMAIN q = 1 .. Len(q) /\ Len(q) \in Nat /\ \A k \in 1 .. Len(q) : q[k] \in PendingEntry
    BY LenProperties, ElementOfSeq
  <2>2. \A k \in 1 .. Len(q) : [q[k] EXCEPT !.left = Sooner(@)] \in PendingEntry
    BY <1>2, <2>1 DEF PendingEntry
  <2> QED
    BY <2>1, <2>2 DEF SoonerAll
<1>4. ASSUME NEW q \in Seq(Entry) PROVE SoonerAll(q) \in Seq(Entry)
  <2>1. DOMAIN q = 1 .. Len(q) /\ Len(q) \in Nat /\ \A k \in 1 .. Len(q) : q[k] \in Entry
    BY LenProperties, ElementOfSeq
  <2>2. \A k \in 1 .. Len(q) : [q[k] EXCEPT !.left = Sooner(@)] \in Entry
    BY <1>2, <2>1 DEF Entry
  <2> QED
    BY <2>1, <2>2 DEF SoonerAll
<1> QED
  BY <1>1, <1>3, <1>4

LEMMA DeviceTypes ==
  ASSUME NEW dev \in Device
  PROVE  /\ SoonerDevice(dev) \in Device
         /\ [dev EXCEPT !.done = Popped(@)] \in Device
         /\ \A t, transfer \in Nat :
              BusFree(dev, t, transfer) \in Nat /\ BusFree(dev, t, transfer) >= t
         /\ \A t, transfer, latency \in Nat : Enqueued(dev, t, transfer, latency) \in Device
<1>1. dev.next \in Nat /\ dev.done \in Seq(Nat)
  BY DEF Device
<1>2. /\ DOMAIN dev.done = 1 .. Len(dev.done) /\ Len(dev.done) \in Nat
      /\ \A k \in 1 .. Len(dev.done) : dev.done[k] \in Nat
  BY <1>1, LenProperties, ElementOfSeq
<1>3. SoonerDevice(dev) \in Device
  <2>1. \A n \in Nat : Sooner(n) \in Nat
    BY DEF Sooner
  <2> DEFINE d == dev.done
  <2>2. [k \in DOMAIN d |-> Sooner(d[k])] \in Seq(Nat)
    <3>1. DOMAIN d = 1 .. Len(d) /\ Len(d) \in Nat /\ \A k \in 1 .. Len(d) : d[k] \in Nat
      BY <1>2
    <3> HIDE DEF d
    <3> QED
      BY <2>1, <3>1
  <2> QED
    BY <1>1, <2>1, <2>2 DEF SoonerDevice, Device
<1>4. Popped(dev.done) \in Seq(Nat)
  <2> DEFINE d == dev.done
             m == Len(d)
             S == {k \in 1 .. m : \A j \in 1 .. k : d[j] = 0}
             n == Cardinality(S)
             P(x) == (\A k \in 1 .. x : d[k] = 0) /\ (x < m => d[x + 1] # 0)
             x == CHOOSE y \in 0 .. m : P(y)
  <2>1. m \in Nat /\ \A k \in 1 .. m : d[k] \in Nat
    BY <1>2
  <2>2. Popped(d) = SubSeq(d, x + 1, m)
    BY DEF Popped
  <2> HIDE DEF d
  <2>3. n \in 0 .. m /\ S = 1 .. n
    <3>1. S \in SUBSET (1 .. m) /\ \A i \in S : \A j \in 1 .. i : j \in S
      BY <2>1
    <3> HIDE DEF S
    <3> QED
      BY <2>1, <3>1, InitialSegment
  <2> HIDE DEF n, m
  <2>4. \A k \in 1 .. n : d[k] = 0
    BY <2>3
  <2>5. ASSUME n < m, d[n + 1] = 0 PROVE FALSE
    <3>1. n + 1 \in 1 .. m /\ \A j \in 1 .. n + 1 : j \in 1 .. n \/ j = n + 1
      BY <2>1, <2>3, <2>5
    <3>2. n + 1 \in S
      BY <2>4, <2>5, <3>1
    <3> HIDE DEF S
    <3> QED
      BY <2>3, <3>2
  <2> HIDE DEF S
  <2>6. P(n)
    BY <2>4, <2>5
  <2>7. x \in 0 .. m
    BY <2>3, <2>6
  <2> HIDE DEF x
  <2>8. SubSeq(d, x + 1, m) \in Seq(Nat)
    BY <2>1, <2>7, SubSeqProperties
  <2> QED
    BY <2>2, <2>8 DEF d, m
<1>5. ASSUME NEW t \in Nat, NEW transfer \in Nat
      PROVE  /\ \A latency \in Nat : Enqueued(dev, t, transfer, latency) \in Device
             /\ BusFree(dev, t, transfer) \in Nat
             /\ BusFree(dev, t, transfer) >= t
  <2>1. BusFree(dev, t, transfer) \in Nat /\ BusFree(dev, t, transfer) >= t
    BY <1>1 DEF BusFree, LHB!Greatest
  <2>2. \A latency \in Nat : Append(dev.done, BusFree(dev, t, transfer) + latency) \in Seq(Nat)
    BY <1>1, <2>1, AppendProperties
  <2> QED
    BY <2>1, <2>2 DEF Enqueued, Device
<1> QED
  BY <1>1, <1>3, <1>4, <1>5 DEF Device

\* A new entry goes behind those that are ready no later, and before the rest.
LEMMA InsertedAt ==
  ASSUME NEW q \in Seq(PendingEntry), NEW r \in Requests, NEW ready \in Nat,
         \A j, k \in DOMAIN q : j < k => q[j].left <= q[k].left
  PROVE  LET e == [req |-> r, left |-> ready, lat |-> ready]
             v == Inserted(q, r, ready)
         IN  /\ v \in Seq(PendingEntry) /\ Len(v) = Len(q) + 1
             /\ Reqs(v) = Reqs(q) \cup {r}
             /\ \A k \in DOMAIN v : v[k] = e \/ \E j \in DOMAIN q : v[k] = q[j]
             /\ \A j, k \in DOMAIN v : j < k => v[j].left <= v[k].left
<1> DEFINE e == [req |-> r, left |-> ready, lat |-> ready]
           v == Inserted(q, r, ready)
           m == Len(q)
           S == {k \in DOMAIN q : q[k].left <= ready}
           n == Cardinality(S)
<1>1. DOMAIN q = 1 .. m /\ m \in Nat /\ \A k \in 1 .. m : q[k] \in PendingEntry
  BY LenProperties, ElementOfSeq
<1>2. \A k \in 1 .. m : q[k].left \in Nat
  BY <1>1 DEF PendingEntry
<1>3. n \in 0 .. m /\ S = 1 .. n
  <2>1. S \in SUBSET (1 .. m)
    BY <1>1
  <2>2. ASSUME NEW i \in S, NEW j \in 1 .. i PROVE j \in S
    <3>1. i \in 1 .. m /\ j \in 1 .. m /\ q[i].left <= ready /\ (j = i \/ j < i)
      BY <1>1
    <3>2. q[j].left <= q[i].left
      BY <1>1, <1>2, <3>1
    <3> QED
      BY <1>1, <1>2, <3>1, <3>2
  <2> HIDE DEF S
  <2> QED
    BY <1>1, <2>1, <2>2, InitialSegment
<1>4. e \in PendingEntry
  BY DEF PendingEntry
<1>5. v = SubSeq(q, 1, n) \o <<e>> \o SubSeq(q, n + 1, m)
  <2>1. v = SubSeq(q, 1, (n + 1) - 1) \o <<e>> \o SubSeq(q, n + 1, m)
    BY DEF Inserted, Seqs!InsertAt
  <2>2. (n + 1) - 1 = n
    BY <1>3
  <2> QED
    BY <2>1, <2>2
<1> HIDE DEF v, n, e, m
<1>6. /\ v \in Seq(PendingEntry) /\ Len(v) = m + 1
      /\ \A k \in 1 .. m + 1 :
           v[k] = IF k <= n THEN q[k] ELSE IF k = n + 1 THEN e ELSE q[k - 1]
  <2> DEFINE a == SubSeq(q, 1, n)
             b == SubSeq(q, n + 1, m)
  <2>1. a \in Seq(PendingEntry) /\ Len(a) = n /\ \A k \in 1 .. n : a[k] = q[k]
    BY <1>1, <1>3, SubSeqProperties
  <2>2. b \in Seq(PendingEntry) /\ Len(b) = m - n /\ \A k \in 1 .. m - n : b[k] = q[n + k]
    <3>1. n + 1 \in Int /\ m \in Int /\ \A i \in n + 1 .. m : q[i] \in PendingEntry
      BY <1>1, <1>3
    <3>2. /\ b \in Seq(PendingEntry)
          /\ Len(b) = IF n + 1 <= m THEN m - (n + 1) + 1 ELSE 0
          /\ \A i \in 1 .. m - (n + 1) + 1 : b[i] = q[(n + 1) + i - 1]
      BY <3>1, SubSeqProperties
    <3> HIDE DEF b
    <3>3. m - (n + 1) + 1 = m - n
      BY <1>1, <1>3
    <3>4. Len(b) = m - n
      BY <1>1, <1>3, <3>2
    <3>5. ASSUME NEW k \in 1 .. m - n PROVE b[k] = q[n + k]
      <4>1. (n + 1) + k - 1 = n + k
        BY <1>1, <1>3
      <4> QED
        BY <3>2, <3>3, <4>1
    <3> QED
      BY <3>2, <3>4, <3>5
  <2>3. <<e>> \in Seq(PendingEntry) /\ Len(<<e>>) = 1 /\ <<e>>[1] = e
    BY <1>4
  <2> HIDE DEF a, b
  <2> DEFINE c == a \o <<e>>
  <2>4. /\ c \in Seq(PendingEntry) /\ Len(c) = n + 1
        /\ \A k \in 1 .. n + 1 : c[k] = IF k <= n THEN q[k] ELSE e
    BY <1>3, <2>1, <2>3, ConcatProperties
  <2> HIDE DEF c
  <2>5. /\ c \o b \in Seq(PendingEntry) /\ Len(c \o b) = m + 1
        /\ \A k \in 1 .. m + 1 : (c \o b)[k] = IF k <= n + 1 THEN c[k] ELSE b[k - (n + 1)]
    <3>1. /\ c \o b \in Seq(PendingEntry) /\ Len(c \o b) = Len(c) + Len(b)
          /\ \A k \in 1 .. Len(c) + Len(b) :
               (c \o b)[k] = IF k <= Len(c) THEN c[k] ELSE b[k - Len(c)]
      BY <2>2, <2>4, ConcatProperties
    <3>2. Len(c) = n + 1 /\ Len(c) + Len(b) = m + 1
      BY <1>1, <1>3, <2>2, <2>4
    <3> QED
      BY <3>1, <3>2
  <2>6. v = c \o b
    BY <1>5 DEF a, b, c
  <2>7. ASSUME NEW k \in 1 .. m + 1
        PROVE  v[k] = IF k <= n THEN q[k] ELSE IF k = n + 1 THEN e ELSE q[k - 1]
    <3>1. CASE k <= n + 1
      BY <1>1, <1>3, <2>4, <2>5, <2>6, <3>1
    <3>2. CASE k > n + 1
      <4>1. k - (n + 1) \in 1 .. m - n /\ n + (k - (n + 1)) = k - 1 /\ ~(k <= n + 1)
        BY <1>1, <1>3, <3>2
      <4>2. v[k] = b[k - (n + 1)]
        BY <2>5, <2>6, <4>1
      <4>3. b[k - (n + 1)] = q[n + (k - (n + 1))]
        BY <2>2, <4>1
      <4> QED
        BY <1>3, <3>2, <4>1, <4>2, <4>3
    <3> QED
      BY <1>3, <3>1, <3>2
  <2> QED
    BY <2>5, <2>6, <2>7
<1>7. DOMAIN v = 1 .. m + 1
  BY <1>6, LenProperties
<1>8. ASSUME NEW k \in DOMAIN v, v[k] # e PROVE \E j \in DOMAIN q : v[k] = q[j]
  <2>1. CASE k <= n
    BY <1>1, <1>3, <1>6, <1>7, <2>1
  <2>2. CASE k > n + 1
    <3>1. k - 1 \in DOMAIN q /\ v[k] = q[k - 1]
      BY <1>1, <1>3, <1>6, <1>7, <2>2
    <3> QED
      BY <3>1
  <2> QED
    BY <1>3, <1>6, <1>7, <1>8, <2>1, <2>2
<1>9. Reqs(v) = Reqs(q) \cup {r}
  <2>1. e.req = r
    BY DEF e
  <2>2. ASSUME NEW j \in DOMAIN q PROVE \E k \in DOMAIN v : v[k] = q[j]
    <3>1. CASE j <= n
      BY <1>1, <1>3, <1>6, <1>7, <3>1
    <3>2. CASE j > n
      <4>1. j + 1 \in DOMAIN v /\ v[j + 1] = q[j]
        BY <1>1, <1>3, <1>6, <1>7, <3>2
      <4> QED
        BY <4>1
    <3> QED
      BY <1>1, <1>3, <3>1, <3>2
  <2>3. n + 1 \in DOMAIN v /\ v[n + 1] = e
    BY <1>1, <1>3, <1>6, <1>7
  <2> QED
    BY <1>8, <2>1, <2>2, <2>3 DEF Reqs
<1>10. ASSUME NEW j \in DOMAIN v, NEW k \in DOMAIN v, j < k
       PROVE  v[j].left <= v[k].left
  <2>1. e.left = ready
    BY DEF e
  <2>2. \A i \in 1 .. m : i <= n <=> q[i].left <= ready
    BY <1>1, <1>3
  <2>3. CASE j <= n /\ k <= n
    BY <1>1, <1>3, <1>6, <1>7, <1>10, <2>3
  <2>4. CASE j <= n /\ k = n + 1
    <3>1. v[j] = q[j] /\ v[k] = e /\ j \in 1 .. m
      BY <1>1, <1>3, <1>6, <1>7, <2>4
    <3>2. q[j].left <= ready
      BY <2>2, <2>4, <3>1
    <3> QED
      BY <2>1, <3>1, <3>2
  <2>5. CASE j <= n /\ k > n + 1
    <3>1. k - 1 \in 1 .. m /\ j \in 1 .. m /\ j < k - 1
      BY <1>1, <1>3, <1>7, <2>5
    <3>2. q[j].left <= q[k - 1].left
      BY <1>1, <3>1
    <3> QED
      BY <1>3, <1>6, <1>7, <2>5, <3>1, <3>2
  <2>6. CASE j = n + 1 /\ k > n + 1
    <3>1. k - 1 \in 1 .. m /\ ~(k - 1 <= n)
      BY <1>1, <1>3, <1>7, <2>6
    <3>2. ~(q[k - 1].left <= ready)
      BY <2>2, <3>1
    <3> QED
      BY <1>2, <1>3, <1>6, <1>7, <2>1, <2>6, <3>1, <3>2
  <2>7. CASE j > n + 1
    <3>1. k - 1 \in 1 .. m /\ j - 1 \in 1 .. m /\ j - 1 < k - 1
      BY <1>1, <1>3, <1>7, <1>10, <2>7
    <3>2. q[j - 1].left <= q[k - 1].left
      BY <1>1, <3>1
    <3> QED
      BY <1>3, <1>6, <1>7, <1>10, <2>7, <3>1, <3>2
  <2> QED
    BY <1>1, <1>3, <1>7, <1>10, <2>3, <2>4, <2>5, <2>6, <2>7
<1> QED
  BY <1>6, <1>8, <1>9, <1>10 DEF v, e, m

\* The inductive invariant: types, a sorted queue, finitely many requests in
\* the devices, and a buffer that is itself in order.
BackendInv == TypeOK /\ PendingOrdered /\ IsFiniteSet(asyncPending) /\ BufferInv

\* Whatever push() decides, the request ends up in one of three places.
LEMMA PushMoves ==
  ASSUME BackendInv, NEW r \in Requests, Push(r)
  PROVE  /\ \/ \E ready \in Nat : Settle(r, ready)
            \/ HandOver(r)
            \/ \E h \in LHB!Halves :
                 /\ Park(r, h)
                 /\ halves'[h].pending /\ LHB!Covers(halves'[h], DemandOf(r))
         /\ hbm' \in Device /\ hbf' \in Device /\ rejectedFull' \in BOOLEAN
<1>1. hbm \in Device /\ hbf \in Device /\ rejectedFull \in BOOLEAN
  BY DEF BackendInv, TypeOK
<1>2. CASE PushHbm(r)
  <2>1. BusFree(hbm, 0, HbmTransfer) + HbmLatency \in Nat
    <3>1. BusFree(hbm, 0, HbmTransfer) \in Nat
      BY <1>1, DeviceTypes, ConstantTypes
    <3> QED
      BY <3>1, ConstantTypes
  <2>2. Enqueued(hbm, 0, HbmTransfer, HbmLatency) \in Device
    BY <1>1, DeviceTypes, ConstantTypes
  <2> QED
    BY <1>1, <1>2, <2>1, <2>2 DEF PushHbm
<1>3. CASE PushHbf(r)
  <2> DEFINE ready == Hop + LHB!ReadyTime(last')
             transfer == r.size * HbfTransfer
             landed == BusFree(hbf, Hop, transfer) + ReadLatency
  <2>1. LP!Access(DemandOf(r)) /\ DemandOf(r) \in {DemandOf(q) : q \in Requests}
    BY <1>3, SameBuffer DEF PushHbf
  <2>2. /\ LP!ReadyTime(last') \in Nat
        /\ last'.waiting =>
             /\ last'.half \in LP!Halves
             /\ halves'[last'.half].pending /\ LP!Covers(halves'[last'.half], DemandOf(r))
    BY <2>1, BufferConstants, LP!AccessAnswers DEF BackendInv, BufferInv
  <2>3. ready \in Nat
    BY <2>2, SameBuffer, ConstantTypes
  <2>4. transfer \in Nat
    <3>1. r.size \in Nat /\ HbfTransfer \in Nat
      BY BackendConstants
    <3> QED
      BY <3>1
  <2> HIDE DEF transfer, ready
  <2>5. landed \in Nat /\ Enqueued(hbf, Hop, transfer, ReadLatency) \in Device
    <3>1. BusFree(hbf, Hop, transfer) \in Nat
      BY <1>1, <2>4, DeviceTypes, ConstantTypes
    <3>2. Enqueued(hbf, Hop, transfer, ReadLatency) \in Device
      BY <1>1, <2>4, DeviceTypes, ConstantTypes
    <3> QED
      BY <3>1, <3>2, ConstantTypes
  <2> HIDE DEF landed
  <2>6. LHB!Greatest(landed, ready) \in Nat
    BY <2>3, <2>5 DEF LHB!Greatest
  <2>7. /\ \/ last'.waiting /\ Park(r, last'.half) /\ UNCHANGED <<hbf, rejectedFull>>
           \/ Settle(r, ready) /\ UNCHANGED <<hbf, rejectedFull>>
           \/ /\ hbf' = Enqueued(hbf, Hop, transfer, ReadLatency)
              /\ Settle(r, LHB!Greatest(landed, ready))
              /\ UNCHANGED rejectedFull
           \/ HandOver(r) /\ UNCHANGED <<hbf, rejectedFull>>
           \/ Settle(r, ready) /\ rejectedFull' = TRUE /\ UNCHANGED hbf
        /\ UNCHANGED hbm
    BY <1>3 DEF PushHbf, ready, landed, transfer
  <2>8. CASE last'.waiting /\ Park(r, last'.half) /\ UNCHANGED <<hbf, rejectedFull>>
    BY <1>1, <2>2, <2>7, <2>8, SameBuffer
  <2> QED
    BY <1>1, <2>3, <2>5, <2>6, <2>7, <2>8
<1>4. CASE PushRejected(r)
  BY <1>1, <1>4 DEF PushRejected, deviceVars
<1>5. CASE PushBackendFull(r)
  BY <1>1, <1>5, ConstantTypes DEF PushBackendFull
<1> QED
  BY <1>2, <1>3, <1>4, <1>5 DEF Push

\* What settling a request does to the queue.
LEMMA SettleMoves ==
  ASSUME BackendInv, NEW r \in Requests, NEW ready \in Nat, Settle(r, ready)
  PROVE  /\ pending' \in Seq(PendingEntry) /\ PendingOrdered'
         /\ Len(pending') = Len(pending) + 1
         /\ Reqs(pending') = Reqs(pending) \cup {r}
         /\ \A k \in DOMAIN pending' :
              \/ pending'[k] = [req |-> r, left |-> ready, lat |-> ready]
              \/ \E j \in DOMAIN pending : pending'[k] = pending[j]
BY InsertedAt DEF BackendInv, TypeOK, PendingEntry, PendingOrdered, Settle

LEMMA BackendInit == Init => BackendInv
<1> SUFFICES ASSUME Init PROVE BackendInv
  OBVIOUS
<1>1. IdleDevice \in Device
  BY EmptySeq DEF IdleDevice, Device
<1>2. LastDue \in Nat
  BY ConstantTypes DEF LastDue
<1>3. \A S : <<>> \in Seq(S)
  BY EmptySeq
<1>4. TypeOK
  <2>1. clock \in 0 .. LastDue /\ nextHint \in 1 .. Len(Schedule) + 1
    BY <1>2, ConstantTypes DEF Init
  <2>2. waiters \in [LHB!Halves -> Seq(Requests)]
    BY <1>3 DEF Init
  <2>3. {hbm, hbf} \subseteq Device
    BY <1>1 DEF Init
  <2>4. LHB!TypeOK
    BY BufferInit, BufferTypes
  <2> QED
    BY <1>3, <2>1, <2>2, <2>3, <2>4 DEF Init, TypeOK
<1>5. PendingOrdered
  BY DEF Init, PendingOrdered
<1>6. IsFiniteSet(asyncPending)
  BY FS_EmptySet DEF Init
<1> QED
  BY <1>4, <1>5, <1>6, BufferInit DEF BackendInv

\* Ageing and taking from the front keep the queue in order.
LEMMA OrderKept ==
  ASSUME NEW q \in Seq(PendingEntry),
         \A j, k \in DOMAIN q : j < k => q[j].left <= q[k].left
  PROVE  /\ LET v == SoonerAll(q)
            IN  \A j, k \in DOMAIN v : j < k => v[j].left <= v[k].left
         /\ q # <<>> => LET v == Tail(q)
                        IN  \A j, k \in DOMAIN v : j < k => v[j].left <= v[k].left
<1>1. /\ DOMAIN q = 1 .. Len(q) /\ Len(q) \in Nat
      /\ \A k \in DOMAIN q : q[k] \in PendingEntry
  BY LenProperties, ElementOfSeq
<1>2. \A m, n \in Nat : m <= n => Sooner(m) <= Sooner(n)
  BY DEF Sooner
<1>3. \A k \in DOMAIN q : q[k].left \in Nat /\ SoonerAll(q)[k].left = Sooner(q[k].left)
  BY <1>1 DEF SoonerAll, PendingEntry
<1>4. DOMAIN SoonerAll(q) = DOMAIN q
  BY DEF SoonerAll
<1>5. LET v == SoonerAll(q)
      IN  \A j, k \in DOMAIN v : j < k => v[j].left <= v[k].left
  BY <1>2, <1>3, <1>4
<1>6. ASSUME q # <<>>
      PROVE  LET v == Tail(q)
             IN  \A j, k \in DOMAIN v : j < k => v[j].left <= v[k].left
  <2> DEFINE v == Tail(q)
  <2>1. /\ v \in Seq(PendingEntry) /\ Len(v) = Len(q) - 1
        /\ \A i \in 1 .. Len(v) : v[i] = q[i + 1]
    BY <1>6, HeadTailProperties
  <2>2. DOMAIN v = 1 .. Len(v)
    BY <2>1, LenProperties
  <2> HIDE DEF v
  <2>3. ASSUME NEW j \in DOMAIN v, NEW k \in DOMAIN v, j < k
        PROVE  v[j].left <= v[k].left
    <3>1. j + 1 \in DOMAIN q /\ k + 1 \in DOMAIN q /\ j + 1 < k + 1
      <4> DEFINE l == Len(q)
      <4>1. l \in Nat /\ DOMAIN q = 1 .. l
        BY <1>1
      <4>2. j \in 1 .. l - 1 /\ k \in 1 .. l - 1
        BY <2>1, <2>2
      <4> HIDE DEF l
      <4>3. j + 1 \in 1 .. l /\ k + 1 \in 1 .. l /\ j + 1 < k + 1
        BY <2>3, <4>1, <4>2
      <4> QED
        BY <4>1, <4>3
    <3>2. q[j + 1].left <= q[k + 1].left
      BY <3>1
    <3>3. v[j] = q[j + 1] /\ v[k] = q[k + 1]
      BY <2>1, <2>2
    <3> QED
      BY <3>2, <3>3
  <2> QED
    BY <2>3 DEF v
<1> QED
  BY <1>5, <1>6

\* The entries of the requests released from a half.
LEMMA ReleasedEntries ==
  ASSUME NEW s \in Seq(Requests)
  PROVE  LET e == [k \in DOMAIN s |-> [req |-> s[k], left |-> SramLatency]]
         IN  /\ e \in Seq(Entry) /\ Len(e) = Len(s)
             /\ Reqs(e) = {s[k] : k \in DOMAIN s}
<1> DEFINE e == [k \in DOMAIN s |-> [req |-> s[k], left |-> SramLatency]]
<1>1. DOMAIN s = 1 .. Len(s) /\ Len(s) \in Nat /\ \A k \in 1 .. Len(s) : s[k] \in Requests
  BY LenProperties, ElementOfSeq
<1>2. \A k \in DOMAIN s : [req |-> s[k], left |-> SramLatency] \in Entry
  BY <1>1, ConstantTypes DEF Entry
<1>3. DOMAIN e = DOMAIN s /\ \A k \in DOMAIN s : e[k] \in Entry /\ e[k].req = s[k]
  BY <1>2
<1>4. e \in Seq(Entry) /\ Len(e) = Len(s)
  BY <1>1, <1>2
<1> HIDE DEF e
<1> QED
  BY <1>3, <1>4 DEF Reqs, e

\* A queue with one entry more, or two queues in a row.
LEMMA LongerQueues ==
  ASSUME NEW T
  PROVE  /\ \A s \in Seq(T) : \A x \in T :
              /\ Append(s, x) \in Seq(T) /\ Len(Append(s, x)) = Len(s) + 1
              /\ Reqs(Append(s, x)) = Reqs(s) \cup {x.req}
              /\ Seqs!ToSet(Append(s, x)) = Seqs!ToSet(s) \cup {x}
         /\ \A s, t \in Seq(T) :
              /\ s \o t \in Seq(T) /\ Len(s \o t) = Len(s) + Len(t)
              /\ Reqs(s \o t) = Reqs(s) \cup Reqs(t)
<1>1. ASSUME NEW s \in Seq(T), NEW x \in T
      PROVE  /\ Append(s, x) \in Seq(T) /\ Len(Append(s, x)) = Len(s) + 1
             /\ Reqs(Append(s, x)) = Reqs(s) \cup {x.req}
             /\ Seqs!ToSet(Append(s, x)) = Seqs!ToSet(s) \cup {x}
  <2> DEFINE v == Append(s, x)
             n == Len(s)
  <2>1. DOMAIN s = 1 .. n /\ n \in Nat
    BY LenProperties
  <2>2. /\ v \in Seq(T) /\ Len(v) = n + 1
        /\ \A i \in 1 .. n : v[i] = s[i]
        /\ v[n + 1] = x
    BY AppendProperties
  <2>3. DOMAIN v = 1 .. n + 1
    BY <2>2, LenProperties
  <2> HIDE DEF v, n
  <2>4. DOMAIN v = DOMAIN s \cup {n + 1}
    BY <2>1, <2>3
  <2>5. \A i \in DOMAIN s : v[i] = s[i]
    BY <2>1, <2>2
  <2>6. Reqs(v) = Reqs(s) \cup {x.req} /\ Seqs!ToSet(v) = Seqs!ToSet(s) \cup {x}
    BY <2>2, <2>4, <2>5 DEF Reqs, Seqs!ToSet
  <2> QED
    BY <2>2, <2>6 DEF v, n
<1>2. ASSUME NEW s \in Seq(T), NEW t \in Seq(T)
      PROVE  /\ s \o t \in Seq(T) /\ Len(s \o t) = Len(s) + Len(t)
             /\ Reqs(s \o t) = Reqs(s) \cup Reqs(t)
  <2> DEFINE v == s \o t
             m == Len(s)
             n == Len(t)
  <2>1. DOMAIN s = 1 .. m /\ m \in Nat /\ DOMAIN t = 1 .. n /\ n \in Nat
    BY LenProperties
  <2>2. /\ v \in Seq(T) /\ Len(v) = m + n
        /\ \A i \in 1 .. m + n : v[i] = IF i <= m THEN s[i] ELSE t[i - m]
    BY ConcatProperties
  <2>3. DOMAIN v = 1 .. m + n
    BY <2>2, LenProperties
  <2> HIDE DEF v, m, n
  <2>4. \A i \in DOMAIN s : i \in DOMAIN v /\ v[i] = s[i]
    BY <2>1, <2>2, <2>3
  <2>5. ASSUME NEW j \in DOMAIN t PROVE j + m \in DOMAIN v /\ v[j + m] = t[j]
    <3>1. j + m \in 1 .. m + n /\ ~(j + m <= m) /\ (j + m) - m = j
      BY <2>1
    <3> QED
      BY <2>2, <2>3, <3>1
  <2>6. ASSUME NEW i \in DOMAIN v
        PROVE  (\E j \in DOMAIN s : v[i] = s[j]) \/ (\E j \in DOMAIN t : v[i] = t[j])
    <3>1. CASE i <= m
      BY <2>1, <2>2, <2>3, <3>1
    <3>2. CASE i > m
      <4>1. i - m \in DOMAIN t /\ v[i] = t[i - m]
        BY <2>1, <2>2, <2>3, <3>2
      <4> QED
        BY <4>1
    <3> QED
      BY <2>1, <2>3, <3>1, <3>2
  <2>7. Reqs(v) = Reqs(s) \cup Reqs(t)
    BY <2>4, <2>5, <2>6 DEF Reqs
  <2> QED
    BY <2>2, <2>7 DEF v, m, n
<1> QED
  BY <1>1, <1>2

LEMMA ShorterQueue ==
  ASSUME NEW T, NEW s \in Seq(T), s # <<>>
  PROVE  /\ s[1] \in T /\ Head(s) = s[1] /\ Tail(s) \in Seq(T)
         /\ Len(s) = Len(Tail(s)) + 1
         /\ Reqs(s) = Reqs(Tail(s)) \cup {s[1].req}
         /\ Seqs!ToSet(s) = Seqs!ToSet(Tail(s)) \cup {s[1]}
<1> DEFINE v == Tail(s)
           n == Len(v)
<1>1. /\ v \in Seq(T) /\ n = Len(s) - 1 /\ \A i \in 1 .. n : v[i] = s[i + 1]
      /\ s[1] \in T /\ Head(s) = s[1]
  BY HeadTailProperties
<1>2. DOMAIN v = 1 .. n /\ n \in Nat /\ DOMAIN s = 1 .. Len(s) /\ Len(s) \in Nat
  BY <1>1, LenProperties
<1> HIDE DEF v, n
<1>3. Len(s) = n + 1 /\ 1 \in DOMAIN s
  BY <1>1, <1>2
<1>4. \A i \in DOMAIN v : i + 1 \in DOMAIN s /\ v[i] = s[i + 1]
  BY <1>1, <1>2, <1>3
<1>5. ASSUME NEW i \in DOMAIN s, i # 1 PROVE \E j \in DOMAIN v : s[i] = v[j]
  <2>1. i - 1 \in DOMAIN v /\ (i - 1) + 1 = i
    BY <1>2, <1>3, <1>5
  <2>2. v[i - 1] = s[i]
    BY <1>4, <2>1
  <2> QED
    BY <2>1, <2>2
<1>6. Reqs(s) = Reqs(v) \cup {s[1].req} /\ Seqs!ToSet(s) = Seqs!ToSet(v) \cup {s[1]}
  BY <1>3, <1>4, <1>5 DEF Reqs, Seqs!ToSet
<1> QED
  BY <1>1, <1>3, <1>6 DEF v, n

LEMMA BackendNext == BackendInv /\ [Next]_vars => BackendInv'
<1> SUFFICES ASSUME BackendInv, [Next]_vars PROVE BackendInv'
  OBVIOUS
<1>1. /\ TypeOK /\ PendingOrdered /\ IsFiniteSet(asyncPending) /\ BufferInv
      /\ BufferInv' /\ LHB!TypeOK'
  BY BufferNext, BufferTypes DEF BackendInv
<1>2. /\ pending \in Seq(PendingEntry) /\ asyncDone \in Seq(Entry)
      /\ returnQueue \in Seq(Requests)
      /\ waiters \in [LHB!Halves -> Seq(Requests)]
  BY <1>1 DEF TypeOK, PendingEntry
<1>3. /\ LastDue \in Nat /\ Len(Schedule) \in Nat
      /\ clock \in 0 .. LastDue /\ nextHint \in 1 .. Len(Schedule) + 1
  <2>1. LastDue \in Nat /\ Len(Schedule) \in Nat
    BY ConstantTypes DEF LastDue
  <2> QED
    BY <1>1, <2>1 DEF TypeOK
<1> USE DEF Go
<1>4. ASSUME UNCHANGED <<pending, asyncPending>>, TypeOK'
      PROVE  BackendInv'
  BY <1>1, <1>4 DEF BackendInv, PendingOrdered
<1>5. CASE Collect
  <2>1. Tail(returnQueue) \in Seq(Requests)
    BY <1>2, <1>5, ShorterQueue DEF Collect
  <2> QED
    BY <1>1, <1>4, <1>5, <2>1 DEF Collect, TypeOK, timeVars, deviceVars
<1>6. CASE \/ CollectNothing \/ HintsIssued \/ TickLhb \/ Retired \/ PushNothing
           \/ UNCHANGED vars
  BY <1>1, <1>4, <1>6 DEF CollectNothing, HintsIssued, TickLhb, Retired, PushNothing,
     TypeOK, timeVars, queueVars, deviceVars, vars
<1>7. CASE BeginCycle
  <2>1. clock' \in 0 .. LastDue
    BY <1>3, <1>7 DEF BeginCycle, LHB!Least
  <2>2. pending' \in Seq(PendingEntry) /\ asyncDone' \in Seq(Entry)
    BY <1>2, <1>7, QueueTypes DEF BeginCycle
  <2>3. {hbm', hbf'} \subseteq Device
    BY <1>1, <1>7, DeviceTypes DEF BeginCycle, TypeOK
  <2>4. TypeOK'
    BY <1>1, <1>7, <2>1, <2>2, <2>3 DEF BeginCycle, TypeOK, PendingEntry
  <2>5. PendingOrdered'
    BY <1>1, <1>2, <1>7, OrderKept DEF BeginCycle, PendingOrdered
  <2> QED
    BY <1>1, <1>7, <2>4, <2>5 DEF BackendInv, BeginCycle
<1>8. CASE ScheduleHint
  <2>1. nextHint' \in 1 .. Len(Schedule) + 1
    BY <1>3, <1>8 DEF ScheduleHint, HintDue
  <2> QED
    BY <1>1, <1>4, <1>8, <2>1 DEF ScheduleHint, TypeOK, queueVars, deviceVars
<1>9. ASSUME NEW r \in Requests, DemandDone(r) PROVE BackendInv'
  <2> USE DEF TickOf
  <2>1. [req |-> r, left |-> 0] \in Entry
    BY DEF Entry
  <2>2. asyncDone' \in Seq(Entry)
    BY <1>2, <1>9, <2>1, LongerQueues DEF DemandDone
  <2>3. IsFiniteSet(asyncPending')
    BY <1>1, <1>9, FS_RemoveElement DEF DemandDone
  <2>4. TypeOK'
    BY <1>1, <1>9, <2>2 DEF DemandDone, TypeOK, timeVars, deviceVars
  <2> QED
    BY <1>1, <1>9, <2>3, <2>4 DEF BackendInv, DemandDone, PendingOrdered
<1>10. ASSUME NEW token \in fills, FillDone(token) PROVE BackendInv'
  <2>1. Landing \in LHB!Halves
    BY <1>1, <1>10, LandingHalf
  <2> DEFINE h == Landing
             s == waiters[h]
             e == [k \in DOMAIN s |-> [req |-> s[k], left |-> SramLatency]]
  <2>2. asyncDone' = asyncDone \o e /\ waiters' = [waiters EXCEPT ![h] = <<>>]
    BY <1>10 DEF FillDone
  <2> HIDE DEF h
  <2>3. s \in Seq(Requests)
    BY <1>2, <2>1 DEF h
  <2>4. waiters' \in [LHB!Halves -> Seq(Requests)]
    BY <1>2, <2>2, EmptySeq
  <2> HIDE DEF s
  <2>5. e \in Seq(Entry)
    BY <2>3, ReleasedEntries
  <2> HIDE DEF e
  <2>6. asyncDone' \in Seq(Entry)
    BY <1>2, <2>2, <2>5, LongerQueues
  <2> QED
    BY <1>1, <1>4, <1>10, <2>4, <2>6 DEF FillDone, TypeOK, timeVars, deviceVars
<1>11. CASE TickHbm \/ TickHbf
  <2>1. {hbm', hbf'} \subseteq Device
    BY <1>1, <1>11, DeviceTypes DEF TickHbm, TickHbf, TypeOK
  <2> QED
    BY <1>1, <1>4, <1>11, <2>1 DEF TickHbm, TickHbf, TypeOK, timeVars, queueVars
<1>12. CASE RetireAsync
  <2>1. asyncDone[1] \in Entry /\ Tail(asyncDone) \in Seq(Entry)
    BY <1>2, <1>12, ShorterQueue DEF RetireAsync
  <2>2. returnQueue' \in Seq(Requests)
    BY <1>2, <1>12, <2>1, LongerQueues DEF RetireAsync, Entry
  <2> QED
    BY <1>1, <1>4, <1>12, <2>1, <2>2 DEF RetireAsync, TypeOK, timeVars, deviceVars
<1>13. CASE RetirePending
  <2>1. pending # <<>> /\ pending' = Tail(pending)
    BY <1>13 DEF RetirePending, PendingReady
  <2>2. pending[1] \in PendingEntry /\ pending' \in Seq(PendingEntry)
    BY <1>2, <2>1, ShorterQueue
  <2>3. returnQueue' \in Seq(Requests)
    BY <1>2, <1>13, <2>2, LongerQueues DEF RetirePending, PendingEntry
  <2>4. TypeOK'
    BY <1>1, <1>13, <2>2, <2>3 DEF RetirePending, TypeOK, PendingEntry, timeVars, deviceVars
  <2>5. PendingOrdered'
    BY <1>1, <1>2, <2>1, OrderKept DEF PendingOrdered
  <2> QED
    BY <1>1, <1>13, <2>4, <2>5 DEF BackendInv, RetirePending
<1>14. ASSUME NEW r \in Requests, Push(r) PROVE BackendInv'
  <2>1. {hbm', hbf'} \subseteq Device /\ rejectedFull' \in BOOLEAN
    BY <1>14, PushMoves
  <2>2. pc' = "drain" /\ UNCHANGED timeVars /\ away' = away \cup {r}
    BY <1>14 DEF Push
  <2>3. ASSUME pending' \in Seq(PendingEntry), asyncPending' \subseteq Requests,
               waiters' \in [LHB!Halves -> Seq(Requests)],
               UNCHANGED <<asyncDone, returnQueue>>
        PROVE  TypeOK'
    BY <1>1, <2>1, <2>2, <2>3 DEF TypeOK, timeVars, PendingEntry
  <2>4. ASSUME NEW ready \in Nat, Settle(r, ready) PROVE BackendInv'
    <3>1. pending' \in Seq(PendingEntry) /\ PendingOrdered'
      BY <2>4, SettleMoves
    <3>2. UNCHANGED <<asyncPending, waiters, asyncDone, returnQueue>>
      BY <2>4 DEF Settle
    <3>3. TypeOK'
      BY <1>1, <1>2, <2>3, <3>1, <3>2 DEF TypeOK
    <3> QED
      BY <1>1, <3>1, <3>2, <3>3 DEF BackendInv
  <2>5. CASE HandOver(r)
    <3>1. asyncPending' \subseteq Requests /\ IsFiniteSet(asyncPending')
      BY <1>1, <2>5, FS_AddElement DEF HandOver, TypeOK
    <3>2. UNCHANGED <<pending, waiters, asyncDone, returnQueue>>
      BY <2>5 DEF HandOver
    <3>3. TypeOK'
      BY <1>2, <2>3, <3>1, <3>2
    <3> QED
      BY <1>1, <3>1, <3>2, <3>3 DEF BackendInv, PendingOrdered
  <2>6. ASSUME NEW h \in LHB!Halves, Park(r, h) PROVE BackendInv'
    <3>1. waiters' \in [LHB!Halves -> Seq(Requests)]
      BY <1>2, <2>6, SlotsPark DEF Park
    <3>2. UNCHANGED <<pending, asyncPending, asyncDone, returnQueue>>
      BY <2>6 DEF Park
    <3>3. TypeOK'
      BY <1>1, <1>2, <2>3, <3>1, <3>2 DEF TypeOK
    <3> QED
      BY <1>4, <3>2, <3>3
  <2> QED
    BY <1>14, <2>4, <2>5, <2>6, PushMoves
<1> QED
  BY <1>5, <1>6, <1>7, <1>8, <1>9, <1>10, <1>11, <1>12, <1>13, <1>14 DEF Next, Walk

LEMMA BackendInvariant == Spec => []BackendInv
BY BackendInit, BackendNext, PTL DEF Spec

\* Every variable of the backend, the six of the buffer inside it included, keeps
\* its type, whatever the devices and the GPU do.
THEOREM TypeCorrect == Spec => []TypeOK
<1>1. BackendInv => TypeOK
  BY DEF BackendInv
<1> QED
  BY <1>1, BackendInvariant, PTL

\* m_pending stays ordered by ready time, so that retire_ready() may look at
\* its front only: no request is overtaken by one that is ready later.
THEOREM PendingStaysOrdered == Spec => []PendingOrdered
<1>1. BackendInv => PendingOrdered
  BY DEF BackendInv
<1> QED
  BY <1>1, BackendInvariant, PTL

-----------------------------------------------------------------------------
(* Every request in one place, and queues within their sizes.               *)

\* Answers from the devices are left over at a push only when the return queue
\* is full, and then full() lets nothing in.
PlacesInv ==
  /\ ExactlyOnePlace
  /\ QueueBounds
  /\ pc = "push" /\ Room => asyncDone = <<>>

AllHeld == Held(pending, asyncPending, waiters, asyncDone, returnQueue)

AllPlaces == Places(pending, asyncPending, waiters, asyncDone, returnQueue)

\* The invariant in terms of what is held.
PlacesHeld ==
  /\ away = AllHeld /\ Cardinality(away) = AllPlaces
  /\ AllPlaces - Len(returnQueue) <= RequestQueueSize
  /\ Len(returnQueue) <= ReturnQueueSize
  /\ pc = "push" /\ Room => asyncDone = <<>>

LEMMA QueueCounts ==
  BackendInv => /\ Len(pending) \in Nat /\ Cardinality(asyncPending) \in Nat
                /\ Cardinality(Slots(waiters)) \in Nat /\ Len(asyncDone) \in Nat
                /\ Len(returnQueue) \in Nat
<1> SUFFICES ASSUME BackendInv
             PROVE  /\ Len(pending) \in Nat /\ Cardinality(asyncPending) \in Nat
                    /\ Cardinality(Slots(waiters)) \in Nat /\ Len(asyncDone) \in Nat
                    /\ Len(returnQueue) \in Nat
  OBVIOUS
<1>1. waiters \in [LHB!Halves -> Seq(Requests)] /\ IsFiniteSet(asyncPending)
  BY DEF BackendInv, TypeOK
<1>2. Cardinality(asyncPending) \in Nat /\ Cardinality(Slots(waiters)) \in Nat
  BY <1>1, SlotsFinite, FS_CardinalityType
<1> QED
  BY <1>2 DEF BackendInv, TypeOK

LEMMA PlacesInvHeld == BackendInv => (PlacesInv <=> PlacesHeld)
<1> SUFFICES ASSUME BackendInv PROVE PlacesInv <=> PlacesHeld
  OBVIOUS
<1>1. Parked = Slots(waiters)
  BY HeldInside
<1> DEFINE a == Len(pending)
           b == Cardinality(asyncPending)
           c == Cardinality(Slots(waiters))
           d == Len(asyncDone)
           e == Len(returnQueue)
<1>2. Unfinished = a + b + c /\ AllPlaces = a + b + c + d + e
  BY <1>1 DEF Unfinished, AllPlaces, Places
<1>3. a \in Nat /\ b \in Nat /\ c \in Nat /\ d \in Nat /\ e \in Nat
  BY QueueCounts
<1>4. AllHeld = Inside \cup Seqs!ToSet(returnQueue)
  BY HeldInside DEF AllHeld
<1> HIDE DEF a, b, c, d, e
<1>5. Unfinished + d + e = AllPlaces /\ AllPlaces - e = Unfinished + d
  BY <1>2, <1>3
<1> QED
  BY <1>4, <1>5 DEF PlacesInv, PlacesHeld, ExactlyOnePlace, QueueBounds, d, e

\* The clock moves no request.
LEMMA SoonerSame ==
  ASSUME NEW T \in {PendingEntry, Entry}, NEW q \in Seq(T)
  PROVE  Reqs(SoonerAll(q)) = Reqs(q) /\ Len(SoonerAll(q)) = Len(q)
<1>1. DOMAIN q = 1 .. Len(q) /\ Len(q) \in Nat /\ \A k \in 1 .. Len(q) : q[k] \in T
  BY LenProperties, ElementOfSeq
<1>2. \A x \in T : [x EXCEPT !.left = Sooner(@)].req = x.req
  BY DEF PendingEntry, Entry
<1>3. DOMAIN SoonerAll(q) = DOMAIN q /\ \A k \in DOMAIN q : SoonerAll(q)[k].req = q[k].req
  BY <1>1, <1>2 DEF SoonerAll
<1>4. SoonerAll(q) \in Seq(T)
  BY QueueTypes
<1>5. Len(SoonerAll(q)) = Len(q)
  BY <1>1, <1>3, <1>4, LenProperties
<1> QED
  BY <1>3, <1>5 DEF Reqs

\* Taking an answer from the return queue takes its request out of the backend.
LEMMA CollectTakesOne ==
  ASSUME BackendInv, PlacesHeld, Collect
  PROVE  PlacesHeld'
<1> DEFINE q == returnQueue
           v == Tail(q)
           H == Held(pending, asyncPending, waiters, asyncDone, v)
           n == Places(pending, asyncPending, waiters, asyncDone, v)
           x == q[1]
<1>1. /\ pending \in Seq(PendingEntry) /\ asyncDone \in Seq(Entry) /\ q \in Seq(Requests)
      /\ waiters \in [LHB!Halves -> Seq(Requests)] /\ IsFiniteSet(asyncPending)
  BY DEF BackendInv, TypeOK, PendingEntry
<1>2. /\ q # <<>> /\ returnQueue' = v /\ away' = away \ {x} /\ pc' = "cycle"
      /\ UNCHANGED <<pending, asyncPending, waiters, asyncDone>>
  BY <1>1, ShorterQueue DEF Collect, Go
<1>3. v \in Seq(Requests) /\ Len(q) = Len(v) + 1 /\ Seqs!ToSet(q) = Seqs!ToSet(v) \cup {x}
  BY <1>1, <1>2, ShorterQueue
<1>4. AllHeld = H \cup {x}
  BY <1>3 DEF AllHeld, Held
<1>5. /\ Len(pending) \in Nat /\ Cardinality(asyncPending) \in Nat
      /\ Cardinality(Slots(waiters)) \in Nat /\ Len(asyncDone) \in Nat /\ Len(v) \in Nat
  BY <1>3, QueueCounts, LenProperties
<1>6. AllPlaces = n + 1 /\ n \in Nat
  BY <1>3, <1>5 DEF AllPlaces, Places
<1>7. n - Len(v) = AllPlaces - Len(q)
  BY <1>3, <1>5, <1>6
<1>8. IsFiniteSet(H) /\ Cardinality(H) <= n
  BY <1>1, <1>3, HeldInPlaces
<1>9. AllHeld' = H /\ AllPlaces' = n
  BY <1>2 DEF AllHeld, AllPlaces
<1>10. away = H \cup {x} /\ Cardinality(away) = n + 1
  BY <1>4, <1>6 DEF PlacesHeld
<1> HIDE DEF H, n, x
<1>11. x \notin H
  <2>1. CASE x \in H
    <3>1. away = H
      BY <1>10, <2>1
    <3> QED
      BY <1>6, <1>8, <1>10, <3>1
  <2> QED
    BY <2>1
<1>12. away' = H
  BY <1>2, <1>10, <1>11
<1>13. Cardinality(away) = Cardinality(H) + 1
  BY <1>8, <1>10, <1>11, FS_AddElement
<1>14. Cardinality(H) \in Nat
  BY <1>8, FS_CardinalityType
<1>15. Cardinality(away') = n
  BY <1>6, <1>10, <1>12, <1>13, <1>14
<1>16. Len(returnQueue') <= ReturnQueueSize
  BY <1>2, <1>3, <1>5, ConstantTypes DEF PlacesHeld
<1>17. AllPlaces' - Len(returnQueue') <= RequestQueueSize
  BY <1>2, <1>7, <1>9 DEF PlacesHeld
<1> QED
  BY <1>2, <1>9, <1>12, <1>15, <1>16, <1>17 DEF PlacesHeld

\* A step that moves requests from place to place keeps the count.
LEMMA MovesKeepPlaces ==
  ASSUME PlacesHeld, away' = away, AllHeld' = AllHeld, AllPlaces' = AllPlaces,
         AllPlaces \in Nat, Len(returnQueue) \in Nat, Len(returnQueue') \in Nat,
         Len(returnQueue') >= Len(returnQueue), Len(returnQueue') <= ReturnQueueSize,
         pc' = "push" /\ Room' => asyncDone' = <<>>
  PROVE  PlacesHeld'
<1>1. AllPlaces' - Len(returnQueue') <= RequestQueueSize
  BY ConstantTypes DEF PlacesHeld
<1> QED
  BY <1>1 DEF PlacesHeld

\* What full() says when it lets a request in.
LEMMA RoomToPush ==
  ASSUME BackendInv, PlacesHeld, pc = "push", ~Full
  PROVE  asyncDone = <<>> /\ AllPlaces - Len(returnQueue) < RequestQueueSize
<1>1. Parked = Slots(waiters)
  BY HeldInside
<1> DEFINE a == Len(pending)
           b == Cardinality(asyncPending)
           c == Cardinality(Slots(waiters))
           d == Len(asyncDone)
           e == Len(returnQueue)
<1>2. Unfinished = a + b + c /\ AllPlaces = a + b + c + d + e
  BY <1>1 DEF Unfinished, AllPlaces, Places
<1>3. a \in Nat /\ b \in Nat /\ c \in Nat /\ d \in Nat /\ e \in Nat
  BY QueueCounts
<1>4. e < ReturnQueueSize /\ Unfinished < RequestQueueSize
  <2>1. ~ (e >= ReturnQueueSize) /\ ~ (Unfinished >= RequestQueueSize)
    BY DEF Full
  <2>2. Unfinished \in Nat
    BY <1>2, <1>3
  <2> QED
    BY <1>3, <2>1, <2>2, ConstantTypes
<1>5. asyncDone = <<>> /\ d = 0
  BY <1>4, EmptySeq DEF PlacesHeld, Room
<1> HIDE DEF a, b, c, d, e
<1>6. AllPlaces - e = Unfinished
  BY <1>2, <1>3, <1>5
<1> QED
  BY <1>4, <1>5, <1>6 DEF e

\* A request pushed takes one more place, and it was in none.
LEMMA PushAddsOne ==
  ASSUME BackendInv, PlacesHeld, NEW r \in Requests, Push(r)
  PROVE  PlacesHeld'
<1> DEFINE a == Len(pending)
           b == Cardinality(asyncPending)
           c == Cardinality(Slots(waiters))
           d == Len(asyncDone)
           e == Len(returnQueue)
<1>1. a \in Nat /\ b \in Nat /\ c \in Nat /\ d \in Nat /\ e \in Nat
  BY QueueCounts
<1>2. AllPlaces = a + b + c + d + e
  BY DEF AllPlaces, Places
<1>3. /\ pc = "push" /\ pc' = "drain" /\ ~Full /\ r \notin away /\ away' = away \cup {r}
  BY DEF Push, Go
<1>4. AllPlaces - e < RequestQueueSize
  BY <1>3, RoomToPush
<1>5. /\ waiters \in [LHB!Halves -> Seq(Requests)] /\ asyncPending \subseteq Requests
      /\ IsFiniteSet(asyncPending)
  BY DEF BackendInv, TypeOK
<1>6. /\ AllHeld' = AllHeld \cup {r} /\ AllPlaces' = AllPlaces + 1
      /\ UNCHANGED returnQueue
  <2>1. ASSUME NEW ready \in Nat, Settle(r, ready)
        PROVE  /\ AllHeld' = AllHeld \cup {r} /\ AllPlaces' = AllPlaces + 1
               /\ UNCHANGED returnQueue
    <3>1. Len(pending') = a + 1 /\ Reqs(pending') = Reqs(pending) \cup {r}
      BY <2>1, SettleMoves
    <3>2. UNCHANGED <<asyncPending, waiters, asyncDone, returnQueue>>
      BY <2>1 DEF Settle
    <3>3. AllHeld' = AllHeld \cup {r}
      BY <3>1, <3>2 DEF AllHeld, Held
    <3>4. AllPlaces' = (a + 1) + b + c + d + e
      BY <3>1, <3>2 DEF AllPlaces, Places
    <3> HIDE DEF a, b, c, d, e
    <3> QED
      BY <1>1, <1>2, <3>2, <3>3, <3>4
  <2>2. ASSUME HandOver(r)
        PROVE  /\ AllHeld' = AllHeld \cup {r} /\ AllPlaces' = AllPlaces + 1
               /\ UNCHANGED returnQueue
    <3>1. asyncPending' = asyncPending \cup {r}
      BY <2>2 DEF HandOver
    <3>2. UNCHANGED <<pending, waiters, asyncDone, returnQueue>>
      BY <2>2 DEF HandOver
    <3>3. r \notin asyncPending
      BY <1>3 DEF PlacesHeld, AllHeld, Held
    <3>4. Cardinality(asyncPending') = b + 1
      BY <1>5, <3>1, <3>3, FS_AddElement
    <3>5. AllHeld' = AllHeld \cup {r}
      BY <3>1, <3>2 DEF AllHeld, Held
    <3>6. AllPlaces' = a + (b + 1) + c + d + e
      BY <3>2, <3>4 DEF AllPlaces, Places
    <3> HIDE DEF a, b, c, d, e
    <3> QED
      BY <1>1, <1>2, <3>2, <3>5, <3>6
  <2>3. ASSUME NEW h \in LHB!Halves, Park(r, h)
        PROVE  /\ AllHeld' = AllHeld \cup {r} /\ AllPlaces' = AllPlaces + 1
               /\ UNCHANGED returnQueue
    <3>1. /\ waiters' = [waiters EXCEPT ![h] = Append(@, r)]
          /\ UNCHANGED <<pending, asyncPending, asyncDone, returnQueue>>
      BY <2>3 DEF Park
    <3>2. Cardinality(Slots(waiters')) = c + 1 /\ ParkedIn(waiters') = ParkedIn(waiters) \cup {r}
      BY <1>5, <3>1, SlotsPark
    <3>3. AllHeld' = AllHeld \cup {r}
      BY <3>1, <3>2 DEF AllHeld, Held
    <3>4. AllPlaces' = a + b + (c + 1) + d + e
      BY <3>1, <3>2 DEF AllPlaces, Places
    <3> HIDE DEF a, b, c, d, e
    <3> QED
      BY <1>1, <1>2, <3>1, <3>3, <3>4
  <2> QED
    BY <2>1, <2>2, <2>3, PushMoves
<1>7. away = AllHeld /\ Cardinality(away) = AllPlaces
  BY DEF PlacesHeld
<1>8. IsFiniteSet(away)
  BY <1>5, <1>7, HeldInPlaces DEF BackendInv, TypeOK, PendingEntry, AllHeld
<1>9. away' = AllHeld' /\ Cardinality(away') = AllPlaces'
  BY <1>3, <1>6, <1>7, <1>8, FS_AddElement
<1> HIDE DEF a, b, c, d
<1>10. AllPlaces \in Nat
  BY <1>1, <1>2
<1>11. AllPlaces' - Len(returnQueue') <= RequestQueueSize /\ Len(returnQueue') <= ReturnQueueSize
  <2>1. Len(returnQueue') = e /\ AllPlaces' = AllPlaces + 1
    BY <1>6
  <2>2. AllPlaces - e < RequestQueueSize /\ e <= ReturnQueueSize
    BY <1>4 DEF PlacesHeld
  <2>3. e \in Nat /\ RequestQueueSize \in Nat
    BY <1>1, ConstantTypes
  <2> HIDE DEF e
  <2> QED
    BY <1>10, <2>1, <2>2, <2>3
<1> QED
  BY <1>3, <1>9, <1>11 DEF PlacesHeld

LEMMA PlacesNext == BackendInv /\ PlacesHeld /\ [Next]_vars => PlacesHeld'
<1> SUFFICES ASSUME BackendInv, PlacesHeld, [Next]_vars PROVE PlacesHeld'
  OBVIOUS
<1> DEFINE a == Len(pending)
           b == Cardinality(asyncPending)
           c == Cardinality(Slots(waiters))
           d == Len(asyncDone)
           e == Len(returnQueue)
<1>1. a \in Nat /\ b \in Nat /\ c \in Nat /\ d \in Nat /\ e \in Nat
  BY QueueCounts
<1>2. AllPlaces = a + b + c + d + e /\ AllPlaces \in Nat
  <2>1. AllPlaces = a + b + c + d + e
    BY DEF AllPlaces, Places
  <2> HIDE DEF a, b, c, d, e
  <2> QED
    BY <1>1, <2>1
<1>3. /\ pending \in Seq(PendingEntry) /\ asyncDone \in Seq(Entry)
      /\ returnQueue \in Seq(Requests)
      /\ waiters \in [LHB!Halves -> Seq(Requests)] /\ IsFiniteSet(asyncPending)
  BY DEF BackendInv, TypeOK, PendingEntry
<1>4. e <= ReturnQueueSize
  BY DEF PlacesHeld
<1>5. CASE Collect
  BY <1>5, CollectTakesOne
<1>6. ASSUME UNCHANGED <<pending, asyncPending, waiters, asyncDone, returnQueue, away>>,
             pc' = "push" /\ Room => asyncDone = <<>>
      PROVE  PlacesHeld'
  BY <1>6 DEF PlacesHeld, AllHeld, AllPlaces, Room
<1>7. CASE \/ CollectNothing \/ HintsIssued \/ ScheduleHint \/ TickLhb \/ TickHbm
           \/ TickHbf \/ PushNothing
  BY <1>6, <1>7 DEF CollectNothing, HintsIssued, ScheduleHint, TickLhb, TickHbm, TickHbf,
     PushNothing, Go, queueVars
<1>8. CASE Retired
  BY <1>6, <1>8 DEF Retired, Go, queueVars
<1>9. CASE UNCHANGED vars
  BY <1>6, <1>9 DEF vars, queueVars, PlacesHeld
<1>10. CASE BeginCycle
  <2>1. /\ pending' = SoonerAll(pending) /\ asyncDone' = SoonerAll(asyncDone)
        /\ UNCHANGED <<asyncPending, waiters, returnQueue, away>> /\ pc' = "hints"
    BY <1>10 DEF BeginCycle, Go
  <2>2. /\ Reqs(pending') = Reqs(pending) /\ Len(pending') = a
        /\ Reqs(asyncDone') = Reqs(asyncDone) /\ Len(asyncDone') = d
    BY <1>3, <2>1, SoonerSame
  <2>3. AllHeld' = AllHeld /\ AllPlaces' = AllPlaces
    BY <2>1, <2>2 DEF AllHeld, Held, AllPlaces, Places
  <2> QED
    BY <1>1, <1>2, <1>4, <2>1, <2>3, MovesKeepPlaces
<1>11. ASSUME NEW r \in Requests, DemandDone(r) PROVE PlacesHeld'
  <2> DEFINE x == [req |-> r, left |-> 0]
  <2>1. /\ r \in asyncPending /\ asyncPending' = asyncPending \ {r}
        /\ asyncDone' = Append(asyncDone, x)
        /\ UNCHANGED <<pending, waiters, returnQueue, away>> /\ pc' # "push"
    BY <1>11 DEF DemandDone, Go, TickOf
  <2>2. x \in Entry /\ x.req = r
    BY DEF Entry
  <2> HIDE DEF x
  <2>3. Len(asyncDone') = d + 1 /\ Reqs(asyncDone') = Reqs(asyncDone) \cup {r}
    BY <1>3, <2>1, <2>2, LongerQueues
  <2>4. Cardinality(asyncPending') = b - 1
    BY <1>3, <2>1, FS_RemoveElement
  <2>5. AllHeld' = AllHeld
    BY <2>1, <2>3 DEF AllHeld, Held
  <2>6. AllPlaces' = a + (b - 1) + c + (d + 1) + e
    BY <2>1, <2>3, <2>4 DEF AllPlaces, Places
  <2>7. AllPlaces' = AllPlaces
    <3> HIDE DEF a, b, c, d, e
    <3> QED
      BY <1>1, <1>2, <2>6
  <2> QED
    BY <1>1, <1>2, <1>4, <2>1, <2>5, <2>7, MovesKeepPlaces
<1>12. ASSUME NEW token \in fills, FillDone(token) PROVE PlacesHeld'
  <2> DEFINE h == Landing
             s == waiters[h]
             x == [k \in DOMAIN s |-> [req |-> s[k], left |-> SramLatency]]
  <2>1. /\ asyncDone' = asyncDone \o x /\ waiters' = [waiters EXCEPT ![h] = <<>>]
        /\ UNCHANGED <<pending, asyncPending, returnQueue, away>> /\ pc' = "hbf"
    BY <1>12 DEF FillDone, Go
  <2>2. h \in LHB!Halves
    BY <1>12, LandingHalf DEF BackendInv
  <2> HIDE DEF h
  <2>3. s \in Seq(Requests)
    BY <1>3, <2>2
  <2>4. x \in Seq(Entry) /\ Len(x) = Len(s) /\ Reqs(x) = {s[k] : k \in DOMAIN s}
    <3> HIDE DEF s
    <3> QED
      BY <2>3, ReleasedEntries
  <2> HIDE DEF x
  <2>5. /\ c = Cardinality(Slots(waiters')) + Len(s)
        /\ ParkedIn(waiters) = ParkedIn(waiters') \cup Reqs(x)
    <3> DEFINE w == [waiters EXCEPT ![h] = <<>>]
    <3>1. /\ Cardinality(Slots(waiters)) = Cardinality(Slots(w)) + Len(s)
          /\ ParkedIn(waiters) = ParkedIn(w) \cup {s[k] : k \in DOMAIN s}
      BY <1>3, <2>2, SlotsRelease
    <3> QED
      BY <2>1, <2>4, <3>1
  <2>6. waiters' \in [LHB!Halves -> Seq(Requests)]
    BY <1>3, <2>1, EmptySeq
  <2>7. Cardinality(Slots(waiters')) \in Nat /\ Len(s) \in Nat
    BY <2>3, <2>6, SlotsFinite, LenProperties
  <2>8. Len(asyncDone') = d + Len(s) /\ Reqs(asyncDone') = Reqs(asyncDone) \cup Reqs(x)
    <3>1. \A u, v \in Seq(Entry) :
            Len(u \o v) = Len(u) + Len(v) /\ Reqs(u \o v) = Reqs(u) \cup Reqs(v)
      BY LongerQueues
    <3>2. /\ Len(asyncDone \o x) = d + Len(x)
          /\ Reqs(asyncDone \o x) = Reqs(asyncDone) \cup Reqs(x)
      BY <1>3, <2>4, <3>1
    <3> QED
      BY <2>1, <2>4, <3>2
  <2>9. AllHeld' = AllHeld
    BY <2>1, <2>5, <2>8 DEF AllHeld, Held
  <2> DEFINE m == Len(s)
             n == Cardinality(Slots(waiters'))
  <2>10. AllPlaces' = a + b + n + (d + m) + e
    BY <2>1, <2>8 DEF AllPlaces, Places
  <2>11. c = n + m /\ m \in Nat /\ n \in Nat
    BY <2>5, <2>7
  <2>12. AllPlaces' = AllPlaces
    <3> HIDE DEF a, b, c, d, e, m, n
    <3> QED
      BY <1>1, <1>2, <2>10, <2>11
  <2> QED
    BY <1>1, <1>2, <1>4, <2>1, <2>9, <2>12, MovesKeepPlaces
<1>13. CASE RetireAsync
  <2> DEFINE x == asyncDone[1].req
  <2>1. /\ asyncDone # <<>> /\ e < ReturnQueueSize /\ asyncDone' = Tail(asyncDone)
        /\ returnQueue' = Append(returnQueue, x)
        /\ UNCHANGED <<pending, asyncPending, waiters, away>> /\ pc' = "retire"
    BY <1>13 DEF RetireAsync, Room, Go
  <2>2. /\ asyncDone[1] \in Entry /\ d = Len(asyncDone') + 1 /\ asyncDone' \in Seq(Entry)
        /\ Reqs(asyncDone) = Reqs(asyncDone') \cup {x}
    BY <1>3, <2>1, ShorterQueue
  <2>3. x \in Requests
    BY <2>2 DEF Entry
  <2> HIDE DEF x
  <2>4. Len(returnQueue') = e + 1 /\ Seqs!ToSet(returnQueue') = Seqs!ToSet(returnQueue) \cup {x}
    BY <1>3, <2>1, <2>3, LongerQueues
  <2>5. AllHeld' = AllHeld
    BY <2>1, <2>2, <2>4 DEF AllHeld, Held
  <2> DEFINE n == Len(asyncDone')
  <2>6. AllPlaces' = a + b + c + n + (e + 1)
    BY <2>1, <2>4 DEF AllPlaces, Places
  <2>7. d = n + 1 /\ n \in Nat
    BY <2>2, LenProperties
  <2>8. AllPlaces' = AllPlaces
    <3> HIDE DEF a, b, c, d, e, n
    <3> QED
      BY <1>1, <1>2, <2>6, <2>7
  <2>9. e + 1 \in Nat /\ e + 1 >= e /\ e + 1 <= ReturnQueueSize
    BY <1>1, <2>1, ConstantTypes
  <2> QED
    BY <1>1, <1>2, <2>1, <2>4, <2>5, <2>8, <2>9, MovesKeepPlaces
<1>14. CASE RetirePending
  <2> DEFINE x == pending[1].req
  <2>1. /\ pending # <<>> /\ e < ReturnQueueSize /\ pending' = Tail(pending)
        /\ returnQueue' = Append(returnQueue, x)
        /\ UNCHANGED <<asyncPending, waiters, asyncDone, away>> /\ pc' = "retire"
    BY <1>14 DEF RetirePending, PendingReady, Room, Go
  <2>2. /\ pending[1] \in PendingEntry /\ a = Len(pending') + 1
        /\ pending' \in Seq(PendingEntry) /\ Reqs(pending) = Reqs(pending') \cup {x}
    BY <1>3, <2>1, ShorterQueue
  <2>3. x \in Requests
    BY <2>2 DEF PendingEntry
  <2> HIDE DEF x
  <2>4. Len(returnQueue') = e + 1 /\ Seqs!ToSet(returnQueue') = Seqs!ToSet(returnQueue) \cup {x}
    BY <1>3, <2>1, <2>3, LongerQueues
  <2>5. AllHeld' = AllHeld
    BY <2>1, <2>2, <2>4 DEF AllHeld, Held
  <2> DEFINE n == Len(pending')
  <2>6. AllPlaces' = n + b + c + d + (e + 1)
    BY <2>1, <2>4 DEF AllPlaces, Places
  <2>7. a = n + 1 /\ n \in Nat
    BY <2>2, LenProperties
  <2>8. AllPlaces' = AllPlaces
    <3> HIDE DEF a, b, c, d, e, n
    <3> QED
      BY <1>1, <1>2, <2>6, <2>7
  <2>9. e + 1 \in Nat /\ e + 1 >= e /\ e + 1 <= ReturnQueueSize
    BY <1>1, <2>1, ConstantTypes
  <2> QED
    BY <1>1, <1>2, <2>1, <2>4, <2>5, <2>8, <2>9, MovesKeepPlaces
<1>15. ASSUME NEW r \in Requests, Push(r) PROVE PlacesHeld'
  BY <1>15, PushAddsOne
<1> QED
  BY <1>5, <1>7, <1>8, <1>9, <1>10, <1>11, <1>12, <1>13, <1>14, <1>15 DEF Next, Walk

LEMMA PlacesInit == Init => PlacesHeld
<1> SUFFICES ASSUME Init PROVE PlacesHeld
  OBVIOUS
<1>1. /\ pending = <<>> /\ asyncPending = {} /\ asyncDone = <<>> /\ returnQueue = <<>>
      /\ waiters = [h \in LHB!Halves |-> <<>>] /\ away = {}
  BY DEF Init
<1>2. Slots(waiters) = {}
  BY <1>1 DEF Slots
<1>3. Cardinality({}) = 0 /\ Len(<<>>) = 0
  BY FS_EmptySet
<1>4. AllHeld = {}
  BY <1>1, <1>2 DEF AllHeld, Held, Reqs, ParkedIn, Seqs!ToSet
<1>5. AllPlaces = 0
  <2>1. /\ Len(pending) = 0 /\ Cardinality(asyncPending) = 0
        /\ Cardinality(Slots(waiters)) = 0 /\ Len(asyncDone) = 0 /\ Len(returnQueue) = 0
    BY <1>1, <1>2, <1>3
  <2> QED
    BY <2>1 DEF AllPlaces, Places
<1> QED
  BY <1>1, <1>3, <1>4, <1>5, ConstantTypes DEF PlacesHeld

LEMMA PlacesInvariant == Spec => [](BackendInv /\ PlacesHeld)
BY BackendInit, BackendNext, PlacesInit, PlacesNext, PTL DEF Spec

\* Every request the GPU waits for is in exactly one place: no path of push(),
\* of a callback or of retire_ready() loses one or answers it twice.
THEOREM RequestsInOnePlace == Spec => []ExactlyOnePlace
<1>1. BackendInv /\ PlacesHeld => ExactlyOnePlace
  BY PlacesInvHeld DEF PlacesInv
<1> QED
  BY <1>1, PlacesInvariant, PTL

\* full() is asked before the push and callbacks come after it, yet the queues
\* stay within request_queue_size and return_queue_size.
THEOREM QueuesStayBounded == Spec => []QueueBounds
<1>1. BackendInv /\ PlacesHeld => QueueBounds
  BY PlacesInvHeld DEF PlacesInv
<1> QED
  BY <1>1, PlacesInvariant, PTL

-----------------------------------------------------------------------------
(* Requests parked on a fill.                                               *)

\* The index changes only when a request is parked or a callback comes.
LEMMA WaitersMove ==
  ASSUME BackendInv, [Next]_vars
  PROVE  \/ \E token \in fills : FillDone(token)
         \/ \E r \in Requests, h \in LHB!Halves :
              /\ LP!Access(DemandOf(r)) /\ Park(r, h)
              /\ halves'[h].pending /\ LP!Covers(halves'[h], DemandOf(r))
         \/ UNCHANGED waiters
<1>1. ASSUME NEW r \in Requests, Push(r), waiters' # waiters
      PROVE  \E h \in LHB!Halves :
               /\ LP!Access(DemandOf(r)) /\ Park(r, h)
               /\ halves'[h].pending /\ LP!Covers(halves'[h], DemandOf(r))
  <2>1. PICK h \in LHB!Halves :
          Park(r, h) /\ halves'[h].pending /\ LHB!Covers(halves'[h], DemandOf(r))
    BY <1>1, PushMoves DEF Settle, HandOver
  <2>2. LHB!Access(DemandOf(r))
    <3>1. ~PushHbm(r) /\ ~PushRejected(r) /\ ~PushBackendFull(r)
      BY <1>1 DEF PushHbm, PushRejected, PushBackendFull, Settle, HandOver
    <3> QED
      BY <1>1, <3>1 DEF Push, PushHbf
  <2> QED
    BY <2>1, <2>2, SameBuffer
<1>2. ASSUME NEW r \in Requests, DemandDone(r) PROVE UNCHANGED waiters
  BY <1>2 DEF DemandDone
<1>3. CASE Walk \/ Collect \/ UNCHANGED vars
  BY <1>3 DEF Walk, CollectNothing, BeginCycle, ScheduleHint, HintsIssued, TickLhb,
     TickHbm, TickHbf, RetireAsync, RetirePending, Retired, PushNothing, Collect,
     queueVars, vars
<1> QED
  BY <1>1, <1>2, <1>3 DEF Next

LEMMA WaitersNext == BackendInv /\ WaitersOnFill /\ [Next]_vars => WaitersOnFill'
<1> SUFFICES ASSUME BackendInv, WaitersOnFill, [Next]_vars PROVE WaitersOnFill'
  OBVIOUS
<1>1. waiters \in [LHB!Halves -> Seq(Requests)]
  BY DEF BackendInv, TypeOK
<1>2. LHB!Halves = LP!Halves /\ \A h, d : LHB!Covers(h, d) <=> LP!Covers(h, d)
  BY SameBuffer
<1>3. LP!LhbInv /\ TypeOK
  BY DEF BackendInv, BufferInv
<1>4. CASE \E token \in fills : FillDone(token)
  <2>1. PICK token \in fills : FillDone(token)
    BY <1>4
  <2>2. /\ Landing \in LHB!Halves
        /\ \A h \in LHB!Halves : h # Landing => halves'[h] = halves[h]
    BY <2>1, LandingHalf DEF BackendInv
  <2>3. waiters' = [waiters EXCEPT ![Landing] = <<>>]
    BY <2>1 DEF FillDone
  <2> DEFINE l == Landing
  <2> HIDE DEF l
  <2>4. /\ waiters'[l] = <<>> /\ \A h \in LHB!Halves : h # l => waiters'[h] = waiters[h]
        /\ \A h \in LHB!Halves : h # l => halves'[h] = halves[h]
    BY <1>1, <2>2, <2>3 DEF l
  <2> QED
    BY <2>4 DEF WaitersOnFill, LHB!Covers
<1>5. ASSUME ~\E token \in fills : FillDone(token), NEW h \in LHB!Halves, halves[h].pending
      PROVE  /\ halves'[h].pending
             /\ \A d : LP!Covers(halves[h], d) => LP!Covers(halves'[h], d)
  <2>1. \/ LP!Tick \/ UNCHANGED halves
        \/ \E d \in {DemandOf(r) : r \in Requests} : LP!Access(d)
        \/ \E t \in {Schedule[k].tensor : k \in DOMAIN Schedule} : LP!IssueHint(t)
    BY <1>3, <1>5, BufferMoves DEF lhbVars
  <2>2. /\ halves'[h].pending
        /\ halves'[h].base = halves[h].base /\ halves'[h].span = halves[h].span
    BY <1>2, <1>3, <1>5, <2>1, BufferConstants, LP!WaitingHalfKept
  <2> QED
    BY <2>2 DEF LP!Covers
<1>6. ASSUME ~\E token \in fills : FillDone(token), UNCHANGED waiters
      PROVE  WaitersOnFill'
  BY <1>2, <1>5, <1>6 DEF WaitersOnFill, LHB!Covers, LP!Covers
<1>7. ASSUME ~\E token \in fills : FillDone(token),
             NEW r \in Requests, NEW h \in LHB!Halves, Park(r, h),
             halves'[h].pending, LP!Covers(halves'[h], DemandOf(r))
      PROVE  WaitersOnFill'
  <2>1. waiters' = [waiters EXCEPT ![h] = Append(@, r)]
    BY <1>7 DEF Park
  <2> SUFFICES ASSUME NEW i \in LHB!Halves, NEW k \in DOMAIN waiters'[i]
               PROVE  /\ halves'[i].pending
                      /\ LP!Covers(halves'[i], DemandOf(waiters'[i][k]))
    BY DEF WaitersOnFill, LHB!Covers, LP!Covers
  <2>2. /\ waiters[i] \in Seq(Requests) /\ DOMAIN waiters[i] = 1 .. Len(waiters[i])
        /\ Len(waiters[i]) \in Nat
    BY <1>1, LenProperties
  <2>3. CASE k \in DOMAIN waiters[i] /\ waiters'[i][k] = waiters[i][k]
    <3>1. halves[i].pending /\ LP!Covers(halves[i], DemandOf(waiters[i][k]))
      BY <1>2, <2>3 DEF WaitersOnFill
    <3> QED
      BY <1>5, <1>7, <2>3, <3>1
  <2>4. CASE i = h /\ waiters'[i][k] = r
    BY <1>7, <2>4
  <2>5. \/ k \in DOMAIN waiters[i] /\ waiters'[i][k] = waiters[i][k]
        \/ i = h /\ waiters'[i][k] = r
    <3>1. CASE i # h
      BY <1>1, <2>1, <3>1
    <3>2. CASE i = h
      <4>1. waiters'[i] = Append(waiters[i], r)
        BY <1>1, <2>1, <3>2
      <4> DEFINE s == waiters[i]
                 v == Append(s, r)
                 n == Len(s)
      <4>2. /\ v \in Seq(Requests) /\ Len(v) = n + 1
            /\ \A j \in 1 .. n : v[j] = s[j]
            /\ v[n + 1] = r
        BY <2>2, AppendProperties
      <4>3. DOMAIN v = 1 .. n + 1 /\ n \in Nat /\ DOMAIN s = 1 .. n
        BY <2>2, <4>2, LenProperties
      <4>4. k \in DOMAIN v /\ waiters'[i] = v
        BY <4>1
      <4> HIDE DEF v, n
      <4>5. (k \in DOMAIN s /\ v[k] = s[k]) \/ v[k] = r
        BY <4>2, <4>3, <4>4
      <4> QED
        BY <3>2, <4>4, <4>5
    <3> QED
      BY <3>1, <3>2
  <2> QED
    BY <2>3, <2>4, <2>5
<1> QED
  BY <1>4, <1>6, <1>7, WaitersMove

\* A request parked on a half waits for the very fill of that half which is in
\* flight, and that fill brings the lines it asks for: the index kept by half
\* never comes to mean a later fill, or none.
THEOREM WaitersStayOnFill == Spec => []WaitersOnFill
<1>1. Init => WaitersOnFill
  BY DEF Init, WaitersOnFill
<1> QED
  BY <1>1, BackendInit, BackendNext, WaitersNext, PTL DEF Spec

-----------------------------------------------------------------------------
(* The analytic devices.                                                    *)

\* full() asks both devices, so a push never meets a full one.
LEMMA NeverRefused ==
  ASSUME ~Async, FullNeverPushed, [Next]_vars
  PROVE  FullNeverPushed'
<1>1. ASSUME NEW r \in Requests, Push(r) PROVE FullNeverPushed'
  <2>1. CanAccept(hbm, HbmDepth) /\ CanAccept(hbf, HbfDepth)
    BY <1>1 DEF Push, Full
  <2>2. ~PushBackendFull(r)
    BY <2>1 DEF PushBackendFull, Route, Inspect
  <2> QED
    BY <1>1, <2>2
       DEF Push, PushHbm, PushHbf, PushRejected, deviceVars, FullNeverPushed
<1>2. ASSUME NEW r \in Requests, DemandDone(r) PROVE FullNeverPushed'
  BY <1>2 DEF DemandDone, deviceVars, FullNeverPushed
<1>3. ASSUME NEW token \in fills, FillDone(token) PROVE FullNeverPushed'
  BY <1>3 DEF FillDone, deviceVars, FullNeverPushed
<1>4. CASE Walk \/ Collect \/ UNCHANGED vars
  BY <1>4 DEF Walk, CollectNothing, BeginCycle, ScheduleHint, HintsIssued, TickLhb,
     TickHbm, TickHbf, RetireAsync, RetirePending, Retired, PushNothing, Collect,
     deviceVars, vars, FullNeverPushed
<1> QED
  BY <1>1, <1>2, <1>3, <1>4 DEF Next

\* With analytic devices no push meets a full device: "Unreachable in normal
\* operation: full() now reports device occupancy".
THEOREM NeverPushedFull == Spec => [](~Async => FullNeverPushed)
<1>1. Init => (~Async => FullNeverPushed)
  BY DEF Init, FullNeverPushed
<1>2. (~Async => FullNeverPushed) /\ [Next]_vars => (~Async => FullNeverPushed)'
  BY NeverRefused
<1> QED
  BY <1>1, <1>2, PTL DEF Spec

\* What an entry must have waited for when it was made.
Paid(x) ==
  /\ Inspect(x.req) = "RoutedHbm" => x.lat >= HbmLatency
  /\ Inspect(x.req) = "RoutedHbf" => x.lat >= Hop + SramLatency

\* A push that settles a request makes it wait for its memory.
LEMMA PushPays ==
  ASSUME BackendInv, ~Async, SramLatency <= ReadLatency,
         NEW r \in Requests, Push(r)
  PROVE  \/ \E ready \in Nat :
              Settle(r, ready) /\ Paid([req |-> r, left |-> ready, lat |-> ready])
         \/ UNCHANGED pending
<1>1. hbm \in Device /\ hbf \in Device
  BY DEF BackendInv, TypeOK
<1>2. CanAccept(hbm, HbmDepth) /\ CanAccept(hbf, HbfDepth)
  BY DEF Push, Full
<1>3. Route(r) = Inspect(r)
  BY <1>2 DEF Route
<1>4. CASE PushHbm(r)
  <2> DEFINE free == BusFree(hbm, 0, HbmTransfer)
             ready == free + HbmLatency
  <2>1. free \in Nat
    BY <1>1, DeviceTypes, ConstantTypes
  <2>2. Inspect(r) = "RoutedHbm" /\ Settle(r, ready)
    BY <1>3, <1>4 DEF PushHbm
  <2> HIDE DEF free
  <2>3. ready \in Nat /\ ready >= HbmLatency
    BY <2>1, ConstantTypes
  <2> QED
    BY <2>2, <2>3 DEF Paid
<1>5. CASE PushHbf(r)
  <2> DEFINE late == LHB!ReadyTime(last')
             ready == Hop + late
             transfer == r.size * HbfTransfer
             landed == BusFree(hbf, Hop, transfer) + ReadLatency
             most == LHB!Greatest(landed, ready)
  <2>1. Inspect(r) = "RoutedHbf"
    BY <1>3, <1>5 DEF PushHbf
  <2>2. LP!Access(DemandOf(r)) /\ DemandOf(r) \in {DemandOf(q) : q \in Requests}
    BY <1>5, SameBuffer DEF PushHbf
  <2>3. /\ late \in Nat
        /\ ~last'.waiting => late >= SramLatency \/ late >= ReadLatency
    BY <2>2, BufferConstants, SameBuffer, LP!AccessAnswers DEF BackendInv, BufferInv
  <2>4. transfer \in Nat
    <3>1. r.size \in Nat /\ HbfTransfer \in Nat
      BY BackendConstants
    <3> QED
      BY <3>1
  <2>5. \/ last'.waiting /\ UNCHANGED pending
        \/ Settle(r, ready)
        \/ Settle(r, most)
    BY <1>5 DEF PushHbf, Park
  <2> HIDE DEF transfer
  <2>6. BusFree(hbf, Hop, transfer) \in Nat
    BY <1>1, <2>4, DeviceTypes, ConstantTypes
  <2>7. landed \in Nat
    BY <2>6, ConstantTypes
  <2> HIDE DEF late, landed
  <2>8. CASE last'.waiting
    <3>1. last'.outcome # "Hit"
      BY <2>2, <2>8, BufferConstants, LP!AccessAnswers DEF BackendInv, BufferInv
    <3> QED
      BY <1>5, <2>8, <3>1 DEF PushHbf, Park
  <2>9. CASE ~last'.waiting
    <3>1. ready \in Nat /\ ready >= Hop + SramLatency
      BY <2>3, <2>9, ConstantTypes
    <3>2. most \in Nat /\ most >= ready
      BY <2>7, <3>1 DEF LHB!Greatest
    <3> HIDE DEF ready, most
    <3>3. most >= Hop + SramLatency
      BY <3>1, <3>2, ConstantTypes
    <3>4. \A n \in Nat : n >= Hop + SramLatency => Paid([req |-> r, left |-> n, lat |-> n])
      BY <2>1 DEF Paid
    <3> QED
      BY <2>5, <2>9, <3>1, <3>2, <3>3, <3>4
  <2> QED
    BY <2>8, <2>9
<1>6. CASE PushRejected(r)
  <2>1. Settle(r, 0) /\ Inspect(r) \notin {"RoutedHbm", "RoutedHbf"}
    BY <1>3, <1>6 DEF PushRejected
  <2> QED
    BY <2>1 DEF Paid
<1>7. ~PushBackendFull(r)
  BY <1>3 DEF PushBackendFull, Inspect
<1> QED
  BY <1>4, <1>5, <1>6, <1>7 DEF Push

LEMMA FreeNext ==
  ASSUME BackendInv, ~Async, SramLatency <= ReadLatency, NoFreeAccess, [Next]_vars
  PROVE  NoFreeAccess'
<1>1. pending \in Seq(PendingEntry) /\ \A k \in DOMAIN pending : Paid(pending[k])
  BY DEF BackendInv, TypeOK, PendingEntry, NoFreeAccess, Paid
<1>2. /\ DOMAIN pending = 1 .. Len(pending) /\ Len(pending) \in Nat
      /\ \A k \in DOMAIN pending : pending[k] \in PendingEntry
  BY <1>1, LenProperties, ElementOfSeq
<1>3. SUFFICES ASSUME NEW k \in DOMAIN pending' PROVE Paid(pending'[k])
  BY DEF NoFreeAccess, Paid
<1>4. CASE BeginCycle
  <2>1. pending' = SoonerAll(pending)
    BY <1>4 DEF BeginCycle
  <2>2. k \in DOMAIN pending /\ pending'[k] = [pending[k] EXCEPT !.left = Sooner(@)]
    BY <1>3, <2>1 DEF SoonerAll
  <2>3. pending'[k].req = pending[k].req /\ pending'[k].lat = pending[k].lat
    BY <1>2, <2>2 DEF PendingEntry
  <2> QED
    BY <1>1, <2>2, <2>3 DEF Paid
<1>5. CASE RetirePending
  <2>1. pending # <<>> /\ pending' = Tail(pending)
    BY <1>5 DEF RetirePending, PendingReady
  <2>2. /\ pending' \in Seq(PendingEntry) /\ Len(pending') = Len(pending) - 1
        /\ \A i \in 1 .. Len(pending') : pending'[i] = pending[i + 1]
    BY <1>1, <2>1, HeadTailProperties
  <2>3. DOMAIN pending' = 1 .. Len(pending')
    BY <2>2, LenProperties
  <2>4. k + 1 \in DOMAIN pending /\ pending'[k] = pending[k + 1]
    BY <1>2, <1>3, <2>2, <2>3
  <2> QED
    BY <1>1, <2>4
<1>6. ASSUME NEW r \in Requests, Push(r) PROVE Paid(pending'[k])
  <2>1. ASSUME NEW ready \in Nat, Settle(r, ready),
               Paid([req |-> r, left |-> ready, lat |-> ready])
        PROVE  Paid(pending'[k])
    BY <1>1, <1>3, <2>1, SettleMoves
  <2> QED
    BY <1>1, <1>3, <1>6, <2>1, PushPays
<1>7. ASSUME UNCHANGED pending PROVE Paid(pending'[k])
  BY <1>1, <1>3, <1>7
<1>8. ASSUME NEW r \in Requests, DemandDone(r) PROVE UNCHANGED pending
  BY <1>8 DEF DemandDone
<1>9. ASSUME NEW token \in fills, FillDone(token) PROVE UNCHANGED pending
  BY <1>9 DEF FillDone
<1>10. CASE \/ CollectNothing \/ ScheduleHint \/ HintsIssued \/ TickLhb \/ TickHbm
            \/ TickHbf \/ RetireAsync \/ Retired \/ PushNothing \/ Collect \/ UNCHANGED vars
  BY <1>7, <1>10 DEF CollectNothing, ScheduleHint, HintsIssued, TickLhb, TickHbm, TickHbf,
     RetireAsync, Retired, PushNothing, Collect, queueVars, vars
<1> QED
  BY <1>4, <1>5, <1>6, <1>7, <1>8, <1>9, <1>10 DEF Next, Walk

\* With analytic devices, and an SRAM no slower than the array, nothing routed
\* to a memory is answered for free: every entry waits for that memory or for
\* the buffer in front of it.
THEOREM NothingForFree ==
  Spec => [](~Async /\ SramLatency <= ReadLatency => NoFreeAccess)
<1>1. Init => NoFreeAccess
  BY DEF Init, NoFreeAccess
<1>2. /\ BackendInv /\ (~Async /\ SramLatency <= ReadLatency => NoFreeAccess)
      /\ [Next]_vars
      => (~Async /\ SramLatency <= ReadLatency => NoFreeAccess)'
  BY FreeNext
<1> QED
  BY <1>1, <1>2, BackendInit, BackendNext, PTL DEF Spec

-----------------------------------------------------------------------------
(* The backend is a memory port.                                            *)

\* The port counts and lists as the backend does.
LEMMA SamePort ==
  /\ \A S : Port!Cardinality(S) = Cardinality(S)
  /\ \A s : Port!Range(s) = Seqs!ToSet(s)
<1>1. \A S : Port!Cardinality(S) = Cardinality(S)
  BY Zenon DEF Port!Cardinality, Cardinality
<1>2. \A s : Port!Range(s) = Seqs!ToSet(s)
  BY DEF Port!Range, Seqs!ToSet
<1> QED
  BY <1>1, <1>2

\* A request taken from a place is not among the answers: it would be held
\* twice.  p, a, w, d is what the other places hold.
LEMMA AnsweredOnce ==
  ASSUME PlacesHeld, NEW p \in Seq(PendingEntry), NEW a, IsFiniteSet(a),
         NEW w \in [LHB!Halves -> Seq(Requests)], NEW d \in Seq(Entry),
         NEW q \in Seq(Requests), NEW x,
         AllHeld = Held(p, a, w, d, q) \cup {x},
         AllPlaces = Places(p, a, w, d, q) + 1, Places(p, a, w, d, q) \in Nat
  PROVE  x \notin Seqs!ToSet(q)
<1> DEFINE H == Held(p, a, w, d, q)
           n == Places(p, a, w, d, q)
<1>1. IsFiniteSet(H) /\ Cardinality(H) <= n
  BY HeldInPlaces
<1>2. Cardinality(H) \in Nat
  BY <1>1, FS_CardinalityType
<1>3. Seqs!ToSet(q) \subseteq H
  BY DEF Held
<1> HIDE DEF H, n
<1>4. Cardinality(H \cup {x}) = n + 1 /\ n \in Nat
  BY DEF PlacesHeld, H, n
<1>5. ASSUME x \in H PROVE FALSE
  <2> DEFINE m == Cardinality(H)
  <2>1. H \cup {x} = H
    BY <1>5
  <2>2. m = n + 1 /\ n \in Nat
    BY <1>4, <2>1
  <2>3. m <= n /\ m \in Nat
    BY <1>1, <1>2
  <2> HIDE DEF m
  <2> QED
    BY <2>2, <2>3
<1> QED
  BY <1>3, <1>5

LEMMA PortNext ==
  ASSUME BackendInv, PlacesHeld, [Next]_vars
  PROVE  [Port!Next]_(Port!vars)
<1> DEFINE a == Len(pending)
           b == Cardinality(asyncPending)
           c == Cardinality(Slots(waiters))
           d == Len(asyncDone)
           e == Len(returnQueue)
           waiting == away \ Seqs!ToSet(returnQueue)
<1>1. a \in Nat /\ b \in Nat /\ c \in Nat /\ d \in Nat /\ e \in Nat
  BY QueueCounts
<1>2. AllPlaces = a + b + c + d + e
  BY DEF AllPlaces, Places
<1>3. /\ pending \in Seq(PendingEntry) /\ asyncDone \in Seq(Entry)
      /\ returnQueue \in Seq(Requests)
      /\ waiters \in [LHB!Halves -> Seq(Requests)] /\ IsFiniteSet(asyncPending)
  BY DEF BackendInv, TypeOK, PendingEntry
<1>4. away = AllHeld /\ Seqs!ToSet(returnQueue) \subseteq away
  BY DEF PlacesHeld, AllHeld, Held
<1>5. ASSUME UNCHANGED <<returnQueue, away>> PROVE UNCHANGED Port!vars
  BY <1>5 DEF Port!vars
<1>6. CASE Collect
  <2>1. /\ returnQueue # <<>> /\ returnQueue' = Tail(returnQueue)
        /\ away' = away \ {returnQueue[1]}
    BY <1>3, <1>6, ShorterQueue DEF Collect
  <2>2. Seqs!ToSet(returnQueue) = Seqs!ToSet(returnQueue') \cup {returnQueue[1]}
    BY <1>3, <2>1, ShorterQueue
  <2>3. away' \ Seqs!ToSet(returnQueue') = waiting
    BY <2>1, <2>2
  <2> QED
    BY <2>1, <2>3 DEF Port!Next, Port!Collect
<1>7. ASSUME NEW x \in Requests, x \in away, x \notin Seqs!ToSet(returnQueue),
             e < ReturnQueueSize, returnQueue' = Append(returnQueue, x), away' = away
      PROVE  Port!Answer(x)
  <2>1. Seqs!ToSet(returnQueue') = Seqs!ToSet(returnQueue) \cup {x}
    BY <1>3, <1>7, LongerQueues
  <2>2. away' \ Seqs!ToSet(returnQueue') = waiting \ {x}
    BY <1>7, <2>1
  <2> QED
    BY <1>7, <2>2 DEF Port!Answer
<1>8. CASE RetireAsync
  <2> DEFINE x == asyncDone[1].req
             t == Tail(asyncDone)
             n == Len(t)
  <2>1. /\ asyncDone # <<>> /\ e < ReturnQueueSize /\ away' = away
        /\ returnQueue' = Append(returnQueue, x)
    BY <1>8 DEF RetireAsync, Room
  <2>2. /\ asyncDone[1] \in Entry /\ d = n + 1 /\ t \in Seq(Entry)
        /\ Reqs(asyncDone) = Reqs(t) \cup {x}
    BY <1>3, <2>1, ShorterQueue
  <2>3. x \in Requests
    BY <2>2 DEF Entry
  <2>4. AllHeld = Held(pending, asyncPending, waiters, t, returnQueue) \cup {x}
    BY <2>2 DEF AllHeld, Held
  <2>5. n \in Nat
    BY <2>2, LenProperties
  <2>6. Places(pending, asyncPending, waiters, t, returnQueue) = a + b + c + n + e
    BY DEF Places
  <2> HIDE DEF x, t
  <2>7. /\ AllPlaces = Places(pending, asyncPending, waiters, t, returnQueue) + 1
        /\ Places(pending, asyncPending, waiters, t, returnQueue) \in Nat
    <3> HIDE DEF a, b, c, d, e, n
    <3> QED
      BY <1>1, <1>2, <2>2, <2>5, <2>6
  <2>8. x \notin Seqs!ToSet(returnQueue)
    BY <1>3, <2>2, <2>4, <2>7, AnsweredOnce
  <2>9. x \in away
    BY <1>4, <2>4
  <2> QED
    BY <1>7, <2>1, <2>3, <2>8, <2>9 DEF Port!Next
<1>9. CASE RetirePending
  <2> DEFINE x == pending[1].req
             t == Tail(pending)
             n == Len(t)
  <2>1. /\ pending # <<>> /\ e < ReturnQueueSize /\ away' = away
        /\ returnQueue' = Append(returnQueue, x)
    BY <1>9 DEF RetirePending, PendingReady, Room
  <2>2. /\ pending[1] \in PendingEntry /\ a = n + 1 /\ t \in Seq(PendingEntry)
        /\ Reqs(pending) = Reqs(t) \cup {x}
    BY <1>3, <2>1, ShorterQueue
  <2>3. x \in Requests
    BY <2>2 DEF PendingEntry
  <2>4. AllHeld = Held(t, asyncPending, waiters, asyncDone, returnQueue) \cup {x}
    BY <2>2 DEF AllHeld, Held
  <2>5. n \in Nat
    BY <2>2, LenProperties
  <2>6. Places(t, asyncPending, waiters, asyncDone, returnQueue) = n + b + c + d + e
    BY DEF Places
  <2> HIDE DEF x, t
  <2>7. /\ AllPlaces = Places(t, asyncPending, waiters, asyncDone, returnQueue) + 1
        /\ Places(t, asyncPending, waiters, asyncDone, returnQueue) \in Nat
    <3> HIDE DEF a, b, c, d, e, n
    <3> QED
      BY <1>1, <1>2, <2>2, <2>5, <2>6
  <2>8. x \notin Seqs!ToSet(returnQueue)
    BY <1>3, <2>2, <2>4, <2>7, AnsweredOnce
  <2>9. x \in away
    BY <1>4, <2>4
  <2> QED
    BY <1>7, <2>1, <2>3, <2>8, <2>9 DEF Port!Next
<1>10. ASSUME NEW r \in Requests, Push(r) PROVE Port!Accept(r)
  <2>1. pc = "push" /\ ~Full /\ r \notin away /\ away' = away \cup {r}
    BY <1>10 DEF Push, Go
  <2>2. returnQueue' = returnQueue
    BY <1>10, PushMoves DEF Settle, HandOver, Park
  <2>3. asyncDone = <<>> /\ AllPlaces - e < RequestQueueSize
    BY <2>1, RoomToPush
  <2> DEFINE H == Held(pending, asyncPending, waiters, asyncDone, <<>>)
             n == a + b + c + d
  <2>4. <<>> \in Seq(Requests) /\ Len(<<>>) = 0 /\ Seqs!ToSet(<<>>) = {}
    BY EmptySeq DEF Seqs!ToSet
  <2>5. Places(pending, asyncPending, waiters, asyncDone, <<>>) = n
    <3>1. Places(pending, asyncPending, waiters, asyncDone, <<>>) = a + b + c + d + 0
      BY <2>4 DEF Places
    <3> HIDE DEF a, b, c, d
    <3> QED
      BY <1>1, <3>1
  <2>6. IsFiniteSet(H) /\ Cardinality(H) <= n
    BY <1>3, <2>4, <2>5, HeldInPlaces
  <2>7. waiting \subseteq H
    BY <1>4, <2>4 DEF AllHeld, Held
  <2> HIDE DEF H
  <2>8. IsFiniteSet(waiting) /\ Cardinality(waiting) <= Cardinality(H)
    BY <2>6, <2>7, FS_Subset
  <2>9. Cardinality(waiting) \in Nat /\ Cardinality(H) \in Nat
    BY <2>6, <2>8, FS_CardinalityType
  <2>10. n < RequestQueueSize
    <3> HIDE DEF a, b, c, d, e
    <3> QED
      BY <1>1, <1>2, <2>3
  <2>11. n \in Nat
    <3> HIDE DEF a, b, c, d, e
    <3> QED
      BY <1>1
  <2> HIDE DEF n
  <2>12. Cardinality(waiting) < RequestQueueSize
    BY <2>6, <2>8, <2>9, <2>10, <2>11, ConstantTypes
  <2>13. r \notin waiting \cup Seqs!ToSet(returnQueue)
    BY <1>4, <2>1
  <2>14. away' \ Seqs!ToSet(returnQueue') = waiting \cup {r}
    BY <1>4, <2>1, <2>2
  <2> QED
    BY <2>2, <2>12, <2>13, <2>14, SamePort DEF Port!Accept
<1>11. ASSUME NEW r \in Requests, DemandDone(r) PROVE UNCHANGED Port!vars
  BY <1>5, <1>11 DEF DemandDone
<1>12. ASSUME NEW token \in fills, FillDone(token) PROVE UNCHANGED Port!vars
  BY <1>5, <1>12 DEF FillDone
<1>13. CASE \/ CollectNothing \/ BeginCycle \/ ScheduleHint \/ HintsIssued \/ TickLhb
            \/ TickHbm \/ TickHbf \/ Retired \/ PushNothing \/ UNCHANGED vars
  BY <1>5, <1>13 DEF CollectNothing, BeginCycle, ScheduleHint, HintsIssued, TickLhb,
     TickHbm, TickHbf, Retired, PushNothing, queueVars, vars
<1> QED
  BY <1>6, <1>8, <1>9, <1>10, <1>11, <1>12, <1>13 DEF Next, Walk, Port!Next

\* Seen from the memory partition the backend is a MemoryPort: at most
\* request_queue_size requests wait, each is answered once, and answers are
\* collected in the order in which they are offered.
THEOREM BackendIsMemoryPort == Spec => Port!Spec
<1>1. Init => Port!Init
  BY DEF Init, Port!Init, Seqs!ToSet
<1>2. BackendInv /\ PlacesHeld /\ [Next]_vars => [Port!Next]_(Port!vars)
  BY PortNext
<1> QED
  BY <1>1, <1>2, PlacesInvariant, PTL DEF Spec, Port!Spec
=============================================================================
