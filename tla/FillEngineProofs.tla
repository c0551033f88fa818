-------------------------- MODULE FillEngineProofs --------------------------
(***************************************************************************)
(* Proofs about the fill engine and the device, for every value of the     *)
(* constants: what the device counts, whom its completions reach, and that *)
(* each step is one of the service the buffer and the backend expect.      *)
(***************************************************************************)
EXTENDS FillEngine, FiniteSetTheorems, TLAPS

\* The walk's places belong to its callers, only the engine has fills to visit,
\* and a push that found room leaves room for its own request.
Walking ==
  /\ pc \in {"release", "serve", "push"} => caller = "cycle"
  /\ pc = "demand" => caller = "push"
  /\ pc # "engine" => toVisit = {}
  /\ caller = "push" => outstanding <= Capacity

\* Fill tokens are used once, and no fill has issued more than it has.
FillsAreOld ==
  /\ \A f \in DOMAIN jobs : f < nextFill
  /\ \A f \in DOMAIN jobs : jobs[f].issued <= jobs[f].total

\* What the constants are.
LEMMA ConstantTypes ==
  /\ Capacity \in Nat /\ MaxDemands \in Nat /\ FillCap \in Nat /\ MaxFills \in Nat
  /\ 0 \notin {Capacity, MaxDemands, FillCap, MaxFills}
  /\ FillSizes \subseteq Nat \ {0} /\ Hops \subseteq Nat
  /\ Fills \subseteq Nat \ {0}
BY FillEngineConstants DEF Fills

-----------------------------------------------------------------------------
(* Tokens.                                                                  *)

\* The tokens of sectors and those of demands are apart.
LEMMA TokensApart == Sectors \cap Demands = {}
BY ConstantTypes DEF Sectors, Demands

\* Any set of tokens is finite, so counting it gives a natural number.
LEMMA TokensFinite ==
  ASSUME NEW T \in SUBSET (Sectors \cup Demands)
  PROVE  IsFiniteSet(T) /\ Cardinality(T) \in Nat
<1>1. IsFiniteSet(Sectors) /\ IsFiniteSet(Demands)
  BY ConstantTypes, FS_Interval DEF Sectors, Demands
<1>2. IsFiniteSet(Sectors \cup Demands)
  BY <1>1, FS_Union
<1>3. IsFiniteSet(T)
  BY <1>2, FS_Subset
<1> QED
  BY <1>3, FS_CardinalityType

\* Sets that have no member in common are counted apart.
LEMMA CountApart ==
  ASSUME NEW S, NEW T, IsFiniteSet(S), IsFiniteSet(T), S \cap T = {}
  PROVE  Cardinality(S \cup T) = Cardinality(S) + Cardinality(T)
<1>1. Cardinality(S \cup T) = Cardinality(S) + Cardinality(T) - Cardinality(S \cap T)
  BY FS_Union
<1>2. Cardinality(S \cap T) = 0
  BY FS_EmptySet
<1>3. Cardinality(S) \in Nat /\ Cardinality(T) \in Nat
  BY FS_CardinalityType
<1> QED
  BY <1>1, <1>2, <1>3

\* How many members of a set of tokens come no later than k.
Place(T, k) == Cardinality({j \in T : j <= k})

\* Later members of a set have later places.
LEMMA PlaceIncreases ==
  ASSUME NEW T \in SUBSET (Sectors \cup Demands), NEW j \in T, NEW k \in T, j < k
  PROVE  Place(T, j) < Place(T, k)
<1> DEFINE UpTo(i) == {m \in T : m <= i}
<1>1. T \subseteq Int /\ j \in Int /\ k \in Int
  BY ConstantTypes DEF Sectors, Demands
<1>2. /\ UpTo(j) \in SUBSET (Sectors \cup Demands)
      /\ UpTo(k) \in SUBSET (Sectors \cup Demands)
  OBVIOUS
<1>3. /\ IsFiniteSet(UpTo(k))
      /\ Cardinality(UpTo(j)) \in Nat /\ Cardinality(UpTo(k)) \in Nat
  BY <1>2, TokensFinite
<1>4. UpTo(j) \in SUBSET UpTo(k)
  <2>1. ASSUME NEW m \in T, m <= j PROVE m <= k
    BY <1>1, <2>1
  <2> QED
    BY <2>1
<1>5. k \in UpTo(k) /\ k \notin UpTo(j)
  BY <1>1
<1>6. Cardinality(UpTo(j)) <= Cardinality(UpTo(k))
      /\ (Cardinality(UpTo(k)) = Cardinality(UpTo(j)) => UpTo(k) = UpTo(j))
  BY <1>3, <1>4, FS_Subset
<1>7. Cardinality(UpTo(j)) < Cardinality(UpTo(k))
  BY <1>3, <1>5, <1>6
<1> QED
  BY <1>7 DEF Place

\* The least n tokens of a set are n at most.
LEMMA LeastBounded ==
  ASSUME NEW T \in SUBSET (Sectors \cup Demands), NEW n \in Nat
  PROVE  /\ Least(T, n) \in SUBSET T
         /\ IsFiniteSet(Least(T, n)) /\ Cardinality(Least(T, n)) \in 0 .. n
<1> DEFINE L == Least(T, n)
           f == [k \in L |-> Place(T, k)]
<1>1. L \in SUBSET T /\ T \in SUBSET Int
  BY ConstantTypes DEF Least, Sectors, Demands
<1>2. ASSUME NEW k \in L PROVE Place(T, k) \in 1 .. n
  <2>1. k \in T /\ k \in Int
    BY <1>1
  <2>2. {j \in T : j <= k} \in SUBSET (Sectors \cup Demands)
    OBVIOUS
  <2>3. /\ IsFiniteSet({j \in T : j <= k})
        /\ Cardinality({j \in T : j <= k}) \in Nat
    BY <2>2, TokensFinite
  <2>4. Cardinality({j \in T : j <= k}) # 0
    BY <2>1, <2>3, FS_EmptySet
  <2>5. Cardinality({j \in T : j <= k}) <= n
    BY DEF Least
  <2> QED
    BY <2>3, <2>4, <2>5 DEF Place
<1>3. ASSUME NEW j \in L, NEW k \in L, f[j] = f[k] PROVE j = k
  <2>1. j \in T /\ k \in T /\ j \in Int /\ k \in Int
    BY <1>1
  <2>2. Place(T, j) \in Int /\ Place(T, k) \in Int
    BY <1>2
  <2>3. ~ (j < k) /\ ~ (k < j)
    BY <1>3, <2>1, <2>2, PlaceIncreases
  <2> QED
    BY <2>1, <2>3
<1>4. f \in [L -> 1 .. n]
  BY <1>2
<1>5. f \in Injection(L, 1 .. n)
  BY <1>3, <1>4 DEF Injection, IsInjective
<1>6. IsFiniteSet(1 .. n) /\ Cardinality(1 .. n) = n
  BY FS_Interval
<1>7. IsFiniteSet(L) /\ Cardinality(L) <= n
  BY <1>5, <1>6, FS_Injection
<1>8. Cardinality(L) \in Nat
  BY <1>7, FS_CardinalityType
<1> QED
  BY <1>1, <1>7, <1>8

-----------------------------------------------------------------------------
(* Requests go into the device and come out of it.                          *)

DeviceType ==
  /\ DOMAIN deferred \subseteq Sectors \cup Demands
  /\ Range(deferred) \subseteq Nat
  /\ submitted \subseteq Sectors \cup Demands
  /\ outstanding \in Nat

\* What the device says of itself.
DeviceInv ==
  /\ DeviceType
  /\ OccupancyExact
  /\ DOMAIN deferred \cap submitted = {}

\* Requests not yet in the device are counted in once each.
LEMMA Enqueued ==
  ASSUME DeviceInv, hop \in Nat,
         NEW S \in SUBSET (Sectors \cup Demands), S \cap InDevice = {}, Enqueue(S)
  PROVE  /\ DeviceInv'
         /\ InDevice' = InDevice \cup S
         /\ outstanding' = outstanding + Cardinality(S)
         /\ Cardinality(S) \in Nat
<1>1. IsFiniteSet(S) /\ Cardinality(S) \in Nat
  BY TokensFinite
<1>2. /\ IsFiniteSet(DOMAIN deferred) /\ Cardinality(DOMAIN deferred) \in Nat
      /\ IsFiniteSet(submitted) /\ Cardinality(submitted) \in Nat
  BY TokensFinite DEF DeviceInv, DeviceType
<1>3. S \cap DOMAIN deferred = {} /\ S \cap submitted = {}
  BY DEF InDevice
<1>4. /\ Cardinality(DOMAIN deferred \cup S) = Cardinality(DOMAIN deferred) + Cardinality(S)
      /\ Cardinality(submitted \cup S) = Cardinality(submitted) + Cardinality(S)
  <2>1. DOMAIN deferred \cap S = {} /\ submitted \cap S = {}
    BY <1>3
  <2> QED
    BY <1>1, <1>2, <2>1, CountApart
<1>5. Lead \in Nat
  BY DEF Lead
<1>6. outstanding' = outstanding + Cardinality(S)
  BY DEF Enqueue
<1>7. outstanding \in Nat
      /\ outstanding = Cardinality(DOMAIN deferred) + Cardinality(submitted)
  BY DEF DeviceInv, DeviceType, OccupancyExact
<1>8. CASE Lead > 0
  <2>1. deferred' = With(deferred, S, Lead) /\ submitted' = submitted
    BY <1>8 DEF Enqueue
  <2>2. DOMAIN deferred' = DOMAIN deferred \cup S
    BY <2>1 DEF With
  <2>3. Range(deferred)' \subseteq Nat
    <3>1. ASSUME NEW k \in DOMAIN deferred' PROVE deferred'[k] \in Nat
      <4>1. k \in S => deferred'[k] = Lead
        BY <2>1, <2>2 DEF With
      <4>2. k \notin S => k \in DOMAIN deferred /\ deferred'[k] = deferred[k]
        BY <2>1, <2>2 DEF With
      <4> QED
        BY <1>5, <4>1, <4>2 DEF DeviceInv, DeviceType, Range
    <3> QED
      BY <3>1 DEF Range
  <2>4. OccupancyExact'
    BY <1>1, <1>2, <1>4, <1>6, <1>7, <2>1, <2>2 DEF OccupancyExact
  <2>5. InDevice' = InDevice \cup S /\ (DOMAIN deferred \cap submitted)' = {}
    BY <1>3, <2>1, <2>2 DEF InDevice, DeviceInv
  <2> QED
    BY <1>1, <1>6, <1>7, <2>1, <2>2, <2>3, <2>4, <2>5 DEF DeviceInv, DeviceType
<1>9. CASE ~ (Lead > 0)
  <2>1. submitted' = submitted \cup S /\ deferred' = deferred
    BY <1>9 DEF Enqueue
  <2>2. OccupancyExact'
    BY <1>1, <1>2, <1>4, <1>6, <1>7, <2>1 DEF OccupancyExact
  <2>3. InDevice' = InDevice \cup S /\ (DOMAIN deferred \cap submitted)' = {}
    BY <1>3, <2>1 DEF InDevice, DeviceInv
  <2> QED
    BY <1>1, <1>6, <1>7, <2>1, <2>2, <2>3 DEF DeviceInv, DeviceType
<1> QED
  BY <1>8, <1>9

\* A completion takes one request out, and the count with it.
LEMMA Completed ==
  ASSUME DeviceInv, NEW k, Complete(k)
  PROVE  /\ DeviceInv'
         /\ InDevice' = InDevice \ {k}
         /\ outstanding' < outstanding
<1>1. k \in submitted /\ submitted' = submitted \ {k} /\ deferred' = deferred
      /\ outstanding' = IF outstanding > 0 THEN outstanding - 1 ELSE 0
  BY DEF Complete
<1>2. /\ Cardinality(DOMAIN deferred) \in Nat
      /\ IsFiniteSet(submitted) /\ Cardinality(submitted) \in Nat
  BY TokensFinite DEF DeviceInv, DeviceType
<1>3. Cardinality(submitted') = Cardinality(submitted) - 1
  BY <1>1, <1>2, FS_RemoveElement
<1>4. Cardinality(submitted) # 0
  BY <1>1, <1>2, FS_EmptySet
<1>5. outstanding \in Nat
      /\ outstanding = Cardinality(DOMAIN deferred) + Cardinality(submitted)
  BY DEF DeviceInv, DeviceType, OccupancyExact
<1>6. outstanding' = outstanding - 1 /\ outstanding' \in Nat
  BY <1>1, <1>2, <1>4, <1>5
<1>7. OccupancyExact'
  BY <1>1, <1>2, <1>3, <1>5, <1>6 DEF OccupancyExact
<1>8. InDevice' = InDevice \ {k} /\ (DOMAIN deferred \cap submitted)' = {}
  BY <1>1 DEF InDevice, DeviceInv
<1> QED
  BY <1>1, <1>5, <1>6, <1>7, <1>8 DEF DeviceInv, DeviceType

\* Requests that become due change places within the device.
LEMMA Released ==
  ASSUME DeviceInv, NEW S, Release(S)
  PROVE  DeviceInv' /\ InDevice' = InDevice /\ outstanding' = outstanding
<1>1. /\ S \subseteq DOMAIN deferred
      /\ submitted' = submitted \cup S
      /\ outstanding' = (outstanding + Cardinality(S)) - Cardinality(S)
      /\ deferred' = [k \in DOMAIN deferred \ S |->
                        IF deferred[k] = 0 THEN 0 ELSE deferred[k] - 1]
  BY DEF Release, Due, Submit
<1>2. DOMAIN deferred' = DOMAIN deferred \ S
  BY <1>1
<1>3. /\ IsFiniteSet(DOMAIN deferred) /\ Cardinality(DOMAIN deferred) \in Nat
      /\ IsFiniteSet(submitted) /\ Cardinality(submitted) \in Nat
  BY TokensFinite DEF DeviceInv, DeviceType
<1>4. IsFiniteSet(S) /\ Cardinality(S) \in Nat
  BY <1>1, <1>3, FS_Subset, FS_CardinalityType
<1>5. Cardinality(submitted') = Cardinality(submitted) + Cardinality(S)
  <2>1. submitted \cap S = {}
    BY <1>1 DEF DeviceInv
  <2> QED
    BY <1>1, <1>3, <1>4, <2>1, CountApart
<1>6. Cardinality(DOMAIN deferred') = Cardinality(DOMAIN deferred) - Cardinality(S)
  <2>1. DOMAIN deferred \cap S = S
    BY <1>1
  <2> QED
    BY <1>2, <1>3, <2>1, FS_Difference
<1>7. outstanding \in Nat
      /\ outstanding = Cardinality(DOMAIN deferred) + Cardinality(submitted)
  BY DEF DeviceInv, DeviceType, OccupancyExact
<1>8. outstanding' = outstanding
  BY <1>1, <1>4, <1>7
<1>9. OccupancyExact'
  BY <1>3, <1>4, <1>5, <1>6, <1>7, <1>8 DEF OccupancyExact
<1>10. Range(deferred)' \subseteq Nat
  <2>1. ASSUME NEW k \in DOMAIN deferred' PROVE deferred'[k] \in Nat
    <3>1. k \in DOMAIN deferred /\ deferred[k] \in Nat
      BY <1>2 DEF DeviceInv, DeviceType, Range
    <3>2. deferred'[k] = IF deferred[k] = 0 THEN 0 ELSE deferred[k] - 1
      BY <1>1, <1>2
    <3> QED
      BY <3>1, <3>2
  <2> QED
    BY <2>1 DEF Range
<1>11. InDevice' = InDevice /\ (DOMAIN deferred \cap submitted)' = {}
  BY <1>1, <1>2 DEF InDevice, DeviceInv
<1> QED
  BY <1>1, <1>2, <1>7, <1>8, <1>9, <1>10, <1>11 DEF DeviceInv, DeviceType

-----------------------------------------------------------------------------
(* Sectors are issued.                                                      *)

EngineType ==
  /\ toVisit \subseteq DOMAIN jobs
  /\ DOMAIN jobs \subseteq Fills /\ Range(jobs) \subseteq Job
  /\ DOMAIN owner \subseteq Sectors /\ Range(owner) \subseteq Fills
  /\ nextFill \in 1 .. MaxFills + 1
  /\ waiting \subseteq Demands

\* Whom completions reach.
Tables ==
  /\ DOMAIN owner \cup waiting = InDevice
  /\ DOMAIN owner \cap waiting = {}
  /\ Range(owner) \subseteq DOMAIN jobs

\* A fill that may be issued sectors of, as it stands in m_fills or is new.
Issuable(f, job) ==
  /\ f \in Fills /\ job \in Job /\ job.issued <= job.total /\ job.remaining > 0
  /\ job.remaining = (job.total - job.issued) + Cardinality(Owned(f))

\* A batch holds sectors not in the device, no more than the fill has left and
\* no more than the device has room for.
LEMMA BatchBounds ==
  ASSUME Tables, EngineType, outstanding \in Nat,
         NEW job \in Job, job.issued <= job.total, NEW S \in Batches(job)
  PROVE  /\ S \in SUBSET (Sectors \cup Demands) /\ S \subseteq Sectors
         /\ S \cap InDevice = {} /\ S \cap DOMAIN owner = {} /\ S \cap waiting = {}
         /\ IsFiniteSet(S) /\ Cardinality(S) \in Nat
         /\ job.issued + Cardinality(S) <= job.total
         /\ Cardinality(S) = 0 \/ outstanding + Cardinality(S) <= Capacity
<1> DEFINE todo == job.total - job.issued
           most == IF todo < Free THEN todo ELSE Free
<1>1. job.total \in Nat /\ job.issued \in Nat /\ todo \in Nat
  <2>1. job.total \in Nat /\ job.issued \in Nat
    BY ConstantTypes DEF Job
  <2> QED
    BY <2>1
<1>2. Free \in Nat /\ (Free = 0 \/ outstanding + Free = Capacity)
  BY ConstantTypes DEF Free
<1>3. PICK n \in 0 .. most : S = Least(Sectors \ DOMAIN owner, n)
  <2>1. most \in 0 .. most
    BY <1>1, <1>2
  <2> QED
    BY <2>1 DEF Batches
<1>4. n \in Nat /\ n <= todo /\ n <= Free
  BY <1>1, <1>2, <1>3
<1>5. Sectors \ DOMAIN owner \in SUBSET (Sectors \cup Demands)
  OBVIOUS
<1>6. S \in SUBSET (Sectors \ DOMAIN owner) /\ IsFiniteSet(S) /\ Cardinality(S) \in 0 .. n
  BY <1>3, <1>4, <1>5, LeastBounded
<1>7. S \cap DOMAIN owner = {} /\ S \cap waiting = {}
  BY <1>6, TokensApart DEF EngineType
<1>8. S \cap InDevice = {}
  BY <1>7 DEF Tables
<1>9. /\ Cardinality(S) \in Nat
      /\ job.issued + Cardinality(S) <= job.total
      /\ Cardinality(S) = 0 \/ outstanding + Cardinality(S) <= Capacity
  BY <1>1, <1>2, <1>4, <1>6, ConstantTypes
<1> QED
  BY <1>6, <1>7, <1>8, <1>9

\* Issuing a batch for a fill keeps all the books.
LEMMA Issued ==
  ASSUME DeviceInv, EngineType, Tables, FillAccounting, FillsAreOld, hop \in Nat,
         NEW f, NEW job, Issuable(f, job), NEW S \in Batches(job),
         IssuePending(f, job, S), f < nextFill', nextFill' \in 1 .. MaxFills + 1,
         nextFill <= nextFill', toVisit' \subseteq DOMAIN jobs \cup {f}, waiting' = waiting
  PROVE  /\ DeviceInv' /\ EngineType' /\ Tables' /\ FillAccounting' /\ FillsAreOld'
         /\ outstanding' = outstanding \/ outstanding' <= Capacity
         /\ jobs'[f].remaining = job.remaining
         /\ jobs'[f].total = job.total
         /\ DOMAIN jobs' = DOMAIN jobs \cup {f}
         /\ \A g \in DOMAIN jobs : g # f => jobs'[g] = jobs[g]
<1>1. /\ S \in SUBSET (Sectors \cup Demands) /\ S \subseteq Sectors
      /\ S \cap InDevice = {} /\ S \cap DOMAIN owner = {}
      /\ IsFiniteSet(S) /\ Cardinality(S) \in Nat
      /\ job.issued + Cardinality(S) <= job.total
      /\ Cardinality(S) = 0 \/ outstanding + Cardinality(S) <= Capacity
  BY BatchBounds DEF DeviceInv, DeviceType, Issuable
<1>2. /\ DeviceInv' /\ InDevice' = InDevice \cup S
      /\ outstanding' = outstanding + Cardinality(S)
  BY <1>1, Enqueued DEF IssuePending
<1>3. /\ outstanding \in Nat
      /\ outstanding' = outstanding \/ outstanding' <= Capacity
  BY <1>1, <1>2 DEF DeviceInv, DeviceType
<1> DEFINE issued == [job EXCEPT !.issued = @ + Cardinality(S)]
<1>4. /\ jobs' = With(jobs, {f}, issued)
      /\ owner' = With(owner, S, f)
  BY DEF IssuePending
<1>5. job \in Job /\ job.total \in Nat /\ job.issued \in Nat /\ job.remaining \in Nat
  BY ConstantTypes DEF Issuable, Job
<1>6. /\ issued \in Job /\ issued.total = job.total
      /\ issued.remaining = job.remaining
      /\ issued.issued = job.issued + Cardinality(S)
  BY <1>1, <1>5 DEF Job
<1> HIDE DEF issued
<1>7. /\ DOMAIN jobs' = DOMAIN jobs \cup {f} /\ jobs'[f] = issued
      /\ \A g \in DOMAIN jobs : g # f => jobs'[g] = jobs[g]
  BY <1>4 DEF With
<1>8. /\ DOMAIN owner' = DOMAIN owner \cup S
      /\ \A k \in S : owner'[k] = f
      /\ \A k \in DOMAIN owner : owner'[k] = owner[k]
  <2>1. \A k \in DOMAIN owner : k \notin S
    BY <1>1
  <2> QED
    BY <1>4, <2>1 DEF With
<1>9. EngineType'
  <2>1. DOMAIN jobs' \subseteq Fills /\ DOMAIN owner' \subseteq Sectors
    BY <1>1, <1>7, <1>8 DEF EngineType, Issuable
  <2>2. Range(jobs)' \subseteq Job
    <3>1. \A g \in DOMAIN jobs : jobs[g] \in Job
      BY DEF EngineType, Range
    <3> QED
      BY <1>6, <1>7, <3>1 DEF Range
  <2>3. Range(owner)' \subseteq Fills
    <3>1. \A k \in DOMAIN owner : owner[k] \in Fills
      BY DEF EngineType, Range
    <3> QED
      BY <1>8, <3>1 DEF Range, Issuable
  <2>4. toVisit' \subseteq DOMAIN jobs' /\ waiting' \subseteq Demands
    BY <1>7 DEF EngineType
  <2> QED
    BY <2>1, <2>2, <2>3, <2>4 DEF EngineType
<1>10. Tables'
  <2>1. DOMAIN owner' \cup waiting' = InDevice'
    BY <1>2, <1>8 DEF Tables
  <2>2. DOMAIN owner' \cap waiting' = {}
    BY <1>1, <1>8 DEF Tables
  <2>3. Range(owner)' \subseteq DOMAIN jobs'
    <3>1. \A k \in DOMAIN owner : owner[k] \in DOMAIN jobs
      BY DEF Tables, Range
    <3> QED
      BY <1>7, <1>8, <3>1 DEF Range
  <2> QED
    BY <2>1, <2>2, <2>3 DEF Tables
<1>11. FillAccounting'
  <2> SUFFICES ASSUME NEW g \in DOMAIN jobs'
               PROVE  /\ jobs'[g].remaining > 0
                      /\ jobs'[g].remaining = (jobs'[g].total - jobs'[g].issued)
                                                + Cardinality(Owned(g)')
    BY DEF FillAccounting
  <2>1. CASE g = f
    <3>1. Owned(f)' = Owned(f) \cup S /\ Owned(f) \cap S = {}
      BY <1>1, <1>8 DEF Owned
    <3>2. Owned(f) \in SUBSET (Sectors \cup Demands)
      BY DEF Owned, EngineType
    <3>3. IsFiniteSet(Owned(f)) /\ Cardinality(Owned(f)) \in Nat
      BY <3>2, TokensFinite
    <3>4. Cardinality(Owned(f)') = Cardinality(Owned(f)) + Cardinality(S)
      BY <1>1, <3>1, <3>3, CountApart
    <3>5. /\ job.remaining > 0
          /\ job.remaining = (job.total - job.issued) + Cardinality(Owned(f))
      BY DEF Issuable
    <3>6. job.remaining = (job.total - (job.issued + Cardinality(S)))
                            + (Cardinality(Owned(f)) + Cardinality(S))
      BY <1>1, <1>5, <3>3, <3>5
    <3> QED
      BY <1>6, <1>7, <2>1, <3>4, <3>5, <3>6
  <2>2. CASE g # f
    <3>1. Owned(g)' = Owned(g)
      BY <1>8, <2>2 DEF Owned
    <3> QED
      BY <1>7, <2>2, <3>1 DEF FillAccounting
  <2> QED
    BY <2>1, <2>2
<1>12. FillsAreOld'
  <2> SUFFICES ASSUME NEW g \in DOMAIN jobs'
               PROVE  g < nextFill' /\ jobs'[g].issued <= jobs'[g].total
    BY DEF FillsAreOld
  <2>1. CASE g = f
    BY <1>1, <1>6, <1>7, <2>1
  <2>2. CASE g # f
    <3>1. g \in DOMAIN jobs /\ jobs'[g] = jobs[g] /\ g < nextFill
      BY <1>7, <2>2 DEF FillsAreOld
    <3>2. g \in Nat /\ nextFill \in Nat /\ nextFill' \in Nat
      <4>1. g \in Fills /\ MaxFills \in Nat
        BY <3>1, ConstantTypes DEF EngineType
      <4>2. nextFill \in 1 .. MaxFills + 1
        BY DEF EngineType
      <4> QED
        BY <4>1, <4>2, ConstantTypes
    <3>3. g < nextFill'
      BY <3>1, <3>2
    <3> QED
      BY <3>1, <3>3 DEF FillsAreOld
  <2> QED
    BY <2>1, <2>2
<1> QED
  BY <1>2, <1>3, <1>6, <1>7, <1>9, <1>10, <1>11, <1>12

-----------------------------------------------------------------------------
(* The inductive invariant.                                                 *)

WalkType ==
  /\ pc \in {"engine", "launch", "release", "serve", "push", "demand"}
  /\ caller \in {"cycle", "push"}
  /\ hop \in Hops

IInv ==
  /\ WalkType /\ EngineType /\ DeviceInv
  /\ Tables /\ FillAccounting /\ FillsAreOld
  /\ Walking /\ OccupancyBound

LEMMA IInvImplies ==
  IInv => TypeOK /\ OccupancyExact /\ OccupancyBound /\ FillAccounting /\ CallbacksMatch
BY DEF IInv, TypeOK, WalkType, EngineType, DeviceInv, DeviceType, Tables, CallbacksMatch

LEMMA InitIInv == Init => IInv
<1> SUFFICES ASSUME Init PROVE IInv
  OBVIOUS
<1>1. DOMAIN jobs = {} /\ DOMAIN owner = {} /\ DOMAIN deferred = {}
  BY DEF Init
<1>2. WalkType
  BY DEF Init, WalkType
<1>3. EngineType
  BY <1>1, ConstantTypes DEF Init, EngineType, Range
<1>4. DeviceInv
  BY <1>1, FS_EmptySet DEF Init, DeviceInv, DeviceType, OccupancyExact, Range
<1>5. Tables /\ FillAccounting /\ FillsAreOld
  BY <1>1 DEF Init, Tables, FillAccounting, FillsAreOld, InDevice, Range
<1>6. Walking /\ OccupancyBound
  BY ConstantTypes DEF Init, Walking, OccupancyBound
<1> QED
  BY <1>2, <1>3, <1>4, <1>5, <1>6 DEF IInv

\* A fill under way may be issued more of, and a new one from its start.
LEMMA OldFillIssuable ==
  ASSUME IInv, NEW f \in DOMAIN jobs
  PROVE  Issuable(f, jobs[f])
BY DEF IInv, EngineType, FillAccounting, FillsAreOld, Issuable, Range

LEMMA NewFillIssuable ==
  ASSUME IInv, nextFill \in Fills, NEW size \in FillSizes
  PROVE  nextFill \notin DOMAIN jobs /\ Issuable(nextFill, NewFill(size))
<1>1. nextFill \notin DOMAIN jobs
  <2>1. \A f \in DOMAIN jobs : f < nextFill
    BY DEF IInv, FillsAreOld
  <2>2. nextFill \in Nat
    BY ConstantTypes
  <2> QED
    BY <2>1, <2>2
<1>2. Owned(nextFill) = {}
  BY <1>1 DEF IInv, Tables, Owned, Range
<1>3. Cardinality(Owned(nextFill)) = 0
  BY <1>2, FS_EmptySet
<1>4. size \in Nat /\ size > 0
  BY ConstantTypes
<1> QED
  BY <1>1, <1>3, <1>4 DEF Issuable, NewFill, Job

\* A sector that comes back is taken off its fill's account, which it closes if
\* it is the last one.
LEMMA SectorDoneKeeps ==
  ASSUME IInv, NEW k \in Sectors, SectorDone(k)
  PROVE  /\ IInv'
         /\ owner[k] \in DOMAIN jobs
         /\ jobs[owner[k]].remaining = 1 =>
              /\ DOMAIN jobs' = DOMAIN jobs \ {owner[k]}
              /\ \A g \in DOMAIN jobs' : jobs'[g] = jobs[g]
         /\ jobs[owner[k]].remaining # 1 =>
              /\ DOMAIN jobs' = DOMAIN jobs
              /\ jobs'[owner[k]].remaining = jobs[owner[k]].remaining - 1
              /\ \A g \in DOMAIN jobs : g # owner[k] => jobs'[g] = jobs[g]
<1>1. /\ DeviceInv' /\ InDevice' = InDevice \ {k} /\ outstanding' < outstanding
  BY Completed DEF SectorDone, IInv
<1>2. /\ pc = "serve" /\ UNCHANGED <<walkVars, nextFill, waiting>>
      /\ k \in DOMAIN owner
      /\ owner' = Without(owner, {k}) /\ jobs' = Landed(owner[k])
  BY DEF SectorDone, Complete
<1>0. PICK f \in DOMAIN jobs : f = owner[k]
  BY <1>2 DEF IInv, Tables, Range
<1>3. jobs[f] \in Job
  BY DEF IInv, EngineType, Range
<1>4. /\ jobs[f].total \in Nat /\ jobs[f].issued \in Nat /\ jobs[f].remaining \in Nat
  BY <1>3, ConstantTypes DEF Job
<1>5. /\ DOMAIN owner' = DOMAIN owner \ {k}
      /\ \A j \in DOMAIN owner' : owner'[j] = owner[j]
  BY <1>2 DEF Without, Restrict
<1>6. /\ IsFiniteSet(Owned(f)) /\ Cardinality(Owned(f)) \in Nat
      /\ k \in Owned(f)
  <2>1. Owned(f) \in SUBSET (Sectors \cup Demands)
    BY DEF Owned, IInv, EngineType
  <2> QED
    BY <1>0, <1>2, <2>1, TokensFinite DEF Owned
<1>7. /\ jobs[f].remaining = (jobs[f].total - jobs[f].issued) + Cardinality(Owned(f))
      /\ jobs[f].remaining > 0 /\ jobs[f].issued <= jobs[f].total
  BY DEF IInv, FillAccounting, FillsAreOld
<1>8. Owned(f)' = Owned(f) \ {k} /\ \A g : g # f => Owned(g)' = Owned(g)
  BY <1>0, <1>2, <1>5 DEF Owned
<1>9. Cardinality(Owned(f)') = Cardinality(Owned(f)) - 1
  BY <1>6, <1>8, FS_RemoveElement
<1>10. /\ WalkType' /\ Walking' /\ OccupancyBound'
  <2>1. outstanding \in Nat /\ outstanding' \in Nat
    BY <1>1 DEF IInv, DeviceInv, DeviceType
  <2>2. pc' = pc /\ caller' = caller /\ hop' = hop /\ toVisit' = toVisit
    BY <1>2 DEF walkVars
  <2>3. caller' = "push" => outstanding' <= Capacity
    BY <1>1, <2>1, <2>2, ConstantTypes DEF IInv, Walking
  <2>4. outstanding' <= Capacity + 1
    BY <1>1, <2>1, ConstantTypes DEF IInv, OccupancyBound
  <2> QED
    BY <2>2, <2>3, <2>4 DEF IInv, WalkType, Walking, OccupancyBound
<1>11. DOMAIN owner' \cup waiting' = InDevice' /\ DOMAIN owner' \cap waiting' = {}
  BY <1>1, <1>2, <1>5 DEF IInv, Tables
<1>12. Range(owner)' \subseteq Range(owner)
  BY <1>5 DEF Range
<1>13. toVisit' = {}
  BY <1>2 DEF IInv, Walking, walkVars
<1>14. CASE jobs[f].remaining = 1
  <2>1. /\ DOMAIN jobs' = DOMAIN jobs \ {f}
        /\ \A g \in DOMAIN jobs' : jobs'[g] = jobs[g]
    BY <1>0, <1>2, <1>14 DEF Landed, Without, Restrict
  <2>2. Owned(f)' = {}
    <3>1. Cardinality(Owned(f)') = 0
      <4>1. Cardinality(Owned(f)) # 0
        BY <1>6, FS_EmptySet
      <4> QED
        BY <1>4, <1>6, <1>7, <1>9, <1>14, <4>1
    <3>2. IsFiniteSet(Owned(f)')
      BY <1>6, <1>8, FS_RemoveElement
    <3> QED
      BY <3>1, <3>2, FS_EmptySet
  <2>3. Tables'
    <3>1. Range(owner)' \subseteq DOMAIN jobs'
      BY <1>5, <1>12, <2>1, <2>2 DEF IInv, Tables, Owned, Range
    <3> QED
      BY <1>11, <3>1 DEF Tables
  <2>4. EngineType'
    <3>1. Range(jobs)' \subseteq Range(jobs)
      BY <2>1 DEF Range
    <3> QED
      BY <1>2, <1>5, <1>12, <1>13, <2>1, <3>1 DEF IInv, EngineType
  <2>5. FillAccounting' /\ FillsAreOld'
    BY <1>2, <1>8, <2>1 DEF IInv, FillAccounting, FillsAreOld
  <2> QED
    BY <1>0, <1>1, <1>10, <1>14, <2>1, <2>3, <2>4, <2>5 DEF IInv
<1>15. CASE jobs[f].remaining # 1
  <2> DEFINE job == [jobs[f] EXCEPT !.remaining = @ - 1]
  <2>1. /\ job \in Job /\ job.total = jobs[f].total /\ job.issued = jobs[f].issued
        /\ job.remaining = jobs[f].remaining - 1 /\ job.remaining > 0
    BY <1>3, <1>4, <1>7, <1>15 DEF Job
  <2>2. /\ DOMAIN jobs' = DOMAIN jobs /\ jobs'[f] = job
        /\ \A g \in DOMAIN jobs : g # f => jobs'[g] = jobs[g]
    BY <1>0, <1>2, <1>15 DEF Landed
  <2> HIDE DEF job
  <2>3. Tables'
    BY <1>11, <1>12, <2>2 DEF IInv, Tables
  <2>4. EngineType'
    <3>1. Range(jobs)' \subseteq Job
      BY <2>1, <2>2 DEF Range, IInv, EngineType
    <3> QED
      BY <1>2, <1>5, <1>12, <1>13, <2>2, <3>1 DEF IInv, EngineType
  <2>5. FillAccounting'
    <3> SUFFICES ASSUME NEW g \in DOMAIN jobs
                 PROVE  /\ jobs'[g].remaining > 0
                        /\ jobs'[g].remaining = (jobs'[g].total - jobs'[g].issued)
                                                  + Cardinality(Owned(g)')
      BY <2>2 DEF FillAccounting
    <3>1. CASE g = f
      BY <1>4, <1>6, <1>7, <1>9, <2>1, <2>2, <3>1
    <3>2. CASE g # f
      BY <1>8, <2>2, <3>2 DEF IInv, FillAccounting
    <3> QED
      BY <3>1, <3>2
  <2>6. FillsAreOld'
    BY <1>2, <1>7, <2>1, <2>2 DEF IInv, FillsAreOld
  <2> QED
    BY <1>0, <1>1, <1>10, <1>15, <2>1, <2>2, <2>3, <2>4, <2>5, <2>6 DEF IInv
<1> QED
  BY <1>14, <1>15

\* A demand that comes back is crossed off the backend's list.
LEMMA DemandDoneKeeps ==
  ASSUME IInv, NEW k \in Demands, DemandDone(k)
  PROVE  IInv' /\ k \in waiting
<1>1. /\ DeviceInv' /\ InDevice' = InDevice \ {k} /\ outstanding' < outstanding
  BY Completed DEF DemandDone, IInv
<1>2. /\ k \in submitted /\ k \notin DOMAIN owner /\ waiting' = waiting \ {k}
      /\ UNCHANGED <<walkVars, engineVars>>
  BY DEF DemandDone, Complete, engineVars
<1>3. k \in waiting
  BY <1>2 DEF IInv, Tables, InDevice
<1>4. Tables' /\ EngineType'
  BY <1>1, <1>2 DEF IInv, Tables, EngineType, Range, walkVars, engineVars
<1>5. FillAccounting' /\ FillsAreOld'
  <2>1. \A f : Owned(f)' = Owned(f)
    BY <1>2 DEF Owned, engineVars
  <2> QED
    BY <1>2, <2>1 DEF IInv, FillAccounting, FillsAreOld, engineVars
<1>6. WalkType' /\ Walking' /\ OccupancyBound'
  <2>1. outstanding \in Nat /\ outstanding' \in Nat
    BY <1>1 DEF IInv, DeviceInv, DeviceType
  <2>2. pc' = pc /\ caller' = caller /\ hop' = hop /\ toVisit' = toVisit
    BY <1>2 DEF walkVars
  <2>3. caller' = "push" => outstanding' <= Capacity
    BY <1>1, <2>1, <2>2, ConstantTypes DEF IInv, Walking
  <2>4. outstanding' <= Capacity + 1
    BY <1>1, <2>1, ConstantTypes DEF IInv, OccupancyBound
  <2> QED
    BY <2>2, <2>3, <2>4 DEF IInv, WalkType, Walking, OccupancyBound
<1> QED
  BY <1>1, <1>3, <1>4, <1>5, <1>6 DEF IInv

\* The engine's visit to a fill keeps the invariant and what it waits for.
LEMMA VisitFillKeeps ==
  ASSUME IInv, NEW f \in Fills, VisitFill(f)
  PROVE  /\ IInv' /\ DOMAIN jobs' = DOMAIN jobs
         /\ \A g \in DOMAIN jobs : jobs'[g].remaining = jobs[g].remaining
<1>1. /\ pc = "engine" /\ f \in toVisit /\ toVisit' = toVisit \ {f}
      /\ UNCHANGED <<pc, caller, hop, nextFill, waiting>>
  BY DEF VisitFill
<1>2. f \in DOMAIN jobs
  BY <1>1 DEF IInv, EngineType
<1>3. PICK S \in Batches(jobs[f]) : IssuePending(f, jobs[f], S)
  BY DEF VisitFill
<1>4. hop \in Nat /\ f < nextFill' /\ nextFill' \in 1 .. MaxFills + 1 /\ nextFill <= nextFill'
  BY <1>1, <1>2, ConstantTypes DEF IInv, WalkType, EngineType, FillsAreOld
<1>5. Issuable(f, jobs[f]) /\ toVisit' \subseteq DOMAIN jobs \cup {f}
  BY <1>1, <1>2, OldFillIssuable DEF IInv, EngineType
<1>6. /\ DeviceInv' /\ EngineType' /\ Tables' /\ FillAccounting' /\ FillsAreOld'
      /\ outstanding' = outstanding \/ outstanding' <= Capacity
      /\ jobs'[f].remaining = jobs[f].remaining
      /\ DOMAIN jobs' = DOMAIN jobs \cup {f}
      /\ \A g \in DOMAIN jobs : g # f => jobs'[g] = jobs[g]
  BY <1>1, <1>3, <1>4, <1>5, Issued DEF IInv
<1>7. WalkType' /\ Walking' /\ OccupancyBound'
  <2>1. outstanding' \in Nat
    BY <1>6 DEF DeviceInv, DeviceType
  <2> QED
    BY <1>1, <1>6, <2>1, ConstantTypes DEF IInv, WalkType, Walking, OccupancyBound
<1> QED
  BY <1>2, <1>6, <1>7 DEF IInv

\* A fill that starts waits for all of its sectors.
LEMMA StartFillKeeps ==
  ASSUME IInv, NEW size \in FillSizes, StartFill(size)
  PROVE  /\ IInv' /\ nextFill \in Fills \ DOMAIN jobs
         /\ DOMAIN jobs' = DOMAIN jobs \cup {nextFill}
         /\ jobs'[nextFill].remaining = size
         /\ \A g \in DOMAIN jobs : jobs'[g] = jobs[g]
<1>1. /\ pc = "launch" /\ nextFill \in Fills /\ nextFill' = nextFill + 1
      /\ UNCHANGED <<walkVars, waiting>>
  BY DEF StartFill
<1>2. PICK S \in Batches(NewFill(size)) : IssuePending(nextFill, NewFill(size), S)
  BY DEF StartFill
<1>3. /\ hop \in Nat /\ nextFill < nextFill' /\ nextFill' \in 1 .. MaxFills + 1
      /\ nextFill <= nextFill'
  BY <1>1, ConstantTypes DEF IInv, WalkType, Fills
<1>4. /\ nextFill \notin DOMAIN jobs /\ Issuable(nextFill, NewFill(size))
      /\ toVisit' \subseteq DOMAIN jobs \cup {nextFill}
  BY <1>1, NewFillIssuable DEF IInv, EngineType, walkVars
<1>5. PICK f : f = nextFill
  OBVIOUS
<1>6. /\ DeviceInv' /\ EngineType' /\ Tables' /\ FillAccounting' /\ FillsAreOld'
      /\ outstanding' = outstanding \/ outstanding' <= Capacity
      /\ jobs'[f].remaining = NewFill(size).remaining
      /\ DOMAIN jobs' = DOMAIN jobs \cup {f}
      /\ \A g \in DOMAIN jobs : g # f => jobs'[g] = jobs[g]
  <2>1. Issuable(f, NewFill(size)) /\ IssuePending(f, NewFill(size), S) /\ f < nextFill'
    BY <1>2, <1>3, <1>4, <1>5
  <2> QED
    BY <1>1, <1>3, <1>4, <1>5, <2>1, Issued DEF IInv
<1>7. WalkType' /\ Walking' /\ OccupancyBound'
  <2>1. outstanding' \in Nat
    BY <1>6 DEF DeviceInv, DeviceType
  <2> QED
    BY <1>1, <1>6, <2>1, ConstantTypes DEF IInv, WalkType, Walking, OccupancyBound, walkVars
<1> QED
  BY <1>1, <1>4, <1>5, <1>6, <1>7 DEF IInv, NewFill

\* A demand request enters a device that may be full to the last place.
LEMMA DemandKeeps ==
  ASSUME IInv, Demand
  PROVE  /\ IInv' /\ jobs' = jobs
         /\ \E d \in Demands \ waiting : waiting' = waiting \cup {d}
<1>1. PICK d \in Least(Demands \ waiting, 1) : waiting' = waiting \cup {d} /\ Enqueue({d})
  BY DEF Demand
<1>2. /\ pc = "demand" /\ pc' = "engine" /\ caller' = "cycle" /\ toVisit' = DOMAIN jobs
      /\ UNCHANGED <<hop, engineVars>>
  BY DEF Demand
<1>3. d \in Demands \ waiting
  BY <1>1 DEF Least
<1>4. {d} \in SUBSET (Sectors \cup Demands) /\ {d} \cap InDevice = {} /\ d \notin DOMAIN owner
  BY <1>3, TokensApart DEF IInv, Tables, EngineType
<1>5. hop \in Nat
  BY ConstantTypes DEF IInv, WalkType
<1>6. /\ DeviceInv' /\ InDevice' = InDevice \cup {d}
      /\ outstanding' = outstanding + Cardinality({d})
  BY <1>1, <1>4, <1>5, Enqueued DEF IInv
<1>7. outstanding' <= Capacity + 1
  <2>1. Cardinality({d}) = 1
    BY FS_Singleton
  <2>2. outstanding \in Nat /\ outstanding <= Capacity
    BY <1>2 DEF IInv, Walking, DeviceInv, DeviceType
  <2> QED
    BY <1>6, <2>1, <2>2, ConstantTypes
<1>8. Tables' /\ EngineType'
  BY <1>1, <1>2, <1>3, <1>4, <1>6 DEF IInv, Tables, EngineType, Range, engineVars
<1>9. FillAccounting' /\ FillsAreOld'
  <2>1. \A f : Owned(f)' = Owned(f)
    BY <1>2 DEF Owned, engineVars
  <2> QED
    BY <1>2, <2>1 DEF IInv, FillAccounting, FillsAreOld, engineVars
<1>10. WalkType' /\ Walking' /\ OccupancyBound'
  BY <1>2, <1>7 DEF IInv, WalkType, Walking, OccupancyBound
<1> QED
  BY <1>1, <1>2, <1>3, <1>6, <1>8, <1>9, <1>10 DEF IInv, engineVars

\* Requests that become due concern nobody outside the device.
LEMMA ReleaseKeeps ==
  ASSUME IInv, NEW S, Release(S)
  PROVE  IInv' /\ UNCHANGED <<jobs, waiting>>
<1>1. DeviceInv' /\ InDevice' = InDevice /\ outstanding' = outstanding
  BY Released DEF IInv
<1>2. /\ pc = "release" /\ pc' = "serve"
      /\ UNCHANGED <<caller, hop, toVisit, engineVars, waiting>>
  BY DEF Release
<1>3. \A f : Owned(f)' = Owned(f)
  BY <1>2 DEF Owned, engineVars
<1>4. Tables' /\ EngineType' /\ FillAccounting' /\ FillsAreOld'
  BY <1>1, <1>2, <1>3
     DEF IInv, Tables, EngineType, FillAccounting, FillsAreOld, Range, engineVars
<1>5. WalkType' /\ Walking' /\ OccupancyBound'
  BY <1>1, <1>2 DEF IInv, WalkType, Walking, OccupancyBound
<1> QED
  BY <1>1, <1>2, <1>4, <1>5 DEF IInv, engineVars

\* The walk itself: steps from place to place that change no books.
Stroll == EngineDone \/ LaunchDone \/ ServeDone \/ Push \/ NextCycle \/ NoDemand

LEMMA StrollKeeps ==
  ASSUME IInv, Stroll
  PROVE  IInv' /\ UNCHANGED <<jobs, waiting>>
<1>1. UNCHANGED <<hop, engineVars, deviceVars, waiting>>
  BY DEF Stroll, EngineDone, LaunchDone, ServeDone, Push, NextCycle, NoDemand
<1>2. DeviceInv' /\ InDevice' = InDevice
  BY <1>1 DEF IInv, DeviceInv, DeviceType, OccupancyExact, InDevice, Range, deviceVars
<1>3. \A f : Owned(f)' = Owned(f)
  BY <1>1 DEF Owned, engineVars
<1>4. toVisit' = toVisit \/ toVisit' = DOMAIN jobs
  BY DEF Stroll, EngineDone, LaunchDone, ServeDone, Push, NextCycle, NoDemand
<1>5. Tables' /\ EngineType' /\ FillAccounting' /\ FillsAreOld'
  BY <1>1, <1>2, <1>3, <1>4
     DEF IInv, Tables, EngineType, FillAccounting, FillsAreOld, Range, engineVars
<1>6. WalkType' /\ Walking'
  <2>1. CASE EngineDone \/ LaunchDone \/ ServeDone \/ NextCycle \/ NoDemand
    BY <1>1, <2>1 DEF EngineDone, LaunchDone, ServeDone, NextCycle, NoDemand,
                      IInv, WalkType, Walking, deviceVars
  <2>2. CASE Push
    <3>1. outstanding < Capacity
      BY <2>2, ConstantTypes DEF Push, CanAccept, Free
    <3>2. outstanding \in Nat
      BY DEF IInv, DeviceInv, DeviceType
    <3> QED
      BY <1>1, <2>2, <3>1, <3>2, ConstantTypes
         DEF Push, IInv, WalkType, Walking, deviceVars
  <2> QED
    BY <2>1, <2>2 DEF Stroll
<1>7. OccupancyBound'
  BY <1>1 DEF IInv, OccupancyBound, deviceVars
<1> QED
  BY <1>1, <1>2, <1>5, <1>6, <1>7 DEF IInv, engineVars

LEMMA NextIInv == IInv /\ [Next]_vars => IInv'
<1> SUFFICES ASSUME IInv, [Next]_vars PROVE IInv'
  OBVIOUS
<1>1. CASE \E f \in Fills : VisitFill(f)
  BY <1>1, VisitFillKeeps
<1>2. CASE \E S \in SUBSET Due : Release(S)
  BY <1>2, ReleaseKeeps
<1>3. CASE Demand
  BY <1>3, DemandKeeps
<1>4. CASE Stroll
  BY <1>4, StrollKeeps
<1>5. CASE \E size \in FillSizes : StartFill(size)
  BY <1>5, StartFillKeeps
<1>6. CASE \E k \in Sectors : SectorDone(k)
  BY <1>6, SectorDoneKeeps
<1>7. CASE \E k \in Demands : DemandDone(k)
  BY <1>7, DemandDoneKeeps
<1>8. CASE UNCHANGED vars
  BY <1>8 DEF vars, walkVars, engineVars, deviceVars, IInv, WalkType, EngineType,
              DeviceInv, DeviceType, OccupancyExact, Tables, InDevice, FillAccounting,
              FillsAreOld, Walking, OccupancyBound, Owned, Range
<1> QED
  BY <1>1, <1>2, <1>3, <1>4, <1>5, <1>6, <1>7, <1>8 DEF Next, Walk, Stroll

LEMMA Invariant == Spec => []IInv
BY InitIInv, NextIInv, PTL DEF Spec
-----------------------------------------------------------------------------
(* What follows for the program.                                            *)

\* Every variable of the engine and the device keeps its type.
THEOREM TypeCorrect == Spec => []TypeOK
BY Invariant, IInvImplies, PTL

\* m_outstanding is the number of requests in the device, whichever way they
\* went in and out.
THEOREM OccupancyIsExact == Spec => []OccupancyExact
BY Invariant, IInvImplies, PTL

\* Of any number of fills of any size, the device never takes more than
\* kMaxOutstanding requests and one demand request.
THEOREM OccupancyIsBounded == Spec => []OccupancyBound
BY Invariant, IInvImplies, PTL

\* A fill is reported when its last sector is in: never early, and never with
\* a sector still on its way.
THEOREM FillsAreAccountedFor == Spec => []FillAccounting
BY Invariant, IInvImplies, PTL

\* Every completion finds the fill or the request it belongs to.
THEOREM CompletionsArrive == Spec => []CallbacksMatch
BY Invariant, IInvImplies, PTL
-----------------------------------------------------------------------------
(* The fill service.                                                        *)

\* The sectors still to arrive, as Service has them.
Left == [f \in DOMAIN jobs |->
           (jobs[f].total - jobs[f].issued) + Cardinality(Owned(f))]

\* They are what the engine keeps in remaining.
LEMMA LeftIsRemaining ==
  ASSUME IInv
  PROVE  Left = [f \in DOMAIN jobs |-> jobs[f].remaining]
BY DEF IInv, FillAccounting, Left

\* A step is one of the service, or none.
LEMMA StepServes == IInv /\ IInv' /\ [Next]_vars => [Service!Next]_(Service!vars)
<1> SUFFICES ASSUME IInv, IInv', [Next]_vars PROVE [Service!Next]_(Service!vars)
  OBVIOUS
<1>1. Left = [f \in DOMAIN jobs |-> jobs[f].remaining]
  BY LeftIsRemaining
<1>2. Left' = [f \in DOMAIN jobs' |-> jobs'[f].remaining]
  BY DEF IInv, FillAccounting, Left
<1>3. Left' = Left /\ waiting' = waiting => UNCHANGED Service!vars
  BY DEF Left, Service!vars
<1>4. CASE \E f \in Fills : VisitFill(f)
  <2>1. /\ DOMAIN jobs' = DOMAIN jobs /\ waiting' = waiting
        /\ \A g \in DOMAIN jobs : jobs'[g].remaining = jobs[g].remaining
    BY <1>4, VisitFillKeeps DEF VisitFill
  <2> QED
    BY <1>1, <1>2, <1>3, <2>1
<1>5. CASE (\E S \in SUBSET Due : Release(S)) \/ Stroll
  <2>1. jobs' = jobs /\ waiting' = waiting
    BY <1>5, ReleaseKeeps, StrollKeeps
  <2> QED
    BY <1>1, <1>2, <1>3, <2>1
<1>6. CASE Demand
  <2>1. PICK d \in Demands \ waiting : waiting' = waiting \cup {d}
    BY <1>6, DemandKeeps
  <2>2. Left' = Left
    BY <1>1, <1>2, <1>6, DemandKeeps
  <2>3. Service!Ask(d)
    BY <2>1, <2>2 DEF Service!Ask, Left
  <2> QED
    BY <2>1, <2>3 DEF Service!Next
<1>7. CASE \E size \in FillSizes : StartFill(size)
  <2>1. PICK size \in FillSizes : StartFill(size)
    BY <1>7
  <2>2. PICK f : f = nextFill
    OBVIOUS
  <2>3. /\ f \in Fills \ DOMAIN jobs /\ DOMAIN jobs' = DOMAIN jobs \cup {f}
        /\ jobs'[f].remaining = size
        /\ \A g \in DOMAIN jobs : jobs'[g] = jobs[g]
    BY <2>1, <2>2, StartFillKeeps
  <2>4. waiting' = waiting
    BY <2>1 DEF StartFill
  <2>5. Left' = [g \in DOMAIN Left \cup {f} |-> IF g = f THEN size ELSE Left[g]]
    BY <1>1, <1>2, <2>3
  <2>6. f \notin DOMAIN Left
    BY <1>1, <2>3
  <2>7. Service!Start(f, size)
    BY <2>4, <2>5, <2>6 DEF Service!Start, Left
  <2> QED
    BY <2>3, <2>7 DEF Service!Next
<1>8. CASE \E k \in Sectors : SectorDone(k)
  <2>1. PICK k \in Sectors : SectorDone(k)
    BY <1>8
  <2>2. PICK f \in DOMAIN jobs : f = owner[k]
    BY <2>1, SectorDoneKeeps
  <2>3. /\ jobs[f].remaining = 1 =>
             /\ DOMAIN jobs' = DOMAIN jobs \ {f}
             /\ \A g \in DOMAIN jobs' : jobs'[g] = jobs[g]
        /\ jobs[f].remaining # 1 =>
             /\ DOMAIN jobs' = DOMAIN jobs
             /\ jobs'[f].remaining = jobs[f].remaining - 1
             /\ \A g \in DOMAIN jobs : g # f => jobs'[g] = jobs[g]
    BY <2>1, <2>2, SectorDoneKeeps
  <2>4. waiting' = waiting
    BY <2>1 DEF SectorDone
  <2>5. f \in DOMAIN Left /\ Left[f] = jobs[f].remaining
    BY <1>1
  <2>6. jobs[f].remaining = 1 => Left' = Restrict(Left, DOMAIN Left \ {f})
    BY <1>1, <1>2, <2>3 DEF Restrict
  <2>7. jobs[f].remaining # 1 => Left' = [Left EXCEPT ![f] = @ - 1]
    BY <1>1, <1>2, <2>3
  <2>8. Left' = IF Left[f] = 1 THEN Restrict(Left, DOMAIN Left \ {f})
                ELSE [Left EXCEPT ![f] = @ - 1]
    BY <2>5, <2>6, <2>7
  <2>9. Service!Arrive(f)
    <3>1. f \in DOMAIN Left
      BY <2>5
    <3> QED
      BY <2>4, <2>8, <3>1 DEF Service!Arrive, Service!Restrict, Restrict, Left
  <2> QED
    BY <2>9 DEF Service!Next, IInv, EngineType
<1>9. CASE \E k \in Demands : DemandDone(k)
  <2>1. PICK k \in Demands : DemandDone(k)
    BY <1>9
  <2>2. k \in waiting /\ waiting' = waiting \ {k} /\ jobs' = jobs
    BY <2>1, DemandDoneKeeps DEF DemandDone
  <2>3. Left' = Left
    BY <1>1, <1>2, <2>2
  <2>4. Service!Reply(k)
    BY <2>2, <2>3 DEF Service!Reply, Left
  <2> QED
    BY <2>4 DEF Service!Next
<1>10. CASE UNCHANGED vars
  <2>1. jobs' = jobs /\ waiting' = waiting
    BY <1>10 DEF vars, engineVars
  <2> QED
    BY <1>1, <1>2, <1>3, <2>1
<1> QED
  BY <1>4, <1>5, <1>6, <1>7, <1>8, <1>9, <1>10 DEF Next, Walk, Stroll

LEMMA InitServes == Init => Service!Init
<1> SUFFICES ASSUME Init PROVE Service!Init
  OBVIOUS
<1>1. DOMAIN jobs = {} /\ waiting = {}
  BY DEF Init
<1>2. [f \in DOMAIN jobs |-> (jobs[f].total - jobs[f].issued) + Cardinality(Owned(f))]
        = [f \in {} |-> 0]
  BY <1>1
<1> QED
  BY <1>1, <1>2 DEF Service!Init

\* The engine and the device implement the fill service: each fill is so many
\* sectors that arrive one at a time, each demand is answered once, and nothing
\* else is ever reported.  That all of it is reported in the end is left to the
\* runs.
THEOREM ImplementsFillService == Spec => Service!Spec
<1>1. IInv /\ IInv' /\ [Next]_vars => [Service!Next]_(Service!vars)
  BY StepServes
<1> QED
  BY <1>1, InitServes, Invariant, PTL DEF Spec, Service!Spec
=============================================================================
