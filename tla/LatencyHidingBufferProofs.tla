--------------------- MODULE LatencyHidingBufferProofs ---------------------
(***************************************************************************)
(* Proofs about the Latency Hiding Buffer, for every value of its constants.*)
(***************************************************************************)
EXTENDS LatencyHidingBuffer, FiniteSetTheorems, SequenceTheorems, TLAPS

-----------------------------------------------------------------------------
(* Counting halves.                                                         *)

\* Any set of halves is finite, so counting it gives a natural number.
LEMMA HalvesFinite ==
  ASSUME NEW T \in SUBSET Halves
  PROVE  IsFiniteSet(T) /\ Cardinality(T) \in Nat
<1>1. IsFiniteSet(Halves)
  BY LhbConstants, FS_Interval DEF Halves
<1>2. IsFiniteSet(T)
  BY <1>1, FS_Subset
<1> QED
  BY <1>2, FS_CardinalityType

\* launch_fills() launches no more fills than there are chunks, idle halves,
\* and places left below the cap.
LEMMA LaunchCountBounds ==
  ASSUME NEW b, b.streams \in Seq(ChunkType)
  PROVE  /\ LaunchCount(b) \in 0 .. Len(b.streams)
         /\ LaunchCount(b) <= Cardinality(IdleHalves(b.halves))
         /\ Outstanding(b.halves) <= MaxOutstanding =>
              LaunchCount(b) + Outstanding(b.halves) <= MaxOutstanding
<1>1. Cardinality(IdleHalves(b.halves)) \in Nat
  BY HalvesFinite DEF IdleHalves
<1>2. Outstanding(b.halves) \in Nat
  BY HalvesFinite DEF Outstanding
<1>3. Len(b.streams) \in Nat
  BY LenProperties
<1>4. MaxOutstanding \in Nat
  BY LhbConstants
<1> QED
  BY <1>1, <1>2, <1>3, <1>4 DEF LaunchCount, Least, Greatest

\* How many members of a set of halves come no later than i.
Nth(T, i) == Cardinality({j \in T : j <= i})

\* Counting from the first half, each member of a set has a position ...
LEMMA NthInRange ==
  ASSUME NEW T \in SUBSET Halves, NEW i \in T
  PROVE  Nth(T, i) \in 1 .. Cardinality(T)
<1> DEFINE UpTo == {j \in T : j <= i}
<1>1. UpTo \in SUBSET Halves /\ UpTo \in SUBSET T
  OBVIOUS
<1>2. IsFiniteSet(UpTo) /\ Cardinality(UpTo) \in Nat
  BY <1>1, HalvesFinite
<1>3. IsFiniteSet(T) /\ Cardinality(T) \in Nat
  BY HalvesFinite
<1>4. Cardinality(UpTo) <= Cardinality(T)
  BY <1>1, <1>3, FS_Subset
<1>5. i \in UpTo
  BY DEF Halves
<1>6. Cardinality(UpTo) # 0
  BY <1>2, <1>5, FS_EmptySet
<1> QED
  BY <1>2, <1>3, <1>4, <1>6 DEF Nth

\* ... later members have later positions ...
LEMMA NthIncreases ==
  ASSUME NEW T \in SUBSET Halves, NEW i \in T, NEW j \in T, i < j
  PROVE  Nth(T, i) < Nth(T, j)
<1> DEFINE UpTo(k) == {m \in T : m <= k}
<1>1. i \in Int /\ j \in Int /\ T \subseteq Int
  BY DEF Halves
<1>2. UpTo(i) \in SUBSET Halves /\ UpTo(j) \in SUBSET Halves
  OBVIOUS
<1>3. /\ IsFiniteSet(UpTo(j))
      /\ Cardinality(UpTo(i)) \in Nat /\ Cardinality(UpTo(j)) \in Nat
  BY <1>2, HalvesFinite
<1>4. UpTo(i) \in SUBSET UpTo(j)
  <2>1. ASSUME NEW m \in T, m <= i PROVE m <= j
    BY <1>1, <2>1
  <2> QED
    BY <2>1
<1>5. j \in UpTo(j) /\ j \notin UpTo(i)
  BY <1>1
<1>6. Cardinality(UpTo(i)) <= Cardinality(UpTo(j))
      /\ (Cardinality(UpTo(j)) = Cardinality(UpTo(i)) => UpTo(j) = UpTo(i))
  BY <1>3, <1>4, FS_Subset
<1>7. Cardinality(UpTo(i)) < Cardinality(UpTo(j))
  BY <1>3, <1>5, <1>6
<1> QED
  BY <1>7 DEF Nth

\* ... and every position up to the number of members is taken: an injection
\* between finite sets of one size is onto.
LEMMA NthOnto ==
  ASSUME NEW T \in SUBSET Halves, NEW n \in 1 .. Cardinality(T)
  PROVE  \E i \in T : Nth(T, i) = n
<1> DEFINE P == 1 .. Cardinality(T)
           f == [i \in T |-> Nth(T, i)]
<1>1. IsFiniteSet(T) /\ Cardinality(T) \in Nat
  BY HalvesFinite
<1>2. IsFiniteSet(P) /\ Cardinality(P) = Cardinality(T)
  BY <1>1, FS_Interval
<1>3. f \in [T -> P]
  BY NthInRange
<1>4. ASSUME NEW i \in T, NEW j \in T, f[i] = f[j] PROVE i = j
  <2>1. i \in Int /\ j \in Int /\ Nth(T, i) \in Int /\ Nth(T, j) \in Int
    BY NthInRange DEF Halves
  <2>2. ~ (i < j) /\ ~ (j < i)
    BY <1>4, <2>1, NthIncreases
  <2> QED
    BY <2>1, <2>2
<1>5. f \in Injection(T, P)
  BY <1>3, <1>4 DEF Injection, IsInjective
<1>6. f \in Surjection(T, P)
  BY <1>2, <1>5, FS_Injection
<1>7. \E i \in T : f[i] = n
  BY <1>6 DEF Surjection
<1> QED
  BY <1>7

\* So the loop of launch_fills() visits each idle half in an iteration of its
\* own, and no iteration goes without a half.
LEMMA RankOfIdle ==
  ASSUME NEW hs
  PROVE  /\ IdleHalves(hs) \in SUBSET Halves
         /\ Cardinality(IdleHalves(hs)) \in Nat
         /\ \A i \in IdleHalves(hs) :
              Rank(hs, i) \in 1 .. Cardinality(IdleHalves(hs))
         /\ \A i, j \in IdleHalves(hs) : Rank(hs, i) = Rank(hs, j) => i = j
         /\ \A n \in 1 .. Cardinality(IdleHalves(hs)) :
              \E i \in IdleHalves(hs) : Rank(hs, i) = n
<1> DEFINE T == IdleHalves(hs)
<1>1. T \in SUBSET Halves
  BY DEF IdleHalves
<1>2. \A i : Rank(hs, i) = Nth(T, i)
  BY DEF Rank, Nth
<1> HIDE DEF T
<1>3. Cardinality(T) \in Nat
  BY <1>1, HalvesFinite
<1>4. \A i \in T : Nth(T, i) \in 1 .. Cardinality(T)
  BY <1>1, NthInRange
<1>5. ASSUME NEW i \in T, NEW j \in T, Nth(T, i) = Nth(T, j) PROVE i = j
  <2>1. i \in Int /\ j \in Int /\ Nth(T, i) \in Int /\ Nth(T, j) \in Int
    BY <1>1, <1>4 DEF Halves
  <2>2. ~ (i < j) /\ ~ (j < i)
    BY <1>1, <1>5, <2>1, NthIncreases
  <2> QED
    BY <2>1, <2>2
<1>6. \A n \in 1 .. Cardinality(T) : \E i \in T : Nth(T, i) = n
  BY <1>1, NthOnto
<1> QED
  BY <1>1, <1>2, <1>3, <1>4, <1>5, <1>6 DEF T

\* A set of halves that is not empty has a first member.
LEMMA FirstHalf ==
  ASSUME NEW T \in SUBSET Halves, T # {}
  PROVE  \E i \in T : \A j \in T : i <= j
<1>1. Cardinality(T) \in Nat /\ Cardinality(T) # 0
  BY HalvesFinite, FS_EmptySet
<1>2. PICK i \in T : Nth(T, i) = 1
  BY <1>1, NthOnto
<1>3. ASSUME NEW j \in T PROVE i <= j
  <2>1. i \in Int /\ j \in Int /\ Nth(T, j) \in Int /\ Nth(T, j) >= 1
    BY NthInRange DEF Halves
  <2>2. CASE j < i
    BY <1>2, <2>1, <2>2, NthIncreases
  <2> QED
    BY <2>1, <2>2
<1> QED
  BY <1>3

-----------------------------------------------------------------------------
(* Types of the values the methods compute.                                 *)

BufferType ==
  [halves : [Halves -> HalfType], streams : Seq(ChunkType), token : Nat \ {0}]

LEMMA ConstantTypes ==
  /\ Factor \in Nat \ {0}
  /\ ChunkSpan \in Nat \ {0}
  /\ ReadLatency \in Nat /\ LineTime \in Nat /\ SramLatency \in Nat
  /\ Hop \in Nat /\ MaxHints \in Nat /\ MaxOutstanding \in Nat
  /\ NumHalves \in Nat /\ Async \in BOOLEAN /\ Enabled \in BOOLEAN
<1>1. Factor \in Nat \ {0}
  BY LhbConstants DEF Factor
<1>2. \A a, b \in Nat \ {0} : a * b \in Nat \ {0}
  OBVIOUS
<1>3. ChunkSpan \in Nat \ {0}
  BY <1>1, <1>2, LhbConstants DEF ChunkSpan
<1> QED
  BY <1>1, <1>3, LhbConstants

\* A tensor is cut into chunks of at least one line, none of which runs past
\* its end: no span underflows.
LEMMA ChunksType ==
  ASSUME NEW t \in [addr : Nat, size : Nat]
  PROVE  ChunksOf(t) \in Seq(ChunkType)
<1> DEFINE n == (t.size + ChunkSpan - 1) \div ChunkSpan
           chunk(k) == [base |-> t.addr + (k - 1) * ChunkSpan,
                        span |-> Least(ChunkSpan, t.size - (k - 1) * ChunkSpan),
                        last |-> k = n]
<1>1. t.size \in Nat /\ t.addr \in Nat /\ ChunkSpan \in Nat /\ ChunkSpan > 0
  BY ConstantTypes
<1>2. \A a, b \in Nat : b > 0 => a \div b \in Nat /\ (a \div b) * b <= a
  OBVIOUS
<1>3. n \in Nat /\ n * ChunkSpan <= t.size + ChunkSpan - 1
  BY <1>1, <1>2
<1>4. ASSUME NEW k \in 1 .. n PROVE chunk(k) \in ChunkType
  <2> DEFINE off == (k - 1) * ChunkSpan
  <2>1. \A a, b, c \in Nat : a <= b => a * c <= b * c
    OBVIOUS
  <2>2. off <= (n - 1) * ChunkSpan
    BY <1>1, <1>3, <2>1
  <2>3. (n - 1) * ChunkSpan = n * ChunkSpan - ChunkSpan
    BY <1>1, <1>3
  <2>4. off \in Nat
    BY <1>1
  <2>5. off < t.size
    BY <1>1, <1>3, <2>2, <2>3, <2>4
  <2>6. t.addr + off \in Nat /\ Least(ChunkSpan, t.size - off) \in Nat
    BY <1>1, <2>4, <2>5 DEF Least
  <2> QED
    BY <2>6 DEF ChunkType
<1>5. [k \in 1 .. n |-> chunk(k)] \in [1 .. n -> ChunkType]
  BY <1>4
<1>6. [k \in 1 .. n |-> chunk(k)] \in Seq(ChunkType)
  <2> DEFINE c == [k \in 1 .. n |-> chunk(k)]
  <2>1. c \in [1 .. n -> ChunkType] /\ n \in Nat
    BY <1>3, <1>5
  <2> HIDE DEF c, n
  <2>2. c \in Seq(ChunkType)
    BY <2>1, SeqDef
  <2> QED
    BY <2>2 DEF c
<1> QED
  BY <1>6 DEF ChunksOf

\* A half is charged with a share of its chunk that is a natural number.
LEMMA FilledHalfType ==
  ASSUME NEW c \in ChunkType, NEW token \in Nat, NEW t \in Nat
  PROVE  FilledHalf(c, token, t) \in HalfType
<1> DEFINE stored == Greatest(1, c.span \div Factor)
<1>1. c.span \in Nat /\ c.base \in Nat
  BY DEF ChunkType
<1>2. \A a, b \in Nat : (b > 0 => a \div b \in Nat) /\ a * b \in Nat
  OBVIOUS
<1>3. stored \in Nat
  BY <1>1, <1>2, ConstantTypes DEF Greatest
<1>4. t + ReadLatency + stored * LineTime \in Nat
  BY <1>2, <1>3, ConstantTypes
<1>5. (IF Async THEN 0 ELSE t + ReadLatency + stored * LineTime) \in Nat
  BY <1>4
<1>6. (IF Async THEN token ELSE 0) \in Nat
  OBVIOUS
<1> QED
  BY <1>1, <1>3, <1>5, <1>6, ConstantTypes DEF FilledHalf, HalfType, States

LEMMA RetireFillsType ==
  ASSUME NEW hs \in [Halves -> HalfType], NEW t \in Nat
  PROVE  RetireFills(hs, t) \in [Halves -> HalfType]
<1>1. ASSUME NEW h \in HalfType
      PROVE  /\ [h EXCEPT !.state = "Ready"] \in HalfType
             /\ [h EXCEPT !.state = "Filling"] \in HalfType
  BY DEF HalfType, States
<1> QED
  BY <1>1 DEF RetireFills

LEMMA LaunchFillsType ==
  ASSUME NEW b \in BufferType, NEW t \in Nat
  PROVE  LaunchFills(b, t) \in BufferType
<1> DEFINE n == LaunchCount(b)
           r(i) == Rank(b.halves, i)
<1>1. /\ b.halves \in [Halves -> HalfType] /\ b.streams \in Seq(ChunkType)
      /\ b.token \in Nat \ {0}
  BY DEF BufferType
<1>2. n \in 0 .. Len(b.streams) /\ Len(b.streams) \in Nat
  BY <1>1, LaunchCountBounds, LenProperties
<1>3. ASSUME NEW i \in IdleHalves(b.halves), r(i) <= n
      PROVE  FilledHalf(b.streams[r(i)], b.token + r(i) - 1, t) \in HalfType
  <2>1. r(i) \in Nat \ {0}
    BY RankOfIdle
  <2>2. b.streams[r(i)] \in ChunkType
    BY <1>1, <1>2, <1>3, <2>1, ElementOfSeq
  <2>3. b.token + r(i) - 1 \in Nat
    BY <1>1, <2>1
  <2> QED
    BY <2>2, <2>3, FilledHalfType
<1>4. LaunchFills(b, t).halves \in [Halves -> HalfType]
  BY <1>1, <1>3 DEF LaunchFills
<1>5. SubSeq(b.streams, n + 1, Len(b.streams)) \in Seq(ChunkType)
  <2>1. \A k \in n + 1 .. Len(b.streams) : b.streams[k] \in ChunkType
    BY <1>1, <1>2, ElementOfSeq
  <2> QED
    BY <1>2, <2>1, SubSeqProperties
<1>6. b.token + (IF Async THEN n ELSE 0) \in Nat \ {0}
  BY <1>1, <1>2
<1> QED
  BY <1>4, <1>5, <1>6 DEF LaunchFills, BufferType

LEMMA AgedType ==
  ASSUME NEW b \in BufferType
  PROVE  Aged(b) \in BufferType
<1>1. ASSUME NEW h \in HalfType
      PROVE  [h EXCEPT !.start = Greatest(-1, @ - 1), !.done = Greatest(0, @ - 1)]
               \in HalfType
  <2>1. Greatest(-1, h.start - 1) \in Int /\ Greatest(0, h.done - 1) \in Nat
    BY DEF HalfType, Greatest
  <2>2. \A x \in Int, y \in Nat : [h EXCEPT !.start = x, !.done = y] \in HalfType
    BY DEF HalfType
  <2> QED
    BY <2>1, <2>2
<1> QED
  BY <1>1 DEF Aged, BufferType

LEMMA TickedType ==
  ASSUME NEW b \in BufferType, NEW t \in Nat
  PROVE  Ticked(b, t) \in BufferType
<1>1. [b EXCEPT !.halves = RetireFills(b.halves, t)] \in BufferType
  BY RetireFillsType DEF BufferType
<1> QED
  BY <1>1, LaunchFillsType DEF Ticked

\* find_half() finds a half that covers the access, when there is one.
LEMMA FindHalfCovers ==
  ASSUME NEW hs, NEW d, Covering(hs, d) # {}
  PROVE  FindHalf(hs, d) \in Covering(hs, d) /\ FindHalf(hs, d) \in Halves
<1>1. Covering(hs, d) \in SUBSET Halves
  BY DEF Covering
<1>2. \E i \in Covering(hs, d) : \A j \in Covering(hs, d) : i <= j
  BY <1>1, FirstHalf
<1> QED
  BY <1>1, <1>2 DEF FindHalf

LEMMA EmptyHalfType == EmptyHalf \in HalfType
BY DEF EmptyHalf, HalfType, States

LEMMA ConsumeType ==
  ASSUME NEW h \in HalfType, NEW d \in Demands
  PROVE  Consume(h, d) \in HalfType
<1>1. d.size \in Nat
  BY LhbConstants
<1> QED
  BY <1>1 DEF Consume, HalfType, Least

LEMMA AfterAccessType ==
  ASSUME NEW b \in BufferType, NEW d \in Demands
  PROVE  AfterAccess(b, d) \in BufferType
<1> DEFINE i == FindHalf(b.halves, d)
           h == Consume(b.halves[i], d)
<1>1. CASE ~Enabled \/ Covering(b.halves, d) = {}
  BY <1>1 DEF AfterAccess
<1>2. CASE Enabled /\ Covering(b.halves, d) # {}
  <2>1. i \in Halves
    BY <1>2, FindHalfCovers
  <2>2. h \in HalfType
    BY <2>1, ConsumeType DEF BufferType
  <2>3. [h EXCEPT !.state = "Serving"] \in HalfType
    BY <2>2 DEF HalfType, States
  <2>4. \A x \in HalfType : [b EXCEPT !.halves[i] = x] \in BufferType
    BY <2>1 DEF BufferType
  <2>5. LaunchFills([b EXCEPT !.halves[i] = EmptyHalf], Hop) \in BufferType
    BY <2>4, EmptyHalfType, LaunchFillsType, ConstantTypes
  <2> HIDE DEF i, h
  <2>6. AfterAccess(b, d) \in {[b EXCEPT !.halves[i] = h],
                               LaunchFills([b EXCEPT !.halves[i] = EmptyHalf], Hop),
                               [b EXCEPT !.halves[i] = [h EXCEPT !.state = "Serving"]]}
    BY <1>2 DEF AfterAccess, i, h
  <2> QED
    BY <2>2, <2>3, <2>4, <2>5, <2>6
<1> QED
  BY <1>1, <1>2, ConstantTypes

AnswerType ==
  [outcome : Outcomes, half : Int, waiting : BOOLEAN, stall : Nat,
   landed : BOOLEAN]

\* access() answers with a half and a latency that are natural numbers.
LEMMA ResultType ==
  ASSUME NEW b \in BufferType, NEW d \in Demands
  PROVE  Result(b, d) \in AnswerType
<1> DEFINE i == FindHalf(b.halves, d)
<1>1. DemandLatency(d) \in Nat
  <2>1. \A x, y \in Nat : x * y \in Nat
    OBVIOUS
  <2> QED
    BY <2>1, LhbConstants, ConstantTypes DEF DemandLatency
<1>2. CASE ~Enabled \/ Covering(b.halves, d) = {}
  BY <1>1, <1>2 DEF Result, Answer, AnswerType, Outcomes
<1>3. CASE Enabled /\ Covering(b.halves, d) # {}
  <2>1. i \in Halves /\ i \in Int
    BY <1>3, FindHalfCovers DEF Halves
  <2>2. b.halves[i] \in HalfType
    BY <2>1 DEF BufferType
  <2>3. HasLanded(b.halves[i]) \in BOOLEAN
    <3>1. (b.halves[i].token \notin fills) \in BOOLEAN
      OBVIOUS
    <3>2. (b.halves[i].done <= Hop) \in BOOLEAN
      BY <2>2, ConstantTypes DEF HalfType
    <3>3. CASE Async
      BY <3>1, <3>3, Zenon DEF HasLanded
    <3>4. CASE ~Async
      BY <3>2, <3>4, Zenon DEF HasLanded
    <3> QED
      BY <3>3, <3>4
  <2>4. Greatest(0, b.halves[i].done - Hop) \in Nat
    BY <2>2, ConstantTypes DEF Greatest, HalfType
  <2>5. /\ Answer("Hit", i, FALSE, 0, HasLanded(b.halves[i])) \in AnswerType
        /\ Answer("MissLate", i, TRUE, 0, FALSE) \in AnswerType
        /\ Answer("MissLate", i, FALSE, Greatest(0, b.halves[i].done - Hop), FALSE)
             \in AnswerType
    BY <2>1, <2>3, <2>4 DEF Answer, AnswerType, Outcomes
  <2> QED
    BY <1>3, <2>5 DEF Result
<1> QED
  BY <1>2, <1>3, ConstantTypes

-----------------------------------------------------------------------------
(* Type correctness.                                                        *)

\* No method but issue_hint() makes the stream queue longer.
LEMMA StreamsShorten ==
  ASSUME NEW b \in BufferType, NEW t \in Nat
  PROVE  /\ Len(LaunchFills(b, t).streams) <= Len(b.streams)
         /\ Len(Ticked(b, t).streams) <= Len(b.streams)
<1>1. ASSUME NEW c \in BufferType
      PROVE  Len(LaunchFills(c, t).streams) <= Len(c.streams)
  <2> DEFINE n == LaunchCount(c)
  <2>1. c.streams \in Seq(ChunkType)
    BY DEF BufferType
  <2>2. n \in 0 .. Len(c.streams) /\ Len(c.streams) \in Nat
    BY <2>1, LaunchCountBounds, LenProperties
  <2>3. \A k \in n + 1 .. Len(c.streams) : c.streams[k] \in ChunkType
    BY <2>1, <2>2, ElementOfSeq
  <2>4. Len(SubSeq(c.streams, n + 1, Len(c.streams))) <= Len(c.streams)
    BY <2>2, <2>3, SubSeqProperties
  <2> QED
    BY <2>4 DEF LaunchFills
<1> DEFINE r == [b EXCEPT !.halves = RetireFills(b.halves, t)]
<1>2. r \in BufferType
  BY RetireFillsType DEF BufferType
<1>3. r.streams = b.streams
  BY DEF BufferType
<1>4. Len(b.streams) \in Nat
  BY LenProperties DEF BufferType
<1>5. Ticked(b, t) = IF Enabled THEN LaunchFills(r, t) ELSE b
  BY DEF Ticked
<1> HIDE DEF r
<1>6. Len(Ticked(b, t).streams) <= Len(b.streams)
  <2>1. CASE Enabled
    BY <1>1, <1>2, <1>3, <1>5, <2>1
  <2>2. CASE ~Enabled
    BY <1>4, <1>5, <2>2
  <2> QED
    BY <2>1, <2>2
<1> QED
  BY <1>1, <1>6

LEMMA AfterAccessStreams ==
  ASSUME NEW b \in BufferType, NEW d \in Demands
  PROVE  Len(AfterAccess(b, d).streams) <= Len(b.streams)
<1> DEFINE i == FindHalf(b.halves, d)
           h == Consume(b.halves[i], d)
<1>1. Len(b.streams) \in Nat
  BY LenProperties DEF BufferType
<1>2. CASE ~Enabled \/ Covering(b.halves, d) = {}
  BY <1>1, <1>2 DEF AfterAccess
<1>3. CASE Enabled /\ Covering(b.halves, d) # {}
  <2>1. i \in Halves
    BY <1>3, FindHalfCovers
  <2>2. \A x : [b EXCEPT !.halves[i] = x].streams = b.streams
    BY DEF BufferType
  <2>3. [b EXCEPT !.halves[i] = EmptyHalf] \in BufferType
    BY <2>1, EmptyHalfType DEF BufferType
  <2>4. Len(LaunchFills([b EXCEPT !.halves[i] = EmptyHalf], Hop).streams)
          <= Len(b.streams)
    <3> DEFINE c == [b EXCEPT !.halves[i] = EmptyHalf]
    <3>1. c \in BufferType /\ c.streams = b.streams
      BY <2>2, <2>3
    <3> HIDE DEF c
    <3>2. Len(LaunchFills(c, Hop).streams) <= Len(b.streams)
      BY <3>1, StreamsShorten, ConstantTypes
    <3> QED
      BY <3>2 DEF c
  <2> HIDE DEF i, h
  <2>5. \/ AfterAccess(b, d) = [b EXCEPT !.halves[i] = h]
        \/ AfterAccess(b, d) = LaunchFills([b EXCEPT !.halves[i] = EmptyHalf], Hop)
        \/ AfterAccess(b, d) = [b EXCEPT !.halves[i] = [h EXCEPT !.state = "Serving"]]
    BY <1>3 DEF AfterAccess, i, h
  <2>6. CASE AfterAccess(b, d) = LaunchFills([b EXCEPT !.halves[i] = EmptyHalf], Hop)
    BY <2>4, <2>6
  <2>7. CASE AfterAccess(b, d).streams = b.streams
    BY <1>1, <2>7
  <2> QED
    BY <2>2, <2>5, <2>6, <2>7
<1> QED
  BY <1>2, <1>3, ConstantTypes

\* A buffer value of the right type makes a next state of the right type.
LEMMA BecomesType ==
  ASSUME TypeOK, NEW b \in BufferType, Len(b.streams) <= Len(streams),
         NEW n \in Nat, NEW s \in Nat, Becomes(b, n, s), last' \in AnswerType
  PROVE  TypeOK'
<1>1. Len(b.streams) \in Nat /\ Len(streams) \in Nat
  BY LenProperties DEF BufferType, TypeOK
<1>2. /\ halves' \in [Halves -> HalfType] /\ streams' \in Seq(ChunkType)
      /\ nextToken' \in Nat \ {0}
  BY DEF Becomes, BufferType
<1>3. fills' \subseteq Nat
  BY DEF Becomes, TypeOK, BufferType
<1>4. counts' \in [hints : Nat, started : Nat, completed : Nat, swaps : Nat]
  <2>1. counts.started + Len(streams) - Len(b.streams) \in Nat
    <3>1. counts.started \in Nat
      BY DEF TypeOK
    <3> QED
      BY <1>1, <3>1
  <2>2. counts.completed + n \in Nat /\ counts.swaps + s \in Nat
    BY DEF TypeOK
  <2> QED
    BY <2>1, <2>2 DEF Becomes, TypeOK
<1> QED
  BY <1>2, <1>3, <1>4 DEF TypeOK, AnswerType

LEMMA LandingType ==
  ASSUME NEW hs, NEW t
  PROVE  Landing(hs, t) \in Nat
<1>1. Cardinality({i \in Halves : LandsBy(hs[i], t)}) \in Nat
  BY HalvesFinite
<1> QED
  BY <1>1 DEF Landing

LEMMA BufferTyped ==
  ASSUME TypeOK
  PROVE  Buffer \in BufferType /\ Buffer.streams = streams
                /\ Buffer.halves = halves /\ Buffer.token = nextToken
BY DEF TypeOK, Buffer, BufferType

LEMMA TypeInit == Init => TypeOK
<1> SUFFICES ASSUME Init PROVE TypeOK
  OBVIOUS
<1>1. halves \in [Halves -> HalfType]
  BY EmptyHalfType DEF Init
<1>2. streams \in Seq(ChunkType)
  BY EmptySeq DEF Init
<1>3. last \in AnswerType
  BY DEF Init, Answer, AnswerType, Outcomes
<1>4. counts \in [hints : Nat, started : Nat, completed : Nat, swaps : Nat]
  BY DEF Init
<1>5. nextToken \in Nat \ {0} /\ fills \subseteq Nat
  BY DEF Init
<1> QED
  BY <1>1, <1>2, <1>3, <1>4, <1>5 DEF TypeOK, AnswerType

LEMMA TypeNext == TypeOK /\ [Next]_vars => TypeOK'
<1> SUFFICES ASSUME TypeOK, [Next]_vars PROVE TypeOK'
  OBVIOUS
<1>1. ASSUME NEW t \in Tensors, IssueHint(t) PROVE TypeOK'
  <2>1. ChunksOf(t) \in Seq(ChunkType)
    BY LhbConstants, ChunksType
  <2>2. streams' \in Seq(ChunkType)
    BY <1>1, <2>1, ConcatProperties DEF IssueHint, TypeOK
  <2>3. counts' \in [hints : Nat, started : Nat, completed : Nat, swaps : Nat]
    BY <1>1 DEF IssueHint, TypeOK
  <2> QED
    BY <1>1, <2>2, <2>3 DEF IssueHint, TypeOK
<1>2. ASSUME Tick PROVE TypeOK'
  <2> DEFINE b == Aged(Buffer)
             c == Ticked(b, 0)
  <2>1. b \in BufferType /\ b.streams = streams
    BY BufferTyped, AgedType DEF Aged, BufferType
  <2>2. c \in BufferType /\ Len(c.streams) <= Len(streams)
    BY <2>1, TickedType, StreamsShorten
  <2>3. Becomes(c, Landing(b.halves, 0), 0) /\ last' \in AnswerType
    BY <1>2 DEF Tick, TypeOK, AnswerType
  <2> HIDE DEF c
  <2> QED
    BY <2>2, <2>3, LandingType, BecomesType
<1>3. ASSUME NEW d \in Demands, Access(d) PROVE TypeOK'
  <2> DEFINE b == Ticked(Buffer, Hop)
             c == AfterAccess(b, d)
             s == IF Drains(b, d) THEN 1 ELSE 0
  <2>1. b \in BufferType /\ Len(b.streams) <= Len(streams)
    BY BufferTyped, TickedType, StreamsShorten, ConstantTypes
  <2>2. c \in BufferType /\ Len(c.streams) <= Len(b.streams)
    BY <2>1, AfterAccessType, AfterAccessStreams
  <2>3. Len(c.streams) <= Len(streams)
    BY <2>1, <2>2, LenProperties DEF BufferType, TypeOK
  <2>4. Becomes(c, Landing(halves, Hop), s) /\ last' = Result(b, d)
    BY <1>3 DEF Access
  <2>5. last' \in AnswerType
    BY <2>1, <2>4, ResultType
  <2>6. s \in Nat
    OBVIOUS
  <2> HIDE DEF b, c, s
  <2> QED
    BY <2>2, <2>3, <2>4, <2>5, <2>6, LandingType, BecomesType
<1>4. ASSUME NEW token \in fills, FillComplete(token) PROVE TypeOK'
  <2> DEFINE mine == {i \in Halves : halves[i].pending /\ halves[i].token = token}
             i == CHOOSE i \in mine : \A j \in mine : i <= j
  <2>1. fills' \subseteq Nat /\ UNCHANGED <<streams, nextToken, last>>
    BY <1>4 DEF FillComplete, TypeOK
  <2>2. CASE mine = {}
    BY <1>4, <2>1, <2>2 DEF FillComplete, TypeOK
  <2>3. CASE mine # {}
    <3>1. i \in Halves
      BY <2>3, FirstHalf
    <3> HIDE DEF i
    <3>2. /\ halves' = [halves EXCEPT ![i].pending = FALSE, ![i].done = 0,
                                      ![i].state = "Ready"]
          /\ counts' = [counts EXCEPT !.completed = @ + 1]
      BY <1>4, <2>3 DEF FillComplete, i
    <3>3. [halves[i] EXCEPT !.pending = FALSE, !.done = 0, !.state = "Ready"]
            \in HalfType
      <4> DEFINE h == halves[i]
      <4>1. h \in HalfType
        BY <3>1 DEF TypeOK
      <4> HIDE DEF h
      <4>2. [h EXCEPT !.pending = FALSE, !.done = 0, !.state = "Ready"] \in HalfType
        BY <4>1 DEF HalfType, States
      <4> QED
        BY <4>2 DEF h
    <3>4. halves' \in [Halves -> HalfType]
      BY <3>1, <3>2, <3>3 DEF TypeOK
    <3>5. counts' \in [hints : Nat, started : Nat, completed : Nat, swaps : Nat]
      BY <3>2 DEF TypeOK
    <3> QED
      BY <2>1, <3>4, <3>5 DEF TypeOK
  <2> QED
    BY <2>2, <2>3
<1>5. CASE UNCHANGED vars
  BY <1>5 DEF vars, TypeOK
<1> QED
  BY <1>1, <1>2, <1>3, <1>4, <1>5 DEF Next

\* The buffer keeps its types whatever the number and size of its halves, the
\* latencies, the tensors and the accesses: no span, charge, time or token of
\* latency_hiding_buffer.cpp, all of them unsigned, ever leaves its range.
THEOREM TypeCorrect == Spec => []TypeOK
BY TypeInit, TypeNext, PTL DEF Spec

-----------------------------------------------------------------------------
(* Asynchronous fills: the halves that wait and the fills in the engine.    *)

Used(hs) == Halves \ IdleHalves(hs)

\* The tokens of the fills that halves wait for.
Awaited(hs) == {hs[i].token : i \in {j \in Halves : hs[j].pending}}

\* A buffer value in which every pending half is filling and the other way
\* round, and every half in use has a token of its own from the past.
Sound(b) ==
  /\ \A i \in Halves : b.halves[i].pending <=> InFlight(b.halves[i])
  /\ \A i, j \in Used(b.halves) : b.halves[i].token = b.halves[j].token => i = j
  /\ \A i \in Used(b.halves) : b.halves[i].token < b.token

\* The inductive invariant.  FillsMatchHalves alone is not inductive: that a
\* refill does not take a token some half still has follows only because
\* tokens of halves in use are all different and all older than nextToken.
AsyncInv ==
  Async => /\ Sound(Buffer)
           /\ fills = Awaited(halves)
           /\ HitIsComplete

\* Two values of the halves that differ in nothing Sound and Awaited look at.
Like(hs, ks) ==
  \A i \in Halves :
    /\ ks[i].pending <=> hs[i].pending
    /\ ks[i].token = hs[i].token
    /\ InFlight(ks[i]) <=> InFlight(hs[i])
    /\ ks[i].state = "Idle" <=> hs[i].state = "Idle"

LEMMA LikeSound ==
  ASSUME NEW b, NEW c, Like(b.halves, c.halves), b.token = c.token, Sound(b)
  PROVE  Sound(c) /\ Awaited(c.halves) = Awaited(b.halves)
<1>1. Used(c.halves) = Used(b.halves)
  BY DEF Like, Used, IdleHalves
<1>2. Used(b.halves) \subseteq Halves
  BY DEF Used
<1>3. Sound(c)
  BY <1>1, <1>2 DEF Sound, Like
<1>4. {j \in Halves : c.halves[j].pending} = {j \in Halves : b.halves[j].pending}
  BY DEF Like
<1>5. Awaited(c.halves) = Awaited(b.halves)
  BY <1>4 DEF Awaited, Like
<1> QED
  BY <1>3, <1>5

\* retire_fills() does not touch what waits for a callback.
LEMMA RetireLike ==
  ASSUME NEW hs \in [Halves -> HalfType], NEW t \in Nat,
         \A i \in Halves : hs[i].pending <=> InFlight(hs[i])
  PROVE  Like(hs, RetireFills(hs, t))
<1> SUFFICES ASSUME NEW i \in Halves
             PROVE  LET k == RetireFills(hs, t)[i]
                    IN  /\ k.pending <=> hs[i].pending
                        /\ k.token = hs[i].token
                        /\ InFlight(k) <=> InFlight(hs[i])
                        /\ k.state = "Idle" <=> hs[i].state = "Idle"
  BY DEF Like
<1>1. hs[i] \in HalfType
  OBVIOUS
<1>2. ~LandsBy(hs[i], t)
  BY DEF LandsBy
<1>3. RetireFills(hs, t)[i] = IF InFlight(hs[i]) /\ hs[i].start < t
                                THEN [hs[i] EXCEPT !.state = "Filling"]
                                ELSE hs[i]
  BY <1>2 DEF RetireFills
<1>4. CASE InFlight(hs[i]) /\ hs[i].start < t
  BY <1>1, <1>3, <1>4 DEF InFlight, HalfType
<1>5. CASE ~(InFlight(hs[i]) /\ hs[i].start < t)
  BY <1>3, <1>5
<1> QED
  BY <1>4, <1>5

\* Time passing does not either.
LEMMA AgedLike ==
  ASSUME NEW b \in BufferType
  PROVE  Like(b.halves, Aged(b).halves) /\ Aged(b).token = b.token
<1>1. ASSUME NEW h \in HalfType, NEW x, NEW y
      PROVE  LET k == [h EXCEPT !.start = x, !.done = y]
             IN  k.pending = h.pending /\ k.token = h.token /\ k.state = h.state
  BY DEF HalfType
<1>2. ASSUME NEW i \in Halves
      PROVE  LET k == Aged(b).halves[i]
                 h == b.halves[i]
             IN  k.pending = h.pending /\ k.token = h.token /\ k.state = h.state
  BY <1>1 DEF Aged, BufferType
<1>3. Aged(b).token = b.token
  BY DEF Aged, BufferType
<1> QED
  BY <1>2, <1>3 DEF Like, InFlight

\* launch_fills() gives each half it fills a token nobody has, and the tokens
\* given out are exactly those between the old and the new m_next_fill_token.
LEMMA LaunchSound ==
  ASSUME Async, NEW b \in BufferType, NEW t \in Nat, Sound(b)
  PROVE  LET c == LaunchFills(b, t)
         IN  /\ Sound(c)
             /\ c.token \in Nat /\ b.token <= c.token
             /\ Awaited(c.halves) = Awaited(b.halves) \cup (b.token .. c.token - 1)
<1> DEFINE n == LaunchCount(b)
           c == LaunchFills(b, t)
           r(i) == Rank(b.halves, i)
           New == {i \in IdleHalves(b.halves) : r(i) <= n}
<1>1. b.token \in Nat /\ b.halves \in [Halves -> HalfType]
  BY DEF BufferType
<1>2. n \in Nat /\ n <= Cardinality(IdleHalves(b.halves))
  BY LaunchCountBounds, LenProperties DEF BufferType
<1>3. c.token = b.token + n
  BY DEF LaunchFills
<1>4. ASSUME NEW i \in New
      PROVE  /\ r(i) \in 1 .. n
             /\ c.halves[i].pending
             /\ InFlight(c.halves[i])
             /\ c.halves[i].state # "Idle"
             /\ c.halves[i].token = b.token + r(i) - 1
  <2>1. i \in Halves /\ r(i) \in 1 .. n
    BY <1>2, RankOfIdle
  <2>2. c.halves[i] = FilledHalf(b.streams[r(i)], b.token + r(i) - 1, t)
    BY <2>1 DEF LaunchFills
  <2> QED
    BY <2>1, <2>2 DEF FilledHalf, InFlight
<1>5. ASSUME NEW i \in Halves, i \notin New
      PROVE  c.halves[i] = b.halves[i]
  BY <1>5 DEF LaunchFills
<1>6. New \subseteq IdleHalves(b.halves) /\ IdleHalves(b.halves) \subseteq Halves
  BY DEF IdleHalves
<1>7. Used(c.halves) = Used(b.halves) \cup New
  BY <1>4, <1>5, <1>6 DEF Used, IdleHalves
<1>8. \A i \in Used(b.halves) : i \notin New /\ i \in Halves
  BY <1>6 DEF Used
<1>9. \A i \in Used(b.halves) : b.halves[i].token \in Nat
  BY <1>1 DEF Used, HalfType
<1> HIDE DEF c, New, n, r
<1>10. \A i \in Halves : c.halves[i].pending <=> InFlight(c.halves[i])
  BY <1>4, <1>5 DEF Sound
<1>11. \A i \in Used(c.halves) : c.halves[i].token < c.token
  <2>1. ASSUME NEW i \in New PROVE c.halves[i].token < c.token
    BY <1>1, <1>2, <1>3, <1>4
  <2>2. ASSUME NEW i \in Used(b.halves) PROVE c.halves[i].token < c.token
    <3>1. c.halves[i].token = b.halves[i].token
      BY <1>5, <1>8
    <3>2. b.halves[i].token < b.token
      BY DEF Sound
    <3> QED
      BY <1>1, <1>2, <1>3, <1>9, <3>1, <3>2
  <2> QED
    BY <1>7, <2>1, <2>2
<1>12. ASSUME NEW i \in Used(c.halves), NEW j \in Used(c.halves),
              c.halves[i].token = c.halves[j].token
       PROVE  i = j
  <2>1. \A k \in Used(b.halves) : c.halves[k].token = b.halves[k].token
                                  /\ c.halves[k].token < b.token
    BY <1>5, <1>8 DEF Sound
  <2>2. \A k \in New : c.halves[k].token >= b.token
    BY <1>1, <1>4
  <2>3. CASE i \in New /\ j \in New
    <3>1. r(i) = r(j)
      BY <1>1, <1>4, <1>12, <2>3
    <3> QED
      BY <1>6, <2>3, <3>1, RankOfIdle DEF r
  <2>4. CASE i \in Used(b.halves) /\ j \in Used(b.halves)
    BY <1>12, <2>1, <2>4 DEF Sound
  <2>5. ~(i \in New /\ j \in Used(b.halves)) /\ ~(j \in New /\ i \in Used(b.halves))
    BY <1>1, <1>9, <1>12, <2>1, <2>2
  <2> QED
    BY <1>7, <2>3, <2>4, <2>5
<1>13. Sound(c)
  BY <1>10, <1>11, <1>12 DEF Sound
<1>14. ASSUME NEW x \in b.token .. c.token - 1
       PROVE  \E i \in New : c.halves[i].token = x
  <2>1. x - b.token + 1 \in 1 .. Cardinality(IdleHalves(b.halves))
    BY <1>1, <1>2, <1>3, RankOfIdle
  <2>2. PICK i \in IdleHalves(b.halves) : r(i) = x - b.token + 1
    BY <2>1, RankOfIdle DEF r
  <2>3. i \in New
    BY <1>1, <1>2, <1>3, <2>2 DEF New
  <2> QED
    BY <1>1, <1>4, <2>2, <2>3
<1>15. \A i \in Halves : b.halves[i].pending => i \notin New /\ i \in Used(b.halves)
  BY <1>8 DEF Sound, Used, IdleHalves, InFlight
<1>16. Awaited(c.halves) = Awaited(b.halves) \cup (b.token .. c.token - 1)
  <2>1. ASSUME NEW i \in Halves, c.halves[i].pending
        PROVE  c.halves[i].token \in Awaited(b.halves) \cup (b.token .. c.token - 1)
    <3>1. CASE i \in New
      BY <1>1, <1>2, <1>3, <1>4, <3>1
    <3>2. CASE i \notin New
      BY <1>5, <2>1, <3>2 DEF Awaited
    <3> QED
      BY <3>1, <3>2
  <2>2. ASSUME NEW i \in Halves, b.halves[i].pending
        PROVE  b.halves[i].token \in Awaited(c.halves)
    BY <1>5, <1>15, <2>2 DEF Awaited
  <2>3. ASSUME NEW x \in b.token .. c.token - 1
        PROVE  x \in Awaited(c.halves)
    BY <1>4, <1>6, <1>14 DEF Awaited
  <2> QED
    BY <2>1, <2>2, <2>3 DEF Awaited
<1>17. c.token \in Nat /\ b.token <= c.token
  BY <1>1, <1>2, <1>3
<1> QED
  BY <1>13, <1>16, <1>17 DEF c

\* What a method that may launch fills does to the tokens, from buffer value b
\* to c: the fills awaited grow by exactly the tokens given out.
Grows(b, c) ==
  /\ Sound(c)
  /\ c.token \in Nat /\ b.token <= c.token
  /\ Awaited(c.halves) = Awaited(b.halves) \cup (b.token .. c.token - 1)

LEMMA TickedGrows ==
  ASSUME Async, NEW b \in BufferType, NEW t \in Nat, Sound(b)
  PROVE  Grows(b, Ticked(b, t))
<1> DEFINE r == [b EXCEPT !.halves = RetireFills(b.halves, t)]
<1>1. r \in BufferType /\ r.halves = RetireFills(b.halves, t) /\ r.token = b.token
  BY RetireFillsType DEF BufferType
<1>2. Like(b.halves, r.halves)
  BY <1>1, RetireLike DEF BufferType, Sound
<1>3. Sound(r) /\ Awaited(r.halves) = Awaited(b.halves)
  BY <1>1, <1>2, LikeSound
<1>4. Ticked(b, t) = IF Enabled THEN LaunchFills(r, t) ELSE b
  BY DEF Ticked
<1> HIDE DEF r
<1>5. CASE Enabled
  BY <1>1, <1>3, <1>4, <1>5, LaunchSound DEF Grows
<1>6. CASE ~Enabled
  <2>1. b.token \in Nat /\ b.token .. b.token - 1 = {}
    BY DEF BufferType
  <2> QED
    BY <1>4, <1>6, <2>1 DEF Grows
<1> QED
  BY <1>5, <1>6

\* access() charges a pending half without touching its state, serves one that
\* has landed, and releases one only after it has landed.
LEMMA AfterAccessGrows ==
  ASSUME Async, NEW b \in BufferType, NEW d \in Demands, Sound(b)
  PROVE  Grows(b, AfterAccess(b, d))
<1> DEFINE i == FindHalf(b.halves, d)
           h == Consume(b.halves[i], d)
           c == AfterAccess(b, d)
<1>1. b.token \in Nat /\ b.token .. b.token - 1 = {}
  BY DEF BufferType
<1>2. ASSUME NEW e \in BufferType, Like(b.halves, e.halves), e.token = b.token
      PROVE  Grows(b, e)
  BY <1>1, <1>2, LikeSound DEF Grows
<1>3. CASE ~Enabled \/ Covering(b.halves, d) = {}
  <2>1. c = b
    BY <1>3 DEF AfterAccess
  <2> QED
    BY <1>1, <2>1 DEF Grows
<1>4. CASE Enabled /\ Covering(b.halves, d) # {}
  <2>1. i \in Halves /\ b.halves[i].state # "Idle"
    BY <1>4, FindHalfCovers DEF Covering
  <2>2. b.halves[i] \in HalfType
    BY <2>1 DEF BufferType
  <2>3. /\ h \in HalfType
        /\ h.state = b.halves[i].state /\ h.token = b.halves[i].token
        /\ h.pending = b.halves[i].pending
    BY <2>2, ConsumeType DEF Consume, HalfType
  <2>4. b.halves[i].pending <=> InFlight(b.halves[i])
    BY <2>1 DEF Sound
  <2>5. /\ c \in BufferType
        /\ c = IF InFlight(h) /\ h.pending THEN [b EXCEPT !.halves[i] = h]
               ELSE IF h.consumed >= h.stored
                 THEN LaunchFills([b EXCEPT !.halves[i] = EmptyHalf], Hop)
               ELSE [b EXCEPT !.halves[i] = [h EXCEPT !.state = "Serving"]]
    BY <1>4, AfterAccessType DEF AfterAccess
  <2>6. /\ b.halves \in [Halves -> HalfType]
        /\ \A x : /\ [b EXCEPT !.halves[i] = x].halves = [b.halves EXCEPT ![i] = x]
                  /\ [b EXCEPT !.halves[i] = x].token = b.token
    BY DEF BufferType
  <2> HIDE DEF i, h, c
  <2>7. CASE InFlight(h) /\ h.pending
    <3>1. Like(b.halves, [b.halves EXCEPT ![i] = h])
      BY <2>1, <2>3, <2>6 DEF Like, InFlight
    <3> QED
      BY <1>2, <2>5, <2>6, <2>7, <3>1 DEF c
  <2>8. CASE ~(InFlight(h) /\ h.pending) /\ ~(h.consumed >= h.stored)
    <3> DEFINE served == [h EXCEPT !.state = "Serving"]
    <3>1. /\ served.state = "Serving" /\ served.token = b.halves[i].token
          /\ served.pending = b.halves[i].pending
      BY <2>3 DEF HalfType
    <3>2. ~InFlight(b.halves[i]) /\ ~InFlight(served)
      BY <2>3, <2>4, <2>8, <3>1 DEF InFlight
    <3> HIDE DEF served
    <3>3. Like(b.halves, [b.halves EXCEPT ![i] = served])
      BY <2>1, <2>6, <3>1, <3>2 DEF Like
    <3> QED
      BY <1>2, <2>5, <2>6, <2>8, <3>3 DEF c, served
  <2>9. CASE ~(InFlight(h) /\ h.pending) /\ h.consumed >= h.stored
    <3> DEFINE e == [b EXCEPT !.halves[i] = EmptyHalf]
    <3>1. e \in BufferType
      BY <2>1, EmptyHalfType DEF BufferType
    <3>2. e.halves = [b.halves EXCEPT ![i] = EmptyHalf] /\ e.token = b.token
      BY <2>6
    <3>3. c = LaunchFills(e, Hop)
      BY <2>5, <2>9
    <3>4. ~b.halves[i].pending
      BY <2>3, <2>4, <2>9 DEF InFlight
    <3>5. ~EmptyHalf.pending /\ EmptyHalf.state = "Idle"
      BY DEF EmptyHalf
    <3> HIDE DEF e
    <3>6. \A j \in Halves : j # i => e.halves[j] = b.halves[j]
      BY <2>6, <3>2
    <3>7. e.halves[i] = EmptyHalf
      BY <2>1, <2>6, <3>2
    <3>8. Used(e.halves) = Used(b.halves) \ {i}
      BY <2>1, <3>5, <3>6, <3>7 DEF Used, IdleHalves
    <3>9. Sound(e)
      <4>1. ASSUME NEW j \in Halves
            PROVE  e.halves[j].pending <=> InFlight(e.halves[j])
        BY <3>5, <3>6, <3>7 DEF Sound, InFlight
      <4>2. \A j \in Used(e.halves) : j \in Used(b.halves)
                                      /\ e.halves[j] = b.halves[j]
        BY <3>6, <3>8 DEF Used
      <4> QED
        BY <3>2, <4>1, <4>2 DEF Sound
    <3>10. Awaited(e.halves) = Awaited(b.halves)
      <4>1. {j \in Halves : e.halves[j].pending} = {j \in Halves : b.halves[j].pending}
        BY <3>4, <3>5, <3>6, <3>7
      <4>2. \A j \in Halves : b.halves[j].pending => e.halves[j] = b.halves[j]
        BY <3>4, <3>6
      <4> QED
        BY <4>1, <4>2 DEF Awaited
    <3> QED
      BY <3>1, <3>2, <3>3, <3>9, <3>10, LaunchSound, ConstantTypes DEF Grows, c
  <2> QED
    BY <2>7, <2>8, <2>9
<1> QED
  BY <1>3, <1>4, ConstantTypes

\* The part of AsyncInv that is not about answers.
TokensMatch == Sound(Buffer) /\ fills = Awaited(halves)

LEMMA BecomesMatches ==
  ASSUME NEW b, NEW n, NEW s, Becomes(b, n, s), Sound(b),
         nextToken \in Nat, b.token \in Nat, nextToken <= b.token,
         Awaited(b.halves) = fills \cup (nextToken .. b.token - 1)
  PROVE  TokensMatch'
<1>1. /\ halves' = b.halves /\ nextToken' = b.token
      /\ fills' = fills \cup (nextToken .. b.token - 1)
  BY DEF Becomes
<1>2. Buffer'.halves = b.halves /\ Buffer'.token = b.token
  BY <1>1 DEF Buffer
<1>3. Sound(Buffer')
  BY <1>2 DEF Sound
<1>4. fills' = Awaited(halves')
  BY <1>1
<1> QED
  BY <1>3, <1>4 DEF TokensMatch

\* In a sound buffer whose fills are awaited, a half that is not filling has no
\* fill in the engine.
LEMMA LandedHalf ==
  ASSUME NEW b, Sound(b), fills \subseteq Awaited(b.halves),
         NEW i \in Used(b.halves), ~InFlight(b.halves[i])
  PROVE  b.halves[i].token \notin fills
<1> SUFFICES ASSUME b.halves[i].token \in fills PROVE FALSE
  OBVIOUS
<1>1. PICK j \in Halves : b.halves[j].pending
                          /\ b.halves[j].token = b.halves[i].token
  BY DEF Awaited
<1>2. InFlight(b.halves[j])
  BY <1>1 DEF Sound
<1>3. j \in Used(b.halves)
  BY <1>2 DEF Used, IdleHalves, InFlight
<1> QED
  BY <1>1, <1>2, <1>3 DEF Sound

LEMMA AsyncInit == Init => AsyncInv
<1> SUFFICES ASSUME Init PROVE AsyncInv
  OBVIOUS
<1>1. /\ Buffer.token = 1 /\ Buffer.halves = halves
      /\ \A i \in Halves : ~halves[i].pending /\ halves[i].state = "Idle"
  BY DEF Init, Buffer, EmptyHalf
<1>2. Sound(Buffer)
  BY <1>1 DEF Sound, Used, IdleHalves, InFlight
<1>3. fills = Awaited(halves)
  BY <1>1 DEF Awaited, Init
<1>4. HitIsComplete
  BY DEF Init, HitIsComplete, Answer
<1> QED
  BY <1>2, <1>3, <1>4 DEF AsyncInv

LEMMA AsyncNext == TypeOK /\ AsyncInv /\ [Next]_vars => AsyncInv'
<1> SUFFICES ASSUME TypeOK, AsyncInv, [Next]_vars, Async
             PROVE  TokensMatch' /\ HitIsComplete'
  BY DEF AsyncInv, TokensMatch
<1>1. Sound(Buffer) /\ fills = Awaited(halves) /\ HitIsComplete
  BY DEF AsyncInv
<1>2. /\ Buffer \in BufferType /\ Buffer.halves = halves
      /\ Buffer.token = nextToken /\ nextToken \in Nat
  BY BufferTyped DEF TypeOK
<1>3. ASSUME UNCHANGED <<halves, nextToken, fills>> PROVE TokensMatch'
  BY <1>1, <1>3 DEF TokensMatch, Sound, Buffer
<1>4. ASSUME UNCHANGED last PROVE HitIsComplete'
  BY <1>1, <1>4 DEF HitIsComplete
<1>5. ASSUME NEW t \in Tensors, IssueHint(t) PROVE TokensMatch' /\ HitIsComplete'
  BY <1>3, <1>4, <1>5 DEF IssueHint
<1>6. ASSUME Tick PROVE TokensMatch' /\ HitIsComplete'
  <2> DEFINE b == Aged(Buffer)
             c == Ticked(b, 0)
  <2>1. b \in BufferType /\ b.token = nextToken /\ Like(halves, b.halves)
    BY <1>2, AgedType, AgedLike
  <2>2. Sound(b) /\ Awaited(b.halves) = fills
    BY <1>1, <1>2, <2>1, LikeSound
  <2>3. Grows(b, c)
    BY <2>1, <2>2, TickedGrows
  <2>4. Becomes(c, Landing(b.halves, 0), 0) /\ UNCHANGED last
    BY <1>6 DEF Tick
  <2> HIDE DEF b, c
  <2> QED
    BY <1>2, <1>4, <2>1, <2>2, <2>3, <2>4, BecomesMatches DEF Grows
<1>7. ASSUME NEW d \in Demands, Access(d) PROVE TokensMatch' /\ HitIsComplete'
  <2> DEFINE b == Ticked(Buffer, Hop)
             c == AfterAccess(b, d)
             s == IF Drains(b, d) THEN 1 ELSE 0
             i == FindHalf(b.halves, d)
  <2>1. b \in BufferType /\ Grows(Buffer, b)
    BY <1>1, <1>2, TickedType, TickedGrows, ConstantTypes
  <2>2. Grows(b, c)
    BY <2>1, AfterAccessGrows DEF Grows
  <2>3. Becomes(c, Landing(halves, Hop), s) /\ last' = Result(b, d)
    BY <1>7 DEF Access
  <2>4. TokensMatch'
    <3> HIDE DEF b, c, s
    <3>1. Sound(c) /\ c.token \in Nat /\ nextToken <= c.token
      BY <1>2, <2>1, <2>2 DEF Grows
    <3>2. Awaited(c.halves) = fills \cup (nextToken .. c.token - 1)
      <4>1. /\ b.token \in Nat /\ nextToken <= b.token /\ b.token <= c.token
            /\ Awaited(b.halves) = fills \cup (nextToken .. b.token - 1)
            /\ Awaited(c.halves) = Awaited(b.halves) \cup (b.token .. c.token - 1)
        BY <1>1, <1>2, <2>1, <2>2 DEF Grows
      <4>2. nextToken .. c.token - 1
              = (nextToken .. b.token - 1) \cup (b.token .. c.token - 1)
        BY <1>2, <3>1, <4>1
      <4> QED
        BY <4>1, <4>2
    <3> QED
      BY <1>2, <2>3, <3>1, <3>2, BecomesMatches
  <2>5. HitIsComplete'
    <3> SUFFICES ASSUME Result(b, d).outcome = "Hit" PROVE Result(b, d).landed
      BY <2>3 DEF HitIsComplete
    <3>1. Enabled /\ Covering(b.halves, d) # {} /\ ~InFlight(b.halves[i])
      BY DEF Result, Answer
    <3>2. i \in Used(b.halves)
      BY <3>1, FindHalfCovers DEF Used, IdleHalves, Covering
    <3>3. Sound(b) /\ fills \subseteq Awaited(b.halves)
      BY <1>1, <1>2, <2>1 DEF Grows
    <3>4. HasLanded(b.halves[i])
      BY <3>1, <3>2, <3>3, LandedHalf DEF HasLanded
    <3> QED
      BY <3>1, <3>4 DEF Result, Answer
  <2> QED
    BY <2>4, <2>5
<1>8. ASSUME NEW token \in fills, FillComplete(token)
      PROVE  TokensMatch' /\ HitIsComplete'
  <2> DEFINE mine == {j \in Halves : halves[j].pending /\ halves[j].token = token}
             i == CHOOSE i \in mine : \A j \in mine : i <= j
  <2>1. mine # {}
    BY <1>1 DEF Awaited
  <2>2. i \in Halves /\ halves[i].pending /\ halves[i].token = token
    BY <2>1, FirstHalf
  <2>3. /\ fills' = fills \ {token} /\ UNCHANGED <<nextToken, last>>
        /\ halves' = [halves EXCEPT ![i].pending = FALSE, ![i].done = 0,
                                    ![i].state = "Ready"]
    BY <1>8, <2>1 DEF FillComplete
  <2> HIDE DEF i, mine
  <2>4. /\ ~halves'[i].pending /\ halves'[i].token = token
        /\ halves'[i].state = "Ready"
        /\ \A j \in Halves : j # i => halves'[j] = halves[j]
    BY <2>2, <2>3 DEF TypeOK, HalfType
  <2>5. \A j \in Halves : halves[j].pending <=> InFlight(halves[j])
    BY <1>1, <1>2 DEF Sound
  <2>6. i \in Used(halves) /\ Used(halves') = Used(halves)
    BY <2>2, <2>4, <2>5 DEF Used, IdleHalves, InFlight
  <2>7. \A j \in Used(halves) : j \in Halves /\ halves'[j].token = halves[j].token
    BY <2>2, <2>4 DEF Used
  <2>8. Sound(Buffer')
    <3>1. Buffer'.halves = halves' /\ Buffer'.token = nextToken
      BY <2>3 DEF Buffer
    <3>2. \A j \in Halves : halves'[j].pending <=> InFlight(halves'[j])
      BY <2>4, <2>5 DEF InFlight
    <3>3. /\ \A j, k \in Used(halves) : halves[j].token = halves[k].token => j = k
          /\ \A j \in Used(halves) : halves[j].token < nextToken
      BY <1>1, <1>2 DEF Sound
    <3> QED
      BY <2>6, <2>7, <3>1, <3>2, <3>3 DEF Sound
  <2>9. fills' = Awaited(halves')
    <3>1. ASSUME NEW j \in Halves, halves'[j].pending
          PROVE  halves'[j].token \in fills \ {token}
      <4>1. j # i /\ halves'[j] = halves[j]
        BY <2>4, <3>1
      <4>2. halves[j].token \in fills
        BY <1>1, <3>1, <4>1 DEF Awaited
      <4>3. j \in Used(halves)
        BY <2>5, <3>1, <4>1 DEF Used, IdleHalves, InFlight
      <4>4. halves[j].token # token
        BY <1>1, <1>2, <2>2, <2>6, <4>1, <4>3 DEF Sound
      <4> QED
        BY <4>1, <4>2, <4>4
    <3>2. ASSUME NEW x \in fills \ {token} PROVE x \in Awaited(halves')
      <4>1. PICK j \in Halves : halves[j].pending /\ halves[j].token = x
        BY <1>1 DEF Awaited
      <4>2. halves'[j] = halves[j]
        BY <2>2, <2>4, <4>1
      <4> QED
        BY <4>1, <4>2 DEF Awaited
    <3> QED
      BY <2>3, <3>1, <3>2 DEF Awaited
  <2> QED
    BY <1>4, <2>3, <2>8, <2>9 DEF TokensMatch
<1>9. CASE UNCHANGED vars
  BY <1>3, <1>4, <1>9 DEF vars
<1> QED
  BY <1>5, <1>6, <1>7, <1>8, <1>9 DEF Next

LEMMA AsyncInvariant == Spec => []AsyncInv
<1>1. TypeOK /\ AsyncInv /\ [Next]_vars => (TypeOK /\ AsyncInv)'
  BY TypeNext, AsyncNext
<1>2. Init => TypeOK /\ AsyncInv
  BY TypeInit, AsyncInit
<1> QED
  BY <1>1, <1>2, PTL DEF Spec

\* With an asynchronous fill engine the fills in the engine are exactly those
\* halves wait for, one half each: the token lookup of on_fill_complete() never
\* misses and never finds the wrong half, and no half waits in vain.
THEOREM FillsAlwaysMatch == Spec => [](Async => FillsMatchHalves)
<1>1. AsyncInv => (Async => FillsMatchHalves)
  <2> SUFFICES ASSUME AsyncInv, Async PROVE FillsMatchHalves
    OBVIOUS
  <2>1. Sound(Buffer) /\ fills = Awaited(halves) /\ Buffer.halves = halves
    BY DEF AsyncInv, Buffer
  <2>2. \A i \in PendingHalves : i \in Used(halves)
    BY <2>1 DEF PendingHalves, Sound, Used, IdleHalves, InFlight
  <2> QED
    BY <2>1, <2>2 DEF FillsMatchHalves, PendingHalves, Awaited, Sound
<1> QED
  BY <1>1, AsyncInvariant, PTL

\* With an asynchronous fill engine a half is in a filling state exactly while
\* its callback is outstanding, whatever accesses did to it meanwhile.
THEOREM PendingAlwaysInFlight == Spec => [](Async => PendingIsInFlight)
<1>1. AsyncInv => (Async => PendingIsInFlight)
  BY DEF AsyncInv, Buffer, Sound, PendingIsInFlight
<1> QED
  BY <1>1, AsyncInvariant, PTL

\* With an asynchronous fill engine access() never answers Hit from a half
\* whose fill the engine has not completed.
THEOREM HitsAreComplete == Spec => [](Async => HitIsComplete)
<1>1. AsyncInv => (Async => HitIsComplete)
  BY DEF AsyncInv
<1> QED
  BY <1>1, AsyncInvariant, PTL

-----------------------------------------------------------------------------
(* The cap on outstanding fills.                                            *)

Flying(hs) == {i \in Halves : InFlight(hs[i])}

\* What outstanding_fills() counts, in every mode.
WithinCap(hs) == Outstanding(hs) <= MaxOutstanding

LEMMA FewerFlying ==
  ASSUME NEW hs, NEW ks, Flying(ks) \subseteq Flying(hs), WithinCap(hs)
  PROVE  WithinCap(ks)
<1>1. /\ Flying(hs) \in SUBSET Halves /\ Flying(ks) \in SUBSET Halves
      /\ Outstanding(hs) = Cardinality(Flying(hs))
      /\ Outstanding(ks) = Cardinality(Flying(ks))
  BY DEF Flying, Outstanding
<1>2. /\ IsFiniteSet(Flying(hs))
      /\ Cardinality(Flying(hs)) \in Nat /\ Cardinality(Flying(ks)) \in Nat
  BY <1>1, HalvesFinite
<1>3. Cardinality(Flying(ks)) <= Cardinality(Flying(hs))
  BY <1>2, FS_Subset
<1> QED
  BY <1>1, <1>2, <1>3, ConstantTypes DEF WithinCap

\* One call of launch_fills() fills at most LaunchCount halves, and that count
\* was cut to what the cap leaves.
LEMMA LaunchWithinCap ==
  ASSUME NEW b \in BufferType, NEW t \in Nat, WithinCap(b.halves)
  PROVE  WithinCap(LaunchFills(b, t).halves)
<1> DEFINE n == LaunchCount(b)
           ks == LaunchFills(b, t).halves
           New == {i \in IdleHalves(b.halves) : Rank(b.halves, i) <= n}
           f == [i \in New |-> Rank(b.halves, i)]
<1>1. n \in Nat /\ n + Outstanding(b.halves) <= MaxOutstanding
  BY LaunchCountBounds, LenProperties DEF BufferType, WithinCap
<1>2. New \subseteq IdleHalves(b.halves) /\ IdleHalves(b.halves) \subseteq Halves
  BY DEF IdleHalves
<1>3. f \in Injection(New, 1 .. n)
  <2>1. \A i \in New : Rank(b.halves, i) \in 1 .. n
    BY <1>1, RankOfIdle
  <2>2. \A i, j \in New : Rank(b.halves, i) = Rank(b.halves, j) => i = j
    BY RankOfIdle
  <2> QED
    BY <2>1, <2>2 DEF Injection, IsInjective
<1>4. IsFiniteSet(1 .. n) /\ Cardinality(1 .. n) = n
  BY <1>1, FS_Interval
<1>5. IsFiniteSet(New) /\ Cardinality(New) <= n
  BY <1>3, <1>4, FS_Injection
<1>6. ASSUME NEW i \in Halves, i \notin New PROVE ks[i] = b.halves[i]
  BY <1>6 DEF LaunchFills
<1> HIDE DEF n, ks, New, f
<1>7. Flying(ks) \subseteq Flying(b.halves) \cup New
  BY <1>6 DEF Flying
<1>8. IsFiniteSet(Flying(b.halves)) /\ Cardinality(Flying(b.halves)) \in Nat
  BY HalvesFinite DEF Flying
<1>9. /\ IsFiniteSet(Flying(b.halves) \cup New)
      /\ Cardinality(Flying(b.halves) \cup New)
           = Cardinality(Flying(b.halves)) + Cardinality(New)
               - Cardinality(Flying(b.halves) \cap New)
  BY <1>5, <1>8, FS_Union
<1>10. /\ Cardinality(New) \in Nat
       /\ Cardinality(Flying(b.halves) \cap New) \in Nat
       /\ Cardinality(Flying(ks)) \in Nat
  BY <1>2, HalvesFinite DEF Flying
<1>11. Cardinality(Flying(ks)) <= Cardinality(Flying(b.halves) \cup New)
  BY <1>7, <1>9, FS_Subset
<1>12. /\ Outstanding(b.halves) = Cardinality(Flying(b.halves))
       /\ Outstanding(ks) = Cardinality(Flying(ks))
  BY DEF Outstanding, Flying
<1> QED
  BY <1>1, <1>5, <1>8, <1>9, <1>10, <1>11, <1>12, ConstantTypes DEF WithinCap, ks

LEMMA TickedWithinCap ==
  ASSUME NEW b \in BufferType, NEW t \in Nat, WithinCap(b.halves)
  PROVE  WithinCap(Ticked(b, t).halves)
<1> DEFINE r == [b EXCEPT !.halves = RetireFills(b.halves, t)]
<1>1. r \in BufferType /\ r.halves = RetireFills(b.halves, t)
  BY RetireFillsType DEF BufferType
<1>2. Flying(r.halves) \subseteq Flying(b.halves)
  <2>1. ASSUME NEW i \in Halves, ~InFlight(b.halves[i])
        PROVE  RetireFills(b.halves, t)[i] = b.halves[i]
    BY <2>1 DEF RetireFills, LandsBy
  <2> QED
    BY <1>1, <2>1 DEF Flying
<1>3. WithinCap(r.halves)
  BY <1>2, FewerFlying
<1>4. Ticked(b, t) = IF Enabled THEN LaunchFills(r, t) ELSE b
  BY DEF Ticked
<1> HIDE DEF r
<1>5. CASE Enabled
  BY <1>1, <1>3, <1>4, <1>5, LaunchWithinCap
<1>6. CASE ~Enabled
  BY <1>4, <1>6
<1> QED
  BY <1>5, <1>6

LEMMA AfterAccessWithinCap ==
  ASSUME NEW b \in BufferType, NEW d \in Demands, WithinCap(b.halves)
  PROVE  WithinCap(AfterAccess(b, d).halves)
<1> DEFINE i == FindHalf(b.halves, d)
           h == Consume(b.halves[i], d)
           c == AfterAccess(b, d)
<1>1. CASE ~Enabled \/ Covering(b.halves, d) = {}
  BY <1>1 DEF AfterAccess
<1>2. CASE Enabled /\ Covering(b.halves, d) # {}
  <2>1. i \in Halves
    BY <1>2, FindHalfCovers
  <2>2. h.state = b.halves[i].state
    BY <2>1, ConsumeType DEF Consume, BufferType, HalfType
  <2>3. [h EXCEPT !.state = "Serving"].state = "Serving"
    BY <2>1, ConsumeType DEF BufferType, HalfType
  <2>4. \A x : [b EXCEPT !.halves[i] = x].halves = [b.halves EXCEPT ![i] = x]
    BY DEF BufferType
  <2>5. ASSUME NEW x, InFlight(x) => InFlight(b.halves[i])
        PROVE  WithinCap([b EXCEPT !.halves[i] = x].halves)
    <3>1. Flying([b.halves EXCEPT ![i] = x]) \subseteq Flying(b.halves)
      BY <2>1, <2>5 DEF Flying, BufferType
    <3> QED
      BY <2>4, <3>1, FewerFlying
  <2>6. [b EXCEPT !.halves[i] = EmptyHalf] \in BufferType
    BY <2>1, EmptyHalfType DEF BufferType
  <2>7. \/ c = [b EXCEPT !.halves[i] = h]
        \/ c = LaunchFills([b EXCEPT !.halves[i] = EmptyHalf], Hop)
        \/ c = [b EXCEPT !.halves[i] = [h EXCEPT !.state = "Serving"]]
    BY <1>2 DEF AfterAccess
  <2> HIDE DEF i, h, c
  <2>8. CASE c = [b EXCEPT !.halves[i] = h]
    BY <2>2, <2>5, <2>8 DEF InFlight, c
  <2>9. CASE c = LaunchFills([b EXCEPT !.halves[i] = EmptyHalf], Hop)
    <3> DEFINE e == [b EXCEPT !.halves[i] = EmptyHalf]
    <3>1. WithinCap(e.halves)
      BY <2>5 DEF InFlight, EmptyHalf
    <3>2. e \in BufferType /\ c = LaunchFills(e, Hop)
      BY <2>6, <2>9
    <3> HIDE DEF e
    <3> QED
      BY <3>1, <3>2, LaunchWithinCap, ConstantTypes DEF c
  <2>10. CASE c = [b EXCEPT !.halves[i] = [h EXCEPT !.state = "Serving"]]
    BY <2>3, <2>5, <2>10 DEF InFlight, c
  <2> QED
    BY <2>7, <2>8, <2>9, <2>10
<1> QED
  BY <1>1, <1>2, ConstantTypes

LEMMA CapInit == Init => WithinCap(halves)
<1> SUFFICES ASSUME Init PROVE WithinCap(halves)
  OBVIOUS
<1>1. {i \in Halves : InFlight(halves[i])} = {}
  BY DEF Init, InFlight, EmptyHalf
<1>2. Outstanding(halves) = 0
  BY <1>1, FS_EmptySet DEF Outstanding
<1> QED
  BY <1>2, ConstantTypes DEF WithinCap

LEMMA CapNext ==
  TypeOK /\ WithinCap(halves) /\ [Next]_vars => WithinCap(halves)'
<1> SUFFICES ASSUME TypeOK, WithinCap(halves), [Next]_vars
             PROVE  WithinCap(halves')
  BY DEF WithinCap, Outstanding
<1>1. Buffer \in BufferType /\ Buffer.halves = halves
  BY BufferTyped
<1>2. ASSUME UNCHANGED halves PROVE WithinCap(halves')
  BY <1>2
<1>3. ASSUME NEW t \in Tensors, IssueHint(t) PROVE WithinCap(halves')
  BY <1>2, <1>3 DEF IssueHint
<1>4. ASSUME Tick PROVE WithinCap(halves')
  <2> DEFINE b == Aged(Buffer)
  <2>1. b \in BufferType /\ Like(halves, b.halves)
    BY <1>1, AgedType, AgedLike
  <2>2. WithinCap(b.halves)
    BY <2>1, FewerFlying DEF Flying, Like
  <2>3. halves' = Ticked(b, 0).halves
    BY <1>4 DEF Tick, Becomes
  <2> HIDE DEF b
  <2> QED
    BY <2>1, <2>2, <2>3, TickedWithinCap
<1>5. ASSUME NEW d \in Demands, Access(d) PROVE WithinCap(halves')
  <2> DEFINE b == Ticked(Buffer, Hop)
  <2>1. b \in BufferType /\ WithinCap(b.halves)
    BY <1>1, TickedType, TickedWithinCap, ConstantTypes
  <2>2. halves' = AfterAccess(b, d).halves
    BY <1>5 DEF Access, Becomes
  <2> HIDE DEF b
  <2> QED
    BY <2>1, <2>2, AfterAccessWithinCap
<1>6. ASSUME NEW token \in fills, FillComplete(token) PROVE WithinCap(halves')
  <2> DEFINE mine == {j \in Halves : halves[j].pending /\ halves[j].token = token}
             i == CHOOSE i \in mine : \A j \in mine : i <= j
  <2>1. CASE mine = {}
    BY <1>2, <1>6, <2>1 DEF FillComplete
  <2>2. CASE mine # {}
    <3>1. i \in Halves
      BY <2>2, FirstHalf
    <3>2. halves' = [halves EXCEPT ![i].pending = FALSE, ![i].done = 0,
                                   ![i].state = "Ready"]
      BY <1>6, <2>2 DEF FillComplete
    <3> HIDE DEF i
    <3>3. halves'[i].state = "Ready"
      BY <3>1, <3>2 DEF TypeOK, HalfType
    <3>4. \A j \in Halves : j # i => halves'[j] = halves[j]
      BY <3>1, <3>2 DEF TypeOK
    <3>5. Flying(halves') \subseteq Flying(halves)
      BY <3>3, <3>4 DEF Flying, InFlight
    <3> QED
      BY <3>5, FewerFlying
  <2> QED
    BY <2>1, <2>2
<1>7. CASE UNCHANGED vars
  BY <1>2, <1>7 DEF vars
<1> QED
  BY <1>3, <1>4, <1>5, <1>6, <1>7 DEF Next

LEMMA CapInvariant == Spec => []WithinCap(halves)
<1>1. TypeOK /\ WithinCap(halves) /\ [Next]_vars => (TypeOK /\ WithinCap(halves))'
  BY TypeNext, CapNext
<1>2. Init => TypeOK /\ WithinCap(halves)
  BY TypeInit, CapInit
<1> QED
  BY <1>1, <1>2, PTL DEF Spec

\* With an asynchronous fill engine the engine never holds more than
\* max_outstanding_fills fills: what outstanding_fills() counts by state is
\* what is in flight.  On the closed-form path only WithinCap holds.
THEOREM EngineStaysWithinCap == Spec => [](Async => EngineWithinCap)
<1>1. AsyncInv /\ WithinCap(halves) => (Async => EngineWithinCap)
  <2> SUFFICES ASSUME AsyncInv, WithinCap(halves), Async PROVE EngineWithinCap
    OBVIOUS
  <2> DEFINE f == [i \in Flying(halves) |-> halves[i].token]
  <2>1. Sound(Buffer) /\ fills = Awaited(halves) /\ Buffer.halves = halves
    BY DEF AsyncInv, Buffer
  <2>2. {j \in Halves : halves[j].pending} = Flying(halves)
    BY <2>1 DEF Sound, Flying
  <2>3. fills = {halves[i].token : i \in Flying(halves)}
    BY <2>1, <2>2 DEF Awaited
  <2>4. f \in Surjection(Flying(halves), fills)
    BY <2>3 DEF Surjection
  <2>5. IsFiniteSet(Flying(halves)) /\ Cardinality(Flying(halves)) \in Nat
    BY HalvesFinite DEF Flying
  <2>6. IsFiniteSet(fills) /\ Cardinality(fills) <= Cardinality(Flying(halves))
    BY <2>4, <2>5, FS_Surjection
  <2>7. Cardinality(fills) \in Nat
    BY <2>6, FS_CardinalityType
  <2>8. Cardinality(Flying(halves)) <= MaxOutstanding
    BY DEF WithinCap, Outstanding, Flying
  <2> QED
    BY <2>5, <2>6, <2>7, <2>8, ConstantTypes DEF EngineWithinCap
<1> QED
  BY <1>1, AsyncInvariant, CapInvariant, PTL

=============================================================================
