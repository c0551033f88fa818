---------------------- MODULE LatencyHidingBufferLedger ----------------------
(***************************************************************************)
(* Proofs about what the halves of the Latency Hiding Buffer hold and about *)
(* its statistics: what a half is charged with, that its range stays the    *)
(* same under a reader, and that fills_started, fills_completed and swaps   *)
(* account for every half in use.                                           *)
(***************************************************************************)
EXTENDS LatencyHidingBufferProofs

-----------------------------------------------------------------------------
(* What a half holds.                                                       *)

\* A half in use is charged with its share of the chunk it holds, and not
\* charged beyond it.  Without callbacks no half waits, and one that was
\* charged to the end is never kept.
Charged(h) ==
  /\ ~Async => ~h.pending
  /\ h.state # "Idle" =>
       /\ h.span \in 1 .. ChunkSpan
       /\ h.stored = Greatest(1, h.span \div Factor)
       /\ h.consumed <= h.stored
       /\ ~Async => h.consumed < h.stored

\* Every queued chunk is one a half can hold.
Cut(c) == c.span \in 1 .. ChunkSpan

Shared(b) ==
  /\ \A i \in Halves : Charged(b.halves[i])
  /\ \A k \in 1 .. Len(b.streams) : Cut(b.streams[k])

\* The inductive invariant behind the properties of single halves.
HoldInv == Shared(Buffer)

\* From h to k the half stays in use on the same range.
Keeps(h, k) ==
  /\ k.state # "Idle"
  /\ k.base = h.base /\ k.span = h.span /\ k.stored = h.stored
  /\ k.token = h.token /\ k.pending = h.pending
  /\ k.consumed >= h.consumed

\* A tensor is cut into chunks of one to ChunkSpan lines.
LEMMA ChunksCut ==
  ASSUME NEW t \in [addr : Nat, size : Nat]
  PROVE  \A k \in 1 .. Len(ChunksOf(t)) : Cut(ChunksOf(t)[k])
<1> DEFINE n == (t.size + ChunkSpan - 1) \div ChunkSpan
<1>1. t.size \in Nat /\ ChunkSpan \in Nat /\ ChunkSpan > 0
  BY ConstantTypes
<1>2. \A a, b \in Nat : b > 0 => a \div b \in Nat /\ (a \div b) * b <= a
  OBVIOUS
<1>3. n \in Nat /\ n * ChunkSpan <= t.size + ChunkSpan - 1
  BY <1>1, <1>2
<1>4. Len(ChunksOf(t)) = n
  BY <1>3 DEF ChunksOf
<1>5. SUFFICES ASSUME NEW k \in 1 .. n PROVE Cut(ChunksOf(t)[k])
  BY <1>4
<1> DEFINE off == (k - 1) * ChunkSpan
<1>6. \A a, b, c \in Nat : a <= b => a * c <= b * c
  OBVIOUS
<1>7. off <= (n - 1) * ChunkSpan
  BY <1>1, <1>3, <1>6
<1>8. (n - 1) * ChunkSpan = n * ChunkSpan - ChunkSpan
  BY <1>1, <1>3
<1>9. off \in Nat
  BY <1>1
<1>10. off < t.size
  BY <1>1, <1>3, <1>7, <1>8, <1>9
<1>11. Least(ChunkSpan, t.size - off) \in 1 .. ChunkSpan
  BY <1>1, <1>9, <1>10 DEF Least
<1>12. ChunksOf(t)[k].span = Least(ChunkSpan, t.size - off)
  BY <1>3 DEF ChunksOf
<1> QED
  BY <1>11, <1>12 DEF Cut

\* A half filled with a chunk is charged with its share of it.
LEMMA FilledHalfCharged ==
  ASSUME NEW c \in ChunkType, Cut(c), NEW token, NEW t
  PROVE  Charged(FilledHalf(c, token, t))
<1>1. c.span \in Nat /\ Factor \in Nat /\ Factor > 0
  BY ConstantTypes DEF ChunkType
<1>2. \A a, b \in Nat : b > 0 => a \div b \in Nat
  OBVIOUS
<1>3. c.span \div Factor \in Nat
  BY <1>1, <1>2
<1>4. Greatest(1, c.span \div Factor) > 0
  BY <1>3 DEF Greatest
<1>5. Greatest(1, c.span \div Factor) \in Nat
  BY <1>3 DEF Greatest
<1> QED
  BY <1>4, <1>5 DEF FilledHalf, Charged, Cut

LEMMA KeepsCharged ==
  ASSUME NEW h \in HalfType, NEW k \in HalfType, Charged(h), h.state # "Idle",
         Keeps(h, k), k.consumed = h.consumed
  PROVE  Charged(k)
BY DEF Charged, Keeps

LEMMA RetireKeeps ==
  ASSUME NEW hs \in [Halves -> HalfType], NEW t \in Nat, NEW i \in Halves
  PROVE  LET k == RetireFills(hs, t)[i]
         IN  /\ hs[i].state = "Idle" => k = hs[i]
             /\ hs[i].state # "Idle" => Keeps(hs[i], k) /\ k.consumed = hs[i].consumed
<1>1. hs[i] \in HalfType
  OBVIOUS
<1>2. CASE hs[i].state = "Idle"
  BY <1>2 DEF RetireFills, LandsBy, InFlight
<1>3. CASE hs[i].state # "Idle"
  <2>1. RetireFills(hs, t)[i] \in {[hs[i] EXCEPT !.state = "Ready"],
                                   [hs[i] EXCEPT !.state = "Filling"], hs[i]}
    BY DEF RetireFills
  <2>2. hs[i].consumed \in Nat
    BY <1>1 DEF HalfType
  <2> QED
    BY <1>1, <1>3, <2>1, <2>2 DEF Keeps, HalfType
<1> QED
  BY <1>2, <1>3

LEMMA AgedKeeps ==
  ASSUME NEW b \in BufferType, NEW i \in Halves
  PROVE  LET h == b.halves[i]
             k == Aged(b).halves[i]
         IN  /\ h.state = "Idle" => k = h
             /\ h.state # "Idle" => Keeps(h, k) /\ k.consumed = h.consumed
<1>1. b.halves[i] \in HalfType /\ b.halves[i].consumed \in Nat
  BY DEF BufferType, HalfType
<1>2. Aged(b).halves[i] = IF b.halves[i].state = "Idle" THEN b.halves[i]
        ELSE [b.halves[i] EXCEPT !.start = Greatest(-1, @ - 1),
                                 !.done = Greatest(0, @ - 1)]
  BY DEF Aged, BufferType
<1>3. \A x, y : LET k == [b.halves[i] EXCEPT !.start = x, !.done = y]
                IN  /\ k.state = b.halves[i].state /\ k.base = b.halves[i].base
                    /\ k.span = b.halves[i].span /\ k.stored = b.halves[i].stored
                    /\ k.token = b.halves[i].token
                    /\ k.pending = b.halves[i].pending
                    /\ k.consumed = b.halves[i].consumed
  BY <1>1 DEF HalfType
<1> QED
  BY <1>1, <1>2, <1>3 DEF Keeps

\* launch_fills() leaves every half in use alone ...
LEMMA LaunchKeeps ==
  ASSUME NEW b \in BufferType, NEW t, NEW i \in Halves, b.halves[i].state # "Idle"
  PROVE  LaunchFills(b, t).halves[i] = b.halves[i]
BY DEF LaunchFills, IdleHalves

\* ... and charges those it fills.
LEMMA LaunchShared ==
  ASSUME NEW b \in BufferType, NEW t \in Nat, Shared(b)
  PROVE  Shared(LaunchFills(b, t))
<1> DEFINE n == LaunchCount(b)
           r(i) == Rank(b.halves, i)
<1>1. b.streams \in Seq(ChunkType) /\ b.token \in Nat
  BY DEF BufferType
<1>2. n \in 0 .. Len(b.streams) /\ Len(b.streams) \in Nat
  BY <1>1, LaunchCountBounds, LenProperties
<1>3. ASSUME NEW i \in Halves PROVE Charged(LaunchFills(b, t).halves[i])
  <2>1. CASE i \in IdleHalves(b.halves) /\ r(i) <= n
    <3>1. r(i) \in 1 .. Len(b.streams)
      BY <1>2, <2>1, RankOfIdle
    <3>2. b.streams[r(i)] \in ChunkType /\ Cut(b.streams[r(i)])
      BY <1>1, <3>1, ElementOfSeq DEF Shared
    <3>3. LaunchFills(b, t).halves[i] = FilledHalf(b.streams[r(i)], b.token + r(i) - 1, t)
      BY <2>1 DEF LaunchFills
    <3> QED
      BY <3>2, <3>3, FilledHalfCharged
  <2>2. CASE ~(i \in IdleHalves(b.halves) /\ r(i) <= n)
    BY <2>2 DEF LaunchFills, Shared
  <2> QED
    BY <2>1, <2>2
<1>4. \A k \in n + 1 .. Len(b.streams) : b.streams[k] \in ChunkType
  BY <1>1, <1>2, ElementOfSeq
<1>5. ASSUME NEW k \in 1 .. Len(LaunchFills(b, t).streams)
      PROVE  Cut(LaunchFills(b, t).streams[k])
  <2>1. LaunchFills(b, t).streams = SubSeq(b.streams, n + 1, Len(b.streams))
    BY DEF LaunchFills
  <2> DEFINE m == Len(b.streams)
             rest == SubSeq(b.streams, n + 1, m)
  <2>2. /\ Len(rest) = IF n + 1 <= m THEN m - (n + 1) + 1 ELSE 0
        /\ \A i \in 1 .. m - (n + 1) + 1 : rest[i] = b.streams[(n + 1) + i - 1]
    BY <1>2, <1>4, SubSeqProperties
  <2>3. k \in 1 .. Len(rest) /\ m \in Nat /\ n \in 0 .. m
    BY <1>2, <2>1
  <2>4. LaunchFills(b, t).streams[k] = rest[k]
    BY <2>1
  <2> HIDE DEF rest, m, n
  <2>5. n + 1 <= m /\ k \in 1 .. m - (n + 1) + 1
    BY <2>2, <2>3
  <2>6. rest[k] = b.streams[(n + 1) + k - 1]
    BY <2>2, <2>5
  <2>7. (n + 1) + k - 1 = k + n /\ k + n \in 1 .. m
    BY <2>3, <2>5
  <2>8. k + n \in 1 .. Len(b.streams) /\ LaunchFills(b, t).streams[k] = b.streams[k + n]
    BY <2>4, <2>6, <2>7 DEF m
  <2> QED
    BY <2>8 DEF Shared
<1> QED
  BY <1>3, <1>5 DEF Shared

LEMMA TickedShared ==
  ASSUME NEW b \in BufferType, NEW t \in Nat, Shared(b)
  PROVE  Shared(Ticked(b, t))
<1> DEFINE r == [b EXCEPT !.halves = RetireFills(b.halves, t)]
<1>1. /\ r \in BufferType /\ r.halves = RetireFills(b.halves, t)
      /\ r.streams = b.streams
  BY RetireFillsType DEF BufferType
<1>2. ASSUME NEW i \in Halves PROVE Charged(r.halves[i])
  <2>1. /\ b.halves \in [Halves -> HalfType] /\ b.halves[i] \in HalfType
        /\ r.halves[i] \in HalfType /\ Charged(b.halves[i])
    BY <1>1 DEF BufferType, Shared
  <2> HIDE DEF r
  <2> QED
    BY <1>1, <2>1, RetireKeeps, KeepsCharged
<1>3. Shared(r)
  BY <1>1, <1>2 DEF Shared
<1>4. Ticked(b, t) = IF Enabled THEN LaunchFills(r, t) ELSE b
  BY DEF Ticked
<1> HIDE DEF r
<1> QED
  BY <1>1, <1>3, <1>4, LaunchShared, ConstantTypes

LEMMA TickedKeeps ==
  ASSUME NEW b \in BufferType, NEW t \in Nat, NEW i \in Halves,
         b.halves[i].state # "Idle"
  PROVE  /\ Keeps(b.halves[i], Ticked(b, t).halves[i])
         /\ Ticked(b, t).halves[i].consumed = b.halves[i].consumed
<1> DEFINE r == [b EXCEPT !.halves = RetireFills(b.halves, t)]
<1>1. r \in BufferType /\ r.halves = RetireFills(b.halves, t)
  BY RetireFillsType DEF BufferType
<1>2. Keeps(b.halves[i], r.halves[i]) /\ r.halves[i].consumed = b.halves[i].consumed
  BY <1>1, RetireKeeps DEF BufferType
<1>3. Ticked(b, t) = IF Enabled THEN LaunchFills(r, t) ELSE b
  BY DEF Ticked
<1>4. Keeps(b.halves[i], b.halves[i])
  BY DEF Keeps, BufferType, HalfType
<1> HIDE DEF r
<1>5. LaunchFills(r, t).halves[i] = r.halves[i]
  BY <1>1, <1>2, LaunchKeeps DEF Keeps
<1> QED
  BY <1>2, <1>3, <1>4, <1>5, ConstantTypes

\* What access() does to the half it finds, spelled out by case.
LEMMA AccessCases ==
  ASSUME NEW b \in BufferType, NEW d \in Demands,
         Enabled, Covering(b.halves, d) # {}
  PROVE  LET i == FindHalf(b.halves, d)
             h == Consume(b.halves[i], d)
             c == AfterAccess(b, d)
         IN  /\ i \in Halves /\ b.halves[i].state # "Idle"
             /\ Keeps(b.halves[i], h) \/ ~Charged(b.halves[i])
             /\ h \in HalfType /\ h.consumed <= h.stored
             /\ h.state = b.halves[i].state /\ h.pending = b.halves[i].pending
             /\ h.span = b.halves[i].span /\ h.stored = b.halves[i].stored
             /\ \/ /\ InFlight(h) /\ h.pending /\ ~Drains(b, d)
                   /\ c = [b EXCEPT !.halves[i] = h]
                \/ /\ ~(InFlight(h) /\ h.pending) /\ h.consumed < h.stored
                   /\ ~Drains(b, d)
                   /\ c = [b EXCEPT !.halves[i] = [h EXCEPT !.state = "Serving"]]
                \/ /\ ~(InFlight(h) /\ h.pending)
                   /\ Drains(b, d)
                   /\ c = LaunchFills([b EXCEPT !.halves[i] = EmptyHalf], Hop)
<1> DEFINE i == FindHalf(b.halves, d)
           h == Consume(b.halves[i], d)
<1>1. i \in Halves /\ b.halves[i].state # "Idle"
  BY FindHalfCovers DEF Covering
<1>2. b.halves[i] \in HalfType /\ d.size \in Nat
  BY <1>1, LhbConstants DEF BufferType
<1>3. h = [b.halves[i] EXCEPT !.consumed = Least(b.halves[i].stored,
                                                 b.halves[i].consumed + d.size)]
  BY DEF Consume
<1>4. b.halves[i].stored \in Nat /\ b.halves[i].consumed \in Nat
  BY <1>2 DEF HalfType
<1>5. h.consumed = Least(b.halves[i].stored, b.halves[i].consumed + d.size)
  BY <1>2, <1>3 DEF HalfType
<1>6. /\ h.state = b.halves[i].state /\ h.pending = b.halves[i].pending
      /\ h.span = b.halves[i].span /\ h.stored = b.halves[i].stored
      /\ h.base = b.halves[i].base /\ h.token = b.halves[i].token
  BY <1>2, <1>3 DEF HalfType
<1>7. h \in HalfType /\ h.stored \in Nat /\ h.consumed \in Nat
  BY <1>2, ConsumeType DEF HalfType
<1>8. h.consumed <= h.stored
  BY <1>2, <1>4, <1>5, <1>6 DEF Least
<1>9. b.halves[i].consumed <= b.halves[i].stored => h.consumed >= b.halves[i].consumed
  BY <1>2, <1>4, <1>5 DEF Least
<1>10. Keeps(b.halves[i], h) \/ ~Charged(b.halves[i])
  BY <1>1, <1>6, <1>9 DEF Keeps, Charged
<1>11. Drains(b, d) <=> ~(InFlight(h) /\ h.pending) /\ h.consumed >= h.stored
  BY DEF Drains
<1>12. AfterAccess(b, d) =
         IF InFlight(h) /\ h.pending THEN [b EXCEPT !.halves[i] = h]
         ELSE IF h.consumed >= h.stored
           THEN LaunchFills([b EXCEPT !.halves[i] = EmptyHalf], Hop)
         ELSE [b EXCEPT !.halves[i] = [h EXCEPT !.state = "Serving"]]
  BY DEF AfterAccess
<1> HIDE DEF i, h
<1>13. CASE InFlight(h) /\ h.pending
  BY <1>1, <1>6, <1>7, <1>8, <1>10, <1>11, <1>12, <1>13 DEF i, h
<1>14. CASE ~(InFlight(h) /\ h.pending) /\ h.consumed >= h.stored
  BY <1>1, <1>6, <1>7, <1>8, <1>10, <1>11, <1>12, <1>14 DEF i, h
<1>15. CASE ~(InFlight(h) /\ h.pending) /\ ~(h.consumed >= h.stored)
  <2>1. h.consumed < h.stored
    BY <1>7, <1>15
  <2> QED
    BY <1>1, <1>6, <1>7, <1>8, <1>10, <1>11, <1>12, <1>15, <2>1 DEF i, h
<1> QED
  BY <1>13, <1>14, <1>15

LEMMA EmptyHalfCharged == Charged(EmptyHalf)
BY DEF Charged, EmptyHalf

LEMMA AfterAccessShared ==
  ASSUME NEW b \in BufferType, NEW d \in Demands, Shared(b)
  PROVE  Shared(AfterAccess(b, d))
<1> DEFINE i == FindHalf(b.halves, d)
           h == Consume(b.halves[i], d)
           c == AfterAccess(b, d)
<1>1. CASE ~Enabled \/ Covering(b.halves, d) = {}
  BY <1>1 DEF AfterAccess
<1>2. CASE Enabled /\ Covering(b.halves, d) # {}
  <2> DEFINE served == [h EXCEPT !.state = "Serving"]
  <2>1. /\ i \in Halves /\ b.halves[i].state # "Idle" /\ Charged(b.halves[i])
        /\ h \in HalfType /\ h.consumed <= h.stored
        /\ h.state = b.halves[i].state /\ h.pending = b.halves[i].pending
        /\ h.span = b.halves[i].span /\ h.stored = b.halves[i].stored
        /\ \/ InFlight(h) /\ h.pending /\ c = [b EXCEPT !.halves[i] = h]
           \/ /\ h.consumed < h.stored
              /\ c = [b EXCEPT !.halves[i] = served]
           \/ c = LaunchFills([b EXCEPT !.halves[i] = EmptyHalf], Hop)
    BY <1>2, AccessCases DEF Shared
  <2>2. ASSUME NEW x, Charged(x)
        PROVE  Shared([b EXCEPT !.halves[i] = x])
    <3>1. /\ [b EXCEPT !.halves[i] = x].halves = [b.halves EXCEPT ![i] = x]
          /\ [b EXCEPT !.halves[i] = x].streams = b.streams
          /\ b.halves \in [Halves -> HalfType]
      BY DEF BufferType
    <3> HIDE DEF i
    <3> QED
      BY <2>2, <3>1 DEF Shared
  <2>3. [b EXCEPT !.halves[i] = EmptyHalf] \in BufferType
    BY <2>1, EmptyHalfType DEF BufferType
  <2>4. served.state = "Serving" /\ served.span = h.span /\ served.stored = h.stored
        /\ served.consumed = h.consumed /\ served.pending = h.pending
    BY <2>1 DEF HalfType
  <2> HIDE DEF i, h, c, served
  <2>5. CASE InFlight(h) /\ h.pending /\ c = [b EXCEPT !.halves[i] = h]
    <3>1. Charged(h)
      BY <2>1, <2>5 DEF Charged
    <3> QED
      BY <2>2, <2>5, <3>1 DEF c
  <2>6. CASE h.consumed < h.stored /\ c = [b EXCEPT !.halves[i] = served]
    <3>1. Charged(served)
      BY <2>1, <2>4, <2>6 DEF Charged
    <3> QED
      BY <2>2, <2>6, <3>1 DEF c
  <2>7. CASE c = LaunchFills([b EXCEPT !.halves[i] = EmptyHalf], Hop)
    BY <2>2, <2>3, <2>7, EmptyHalfCharged, LaunchShared, ConstantTypes DEF c
  <2> QED
    BY <2>1, <2>5, <2>6, <2>7
<1> QED
  BY <1>1, <1>2, ConstantTypes

LEMMA HoldInit == Init => HoldInv
<1> SUFFICES ASSUME Init PROVE HoldInv
  OBVIOUS
<1>1. \A i \in Halves : Buffer.halves[i] = EmptyHalf
  BY DEF Init, Buffer
<1>2. Len(Buffer.streams) = 0
  BY DEF Init, Buffer
<1> QED
  BY <1>1, <1>2, EmptyHalfCharged DEF HoldInv, Shared

\* What on_fill_complete() does to the halves.
LEMMA FillCompleteStep ==
  ASSUME TypeOK, NEW token \in fills, FillComplete(token)
  PROVE  \/ UNCHANGED <<halves, counts>>
            /\ ~\E i \in Halves : halves[i].pending /\ halves[i].token = token
         \/ \E i \in Halves :
              /\ halves[i].pending /\ halves[i].token = token
              /\ halves' = [halves EXCEPT ![i] =
                   [halves[i] EXCEPT !.pending = FALSE, !.done = 0,
                                     !.state = "Ready"]]
              /\ counts' = [counts EXCEPT !.completed = @ + 1]
<1> DEFINE mine == {j \in Halves : halves[j].pending /\ halves[j].token = token}
           i == CHOOSE i \in mine : \A j \in mine : i <= j
<1>1. CASE mine = {}
  BY <1>1 DEF FillComplete
<1>2. CASE mine # {}
  <2>1. i \in mine
    BY <1>2, FirstHalf
  <2>2. /\ halves' = [halves EXCEPT ![i].pending = FALSE, ![i].done = 0,
                                    ![i].state = "Ready"]
        /\ counts' = [counts EXCEPT !.completed = @ + 1]
    BY <1>2 DEF FillComplete
  <2> HIDE DEF i
  <2>3. i \in Halves /\ halves[i].pending /\ halves[i].token = token
    BY <2>1
  <2>4. halves' = [halves EXCEPT ![i] =
                   [halves[i] EXCEPT !.pending = FALSE, !.done = 0,
                                     !.state = "Ready"]]
    BY <2>2, <2>3 DEF TypeOK
  <2> QED
    BY <2>2, <2>3, <2>4
<1> QED
  BY <1>1, <1>2

LEMMA HoldNext == TypeOK /\ AsyncInv /\ HoldInv /\ [Next]_vars => HoldInv'
<1> SUFFICES ASSUME TypeOK, AsyncInv, HoldInv, [Next]_vars PROVE HoldInv'
  OBVIOUS
<1>1. /\ Buffer \in BufferType /\ Buffer.halves = halves
      /\ Buffer.streams = streams /\ Shared(Buffer)
  BY BufferTyped DEF HoldInv
<1>2. Buffer'.halves = halves' /\ Buffer'.streams = streams'
  BY DEF Buffer
<1>3. ASSUME NEW b, Shared(b), halves' = b.halves, streams' = b.streams
      PROVE  HoldInv'
  BY <1>2, <1>3 DEF HoldInv, Shared
<1>4. ASSUME NEW t \in Tensors, IssueHint(t) PROVE HoldInv'
  <2>1. ChunksOf(t) \in Seq(ChunkType) /\ t \in [addr : Nat, size : Nat]
    BY LhbConstants, ChunksType
  <2>2. \A k \in 1 .. Len(ChunksOf(t)) : Cut(ChunksOf(t)[k])
    BY <2>1, ChunksCut
  <2>3. streams \in Seq(ChunkType) /\ halves' = halves
    BY <1>4 DEF IssueHint, TypeOK
  <2>4. \A k \in 1 .. Len(streams) : Cut(streams[k])
    BY <1>1 DEF Shared
  <2> DEFINE cs == ChunksOf(t)
  <2>5. streams' = streams \o cs \/ streams' = streams
    BY <1>4 DEF IssueHint
  <2> HIDE DEF cs
  <2>6. /\ Len(streams \o cs) = Len(streams) + Len(cs)
        /\ \A k \in 1 .. Len(streams) + Len(cs) :
             (streams \o cs)[k] = IF k <= Len(streams) THEN streams[k]
                                  ELSE cs[k - Len(streams)]
        /\ Len(streams) \in Nat /\ Len(cs) \in Nat
    BY <2>1, <2>3, ConcatProperties, LenProperties DEF cs
  <2>7. ASSUME NEW k \in 1 .. Len(streams) + Len(cs)
        PROVE  Cut((streams \o cs)[k])
    <3>1. CASE k <= Len(streams)
      BY <2>4, <2>6, <3>1
    <3>2. CASE ~(k <= Len(streams))
      <4>1. k - Len(streams) \in 1 .. Len(cs)
        BY <2>6, <3>2
      <4> QED
        BY <2>2, <2>6, <3>2, <4>1 DEF cs
    <3> QED
      BY <3>1, <3>2
  <2>8. \A k \in 1 .. Len(streams') : Cut(streams'[k])
    BY <2>4, <2>5, <2>6, <2>7
  <2> QED
    BY <1>1, <1>2, <2>3, <2>8 DEF HoldInv, Shared
<1>5. ASSUME Tick PROVE HoldInv'
  <2> DEFINE b == Aged(Buffer)
  <2>1. b \in BufferType /\ b.streams = streams
    BY <1>1, AgedType DEF Aged, BufferType
  <2>2. Shared(b)
    <3>1. ASSUME NEW i \in Halves PROVE Charged(b.halves[i])
      <4>1. /\ Buffer.halves[i] \in HalfType /\ b.halves[i] \in HalfType
            /\ Charged(Buffer.halves[i])
        BY <1>1, <2>1 DEF BufferType, Shared
      <4> QED
        BY <1>1, <4>1, AgedKeeps, KeepsCharged
    <3> QED
      BY <1>1, <2>1, <3>1 DEF Shared
  <2>3. halves' = Ticked(b, 0).halves /\ streams' = Ticked(b, 0).streams
    BY <1>5 DEF Tick, Becomes
  <2> HIDE DEF b
  <2> QED
    BY <1>3, <2>1, <2>2, <2>3, TickedShared
<1>6. ASSUME NEW d \in Demands, Access(d) PROVE HoldInv'
  <2> DEFINE b == Ticked(Buffer, Hop)
  <2>1. b \in BufferType /\ Shared(b)
    BY <1>1, TickedType, TickedShared, ConstantTypes
  <2>2. halves' = AfterAccess(b, d).halves /\ streams' = AfterAccess(b, d).streams
    BY <1>6 DEF Access, Becomes
  <2> HIDE DEF b
  <2> QED
    BY <1>3, <2>1, <2>2, AfterAccessShared
<1>7. ASSUME NEW token \in fills, FillComplete(token) PROVE HoldInv'
  <2>1. UNCHANGED streams
    BY <1>7 DEF FillComplete
  <2>2. CASE UNCHANGED halves
    BY <1>1, <1>2, <2>1, <2>2 DEF HoldInv, Shared
  <2>3. ASSUME NEW i \in Halves, halves[i].pending,
               halves' = [halves EXCEPT ![i] =
                   [halves[i] EXCEPT !.pending = FALSE, !.done = 0,
                                     !.state = "Ready"]]
        PROVE  HoldInv'
    <3> DEFINE k == [halves[i] EXCEPT !.pending = FALSE, !.done = 0, !.state = "Ready"]
    <3>1. halves[i] \in HalfType /\ Charged(halves[i])
      BY <1>1 DEF TypeOK, Shared
    <3>2. k.span = halves[i].span /\ k.stored = halves[i].stored
          /\ k.consumed = halves[i].consumed /\ ~k.pending
      BY <3>1 DEF HalfType
    <3>3. Async => halves[i].state # "Idle"
      BY <1>1, <2>3 DEF AsyncInv, Sound, InFlight
    <3>4. CASE Async
      <4>1. Charged(k)
        BY <3>1, <3>2, <3>3, <3>4 DEF Charged
      <4>2. \A j \in Halves : Charged(halves'[j])
        BY <1>1, <2>3, <4>1 DEF TypeOK, Shared
      <4> QED
        BY <1>1, <1>2, <2>1, <4>2 DEF HoldInv, Shared
    <3>5. CASE ~Async
      BY <2>3, <3>1, <3>5 DEF Charged
    <3> QED
      BY <3>4, <3>5, ConstantTypes
  <2> QED
    BY <1>7, <2>2, <2>3, FillCompleteStep
<1>8. CASE UNCHANGED vars
  BY <1>1, <1>2, <1>8 DEF HoldInv, Shared, vars
<1> QED
  BY <1>4, <1>5, <1>6, <1>7, <1>8 DEF Next

LEMMA HoldInvariant == Spec => [](TypeOK /\ AsyncInv /\ HoldInv)
<1>1. TypeOK /\ AsyncInv /\ HoldInv /\ [Next]_vars => (TypeOK /\ AsyncInv /\ HoldInv)'
  BY TypeNext, AsyncNext, HoldNext
<1>2. Init => TypeOK /\ AsyncInv /\ HoldInv
  BY TypeInit, AsyncInit, HoldInit
<1> QED
  BY <1>1, <1>2, PTL DEF Spec

\* On the closed-form path the access that reads the last stored line of a half
\* releases it in the same call: no half that has landed stays drained.
THEOREM NoHalfStaysDrained == Spec => [](~Async => NoDrainedHalfStays)
<1>1. HoldInv => (~Async => NoDrainedHalfStays)
  BY DEF HoldInv, Shared, Charged, NoDrainedHalfStays, Buffer
<1> QED
  BY <1>1, HoldInvariant, PTL

\* In every mode, and for every factor, a half in use is charged with at most
\* half_size_bytes() and with its partition's share of the range it answers for.
THEOREM HalvesHoldTheirShare == Spec => []HalfHoldsItsShare
<1>1. HoldInv => HalfHoldsItsShare
  <2> SUFFICES ASSUME HoldInv, NEW i \in Halves \ IdleHalves(halves)
               PROVE  LET h == halves[i]
                      IN  /\ h.stored <= HalfLines
                          /\ h.span \in (h.stored * Factor) - (Factor - 1)
                                          .. (h.stored * Factor) + (Factor - 1)
    BY DEF HalfHoldsItsShare
  <2> DEFINE h == halves[i]
             q == h.span \div Factor
  <2>1. /\ h.span \in 1 .. HalfLines * Factor
        /\ h.stored = Greatest(1, q)
    BY DEF HoldInv, Shared, Charged, Buffer, IdleHalves, ChunkSpan
  <2>2. HalfLines \in Nat \ {0} /\ Factor \in Nat \ {0}
    BY LhbConstants, ConstantTypes
  <2>3. \A a, b \in Nat : b > 0 => /\ a \div b \in Nat
                                   /\ (a \div b) * b <= a
                                   /\ a < (a \div b) * b + b
    OBVIOUS
  <2>4. HalfLines * Factor \in Nat /\ h.span \in Nat
    BY <2>1, <2>2
  <2>5. q \in Nat /\ q * Factor <= h.span /\ h.span < q * Factor + Factor
    BY <2>2, <2>3, <2>4
  <2> HIDE DEF h, q
  <2>6. q <= HalfLines
    <3>1. \A a, b, c \in Nat : a > b => a * c >= b * c + c
      <4> SUFFICES ASSUME NEW a \in Nat, NEW b \in Nat, NEW c \in Nat, a > b
                   PROVE  a * c >= b * c + c
        OBVIOUS
      <4>1. a - b - 1 \in Nat /\ (a - b - 1) * c \in Nat
        OBVIOUS
      <4>2. (a - b - 1) * c = a * c - b * c - c
        OBVIOUS
      <4> QED
        BY <4>1, <4>2
    <3>2. SUFFICES ASSUME q > HalfLines PROVE FALSE
      BY <2>2, <2>5
    <3>3. q * Factor >= HalfLines * Factor + Factor
      BY <2>2, <2>5, <3>1, <3>2
    <3>4. q * Factor \in Nat /\ HalfLines * Factor \in Nat
      BY <2>2, <2>5
    <3> QED
      BY <2>1, <2>2, <2>4, <2>5, <3>3, <3>4
  <2>7. CASE q = 0
    <3>1. h.stored = 1 /\ h.span \in 1 .. Factor - 1
      BY <2>1, <2>2, <2>5, <2>7 DEF Greatest
    <3> QED
      BY <2>2, <3>1 DEF h
  <2>8. CASE q > 0
    <3>1. h.stored = q
      BY <2>1, <2>5, <2>8 DEF Greatest
    <3>2. q * Factor \in Nat
      BY <2>2, <2>5
    <3> QED
      BY <2>2, <2>4, <2>5, <2>6, <3>1, <3>2 DEF h
  <2> QED
    BY <2>5, <2>7, <2>8
<1> QED
  BY <1>1, HoldInvariant, PTL

-----------------------------------------------------------------------------
(* The range of a half under a reader.                                      *)

\* What an access that drains has found: a half that covers it, and that it
\* reads to the end.
LEMMA DrainsTheFound ==
  ASSUME NEW b \in BufferType, NEW d \in Demands, Drains(b, d)
  PROVE  LET i == FindHalf(b.halves, d)
         IN  /\ i \in Halves /\ Covers(b.halves[i], d)
             /\ b.halves[i].consumed + d.size >= b.halves[i].stored
             /\ Result(b, d).half = i
<1> DEFINE i == FindHalf(b.halves, d)
           h == Consume(b.halves[i], d)
<1>1. Enabled /\ Covering(b.halves, d) # {} /\ h.consumed >= h.stored
  BY DEF Drains
<1>2. i \in Halves /\ Covers(b.halves[i], d)
  BY <1>1, FindHalfCovers DEF Covering
<1>3. /\ b.halves[i] \in HalfType /\ d.size \in Nat
      /\ b.halves[i].stored \in Nat /\ b.halves[i].consumed \in Nat
  BY <1>2, LhbConstants DEF BufferType, HalfType
<1>4. /\ h.consumed = Least(b.halves[i].stored, b.halves[i].consumed + d.size)
      /\ h.stored = b.halves[i].stored
  BY <1>3 DEF Consume, HalfType
<1>5. b.halves[i].consumed + d.size >= b.halves[i].stored
  BY <1>1, <1>3, <1>4 DEF Least
<1>6. Result(b, d).half = i
  BY <1>1 DEF Result, Answer
<1> QED
  BY <1>2, <1>5, <1>6

\* A call of access() releases at most the half it found, and that one only
\* when no callback is outstanding for it.
LEMMA AfterAccessKeeps ==
  ASSUME NEW b \in BufferType, NEW d \in Demands, Shared(b),
         Async => Sound(b),
         NEW i \in Halves, b.halves[i].state # "Idle"
  PROVE  LET k == AfterAccess(b, d).halves[i]
             h == b.halves[i]
         IN  \/ Keeps(h, k)
             \/ Drains(b, d) /\ ~h.pending /\ i = FindHalf(b.halves, d)
<1> DEFINE j == FindHalf(b.halves, d)
           h == Consume(b.halves[j], d)
           c == AfterAccess(b, d)
<1>1. /\ b.halves \in [Halves -> HalfType] /\ b.halves[i] \in HalfType
      /\ Keeps(b.halves[i], b.halves[i])
  BY DEF BufferType, HalfType, Keeps
<1>2. CASE ~Enabled \/ Covering(b.halves, d) = {}
  BY <1>1, <1>2 DEF AfterAccess
<1>3. CASE Enabled /\ Covering(b.halves, d) # {}
  <2> DEFINE served == [h EXCEPT !.state = "Serving"]
             e == [b EXCEPT !.halves[j] = EmptyHalf]
  <2>1. /\ j \in Halves /\ Keeps(b.halves[j], h) /\ h \in HalfType
        /\ h.state = b.halves[j].state /\ h.pending = b.halves[j].pending
        /\ \/ c = [b EXCEPT !.halves[j] = h]
           \/ c = [b EXCEPT !.halves[j] = served]
           \/ /\ ~(InFlight(h) /\ h.pending) /\ Drains(b, d)
              /\ c = LaunchFills(e, Hop)
    BY <1>3, AccessCases DEF Shared
  <2>2. /\ served.state = "Serving" /\ served.base = h.base /\ served.span = h.span
        /\ served.stored = h.stored /\ served.token = h.token
        /\ served.pending = h.pending /\ served.consumed = h.consumed
    BY <2>1 DEF HalfType
  <2>3. \A x : [b EXCEPT !.halves[j] = x].halves = [b.halves EXCEPT ![j] = x]
    BY DEF BufferType
  <2>4. e \in BufferType
    BY <2>1, EmptyHalfType DEF BufferType
  <2>5. e.halves = [b.halves EXCEPT ![j] = EmptyHalf]
    BY <2>3
  <2> HIDE DEF j, h, c, served, e
  <2>6. CASE c = [b EXCEPT !.halves[j] = h]
    <3>1. c.halves[i] = IF i = j THEN h ELSE b.halves[i]
      BY <1>1, <2>3, <2>6
    <3> QED
      BY <1>1, <2>1, <3>1 DEF Keeps, c
  <2>7. CASE c = [b EXCEPT !.halves[j] = served]
    <3>1. c.halves[i] = IF i = j THEN served ELSE b.halves[i]
      BY <1>1, <2>3, <2>7
    <3> QED
      BY <1>1, <2>1, <2>2, <3>1 DEF Keeps, c
  <2>8. CASE ~(InFlight(h) /\ h.pending) /\ Drains(b, d) /\ c = LaunchFills(e, Hop)
    <3>1. CASE i = j
      <4>1. CASE Async
        BY <2>1, <2>8, <3>1, <4>1 DEF Sound, InFlight, j
      <4>2. CASE ~Async
        BY <2>8, <3>1, <4>2 DEF Shared, Charged, j
      <4> QED
        BY <4>1, <4>2
    <3>2. CASE i # j
      <4>1. e.halves[i] = b.halves[i]
        BY <1>1, <2>5, <3>2
      <4>2. c.halves[i] = b.halves[i]
        BY <2>4, <2>8, <4>1, LaunchKeeps
      <4> QED
        BY <1>1, <4>2 DEF c
    <3> QED
      BY <3>1, <3>2
  <2> QED
    BY <2>1, <2>6, <2>7, <2>8
<1> QED
  BY <1>2, <1>3, ConstantTypes

\* What a call other than the engine's callback does to half i, if it is in
\* use: it stays on its range, or this very call found and drained it.
Steady(i) ==
  halves[i].state # "Idle" =>
    Keeps(halves[i], halves'[i]) \/ DrainedNow(i)

LEMMA TickSteady ==
  ASSUME TypeOK, Tick, NEW i \in Halves
  PROVE  Steady(i)
<1> SUFFICES ASSUME halves[i].state # "Idle" PROVE Keeps(halves[i], halves'[i])
  BY DEF Steady
<1> DEFINE b == Aged(Buffer)
<1>1. /\ b \in BufferType /\ Keeps(halves[i], b.halves[i])
      /\ b.halves[i].consumed = halves[i].consumed
      /\ halves[i].consumed \in Nat
  <2>1. halves[i].consumed \in Nat
    BY DEF TypeOK, HalfType
  <2> QED
    BY <2>1, BufferTyped, AgedType, AgedKeeps
<1>2. halves' = Ticked(b, 0).halves
  BY DEF Tick, Becomes
<1> HIDE DEF b
<1>3. Keeps(b.halves[i], halves'[i]) /\ halves'[i].consumed = b.halves[i].consumed
  BY <1>1, <1>2, TickedKeeps DEF Keeps
<1> QED
  BY <1>1, <1>3 DEF Keeps

LEMMA AccessSteady ==
  ASSUME TypeOK, AsyncInv, HoldInv, NEW d \in Demands, Access(d), NEW i \in Halves
  PROVE  Steady(i)
<1> SUFFICES ASSUME halves[i].state # "Idle"
             PROVE  Keeps(halves[i], halves'[i]) \/ DrainedNow(i)
  BY DEF Steady
<1> DEFINE b == Ticked(Buffer, Hop)
<1>1. /\ Buffer \in BufferType /\ Buffer.halves = halves /\ Shared(Buffer)
      /\ Async => Sound(Buffer)
      /\ halves[i].consumed \in Nat
  BY BufferTyped DEF HoldInv, AsyncInv, TypeOK, HalfType
<1>2. /\ b \in BufferType /\ Shared(b)
      /\ Keeps(halves[i], b.halves[i]) /\ b.halves[i].consumed = halves[i].consumed
  BY <1>1, TickedType, TickedShared, TickedKeeps, ConstantTypes
<1>3. Async => Sound(b)
  BY <1>1, TickedGrows, ConstantTypes DEF Grows
<1>4. /\ halves' = AfterAccess(b, d).halves
      /\ Drains(b, d) => counts'.swaps = counts.swaps + 1
      /\ last' = Result(b, d)
  BY DEF Access, Becomes, TypeOK
<1> HIDE DEF b
<1>5. \/ Keeps(b.halves[i], halves'[i])
      \/ Drains(b, d) /\ ~b.halves[i].pending /\ i = FindHalf(b.halves, d)
  BY <1>2, <1>3, <1>4, AfterAccessKeeps DEF Keeps
<1>6. CASE Keeps(b.halves[i], halves'[i])
  BY <1>1, <1>2, <1>6 DEF Keeps
<1>7. CASE Drains(b, d) /\ ~b.halves[i].pending /\ i = FindHalf(b.halves, d)
  <2>1. /\ Covers(b.halves[i], d)
        /\ b.halves[i].consumed + d.size >= b.halves[i].stored
        /\ last'.half = i
    BY <1>2, <1>4, <1>7, DrainsTheFound
  <2>2. /\ b.halves[i].base = halves[i].base /\ b.halves[i].span = halves[i].span
        /\ b.halves[i].stored = halves[i].stored
        /\ b.halves[i].consumed = halves[i].consumed
        /\ b.halves[i].pending = halves[i].pending
    BY <1>2 DEF Keeps
  <2>3. Covers(halves[i], d) /\ halves[i].consumed + d.size >= halves[i].stored
    BY <2>1, <2>2 DEF Covers
  <2> QED
    BY <1>4, <1>7, <2>1, <2>2, <2>3 DEF DrainedNow
<1> QED
  BY <1>5, <1>6, <1>7

RangeStep ==
  \A i \in Halves :
     halves[i].state # "Idle" =>
       \/ /\ halves'[i].base = halves[i].base
          /\ halves'[i].span = halves[i].span
          /\ halves'[i].stored = halves[i].stored
          /\ halves'[i].token = halves[i].token
          /\ halves'[i].consumed >= halves[i].consumed
       \/ DrainedNow(i)

LEMMA RangeNext == TypeOK /\ AsyncInv /\ HoldInv /\ [Next]_vars => RangeStep
<1> SUFFICES ASSUME TypeOK, AsyncInv, HoldInv, [Next]_vars,
                    NEW i \in Halves, halves[i].state # "Idle"
             PROVE  \/ /\ halves'[i].base = halves[i].base
                       /\ halves'[i].span = halves[i].span
                       /\ halves'[i].stored = halves[i].stored
                       /\ halves'[i].token = halves[i].token
                       /\ halves'[i].consumed >= halves[i].consumed
                    \/ DrainedNow(i)
  BY DEF RangeStep
<1>1. halves[i] \in HalfType /\ halves[i].consumed \in Nat
  BY DEF TypeOK, HalfType
<1>2. ASSUME halves'[i] = halves[i] PROVE halves'[i].consumed >= halves[i].consumed
  BY <1>1, <1>2
<1>3. ASSUME NEW t \in Tensors, IssueHint(t) PROVE halves' = halves
  BY <1>3 DEF IssueHint
<1>4. ASSUME Tick PROVE Steady(i)
  BY <1>4, TickSteady
<1>5. ASSUME NEW d \in Demands, Access(d) PROVE Steady(i)
  BY <1>5, AccessSteady
<1>6. ASSUME NEW token \in fills, FillComplete(token)
      PROVE  /\ halves'[i].base = halves[i].base /\ halves'[i].span = halves[i].span
             /\ halves'[i].stored = halves[i].stored
             /\ halves'[i].token = halves[i].token
             /\ halves'[i].consumed = halves[i].consumed
  <2>1. CASE UNCHANGED halves
    BY <2>1
  <2>2. ASSUME NEW j \in Halves,
               halves' = [halves EXCEPT ![j] =
                   [halves[j] EXCEPT !.pending = FALSE, !.done = 0,
                                     !.state = "Ready"]]
        PROVE  /\ halves'[i].base = halves[i].base /\ halves'[i].span = halves[i].span
               /\ halves'[i].stored = halves[i].stored
               /\ halves'[i].token = halves[i].token
               /\ halves'[i].consumed = halves[i].consumed
    <3>1. halves'[i] \in {halves[i], [halves[i] EXCEPT !.pending = FALSE, !.done = 0,
                                                       !.state = "Ready"]}
      BY <2>2 DEF TypeOK
    <3> QED
      BY <1>1, <3>1 DEF HalfType
  <2> QED
    BY <1>6, <2>1, <2>2, FillCompleteStep
<1>7. CASE UNCHANGED vars
  BY <1>2, <1>7 DEF vars
<1> QED
  BY <1>1, <1>2, <1>3, <1>4, <1>5, <1>6, <1>7 DEF Next, Keeps, Steady

\* In every mode the range, the token and the stored size of a half in use change
\* only in the step whose access found that half and drained it, and never while
\* its callback is outstanding: a reader that found a half reads what it found.
THEOREM RangesAreStable == Spec => RangeStableWhileInUse
<1>1. TypeOK /\ AsyncInv /\ HoldInv /\ [Next]_vars => [RangeStep]_vars
  BY RangeNext
<1>2. Spec => [][RangeStep]_vars
  BY <1>1, HoldInvariant, PTL DEF Spec
<1> QED
  BY <1>2 DEF RangeStableWhileInUse, RangeStep

-----------------------------------------------------------------------------
(* The statistics.                                                          *)

Started(b, c) == Len(b.streams) - Len(c.streams)

\* From b to c every chunk that left the queue put one more half in use ...
Fills(b, c) ==
  Cardinality(Used(c.halves)) = Cardinality(Used(b.halves)) + Started(b, c)

\* ... and one more in flight.
Flies(b, c) ==
  Cardinality(Flying(c.halves)) = Cardinality(Flying(b.halves)) + Started(b, c)

\* The invariant FillsAccountedFor is one mode of: the first equation holds in
\* every mode, the second needs that only a callback lands a fill.
Ledger ==
  /\ counts.started = counts.swaps + Cardinality(Used(halves))
  /\ Async => counts.started = counts.completed + Cardinality(Flying(halves))

LEMMA CountsOfHalves ==
  ASSUME NEW hs
  PROVE  /\ IsFiniteSet(Used(hs)) /\ Cardinality(Used(hs)) \in Nat
         /\ IsFiniteSet(Flying(hs)) /\ Cardinality(Flying(hs)) \in Nat
BY HalvesFinite DEF Used, Flying

\* A set of halves grows by the size of what is new in it.
LEMMA DisjointSum ==
  ASSUME NEW S, NEW T, IsFiniteSet(S), IsFiniteSet(T), S \cap T = {}
  PROVE  Cardinality(S \cup T) = Cardinality(S) + Cardinality(T)
<1>1. Cardinality(S \cap T) = 0
  BY FS_EmptySet
<1>2. Cardinality(S) \in Nat /\ Cardinality(T) \in Nat
  BY FS_CardinalityType
<1>3. Cardinality(S \cup T) = Cardinality(S) + Cardinality(T) - Cardinality(S \cap T)
  BY FS_Union
<1> QED
  BY <1>1, <1>2, <1>3

\* launch_fills() takes one chunk for each half it fills.
LEMMA LaunchCounts ==
  ASSUME NEW b \in BufferType, NEW t \in Nat
  PROVE  Fills(b, LaunchFills(b, t)) /\ Flies(b, LaunchFills(b, t))
<1> DEFINE n == LaunchCount(b)
           c == LaunchFills(b, t)
           New == {i \in IdleHalves(b.halves) : Rank(b.halves, i) <= n}
           f == [i \in New |-> Rank(b.halves, i)]
<1>1. /\ n \in 0 .. Len(b.streams) /\ Len(b.streams) \in Nat
      /\ n <= Cardinality(IdleHalves(b.halves))
  BY LaunchCountBounds, LenProperties DEF BufferType
<1>2. New \subseteq IdleHalves(b.halves) /\ IdleHalves(b.halves) \subseteq Halves
  BY DEF IdleHalves
<1>3. f \in Bijection(New, 1 .. n)
  <2>1. \A i \in New : Rank(b.halves, i) \in 1 .. n
    BY <1>1, RankOfIdle
  <2>2. \A i, j \in New : Rank(b.halves, i) = Rank(b.halves, j) => i = j
    BY RankOfIdle
  <2>3. \A m \in 1 .. n : \E i \in New : Rank(b.halves, i) = m
    BY <1>1, RankOfIdle
  <2>4. f \in Injection(New, 1 .. n)
    BY <2>1, <2>2 DEF Injection, IsInjective
  <2>5. f \in Surjection(New, 1 .. n)
    BY <2>1, <2>3 DEF Surjection
  <2> QED
    BY <2>4, <2>5 DEF Bijection
<1>4. IsFiniteSet(New) /\ Cardinality(New) = n
  <2>1. IsFiniteSet(1 .. n) /\ Cardinality(1 .. n) = n
    BY <1>1, FS_Interval
  <2>2. f \in Injection(New, 1 .. n) /\ f \in Surjection(New, 1 .. n)
    BY <1>3 DEF Bijection
  <2> QED
    BY <2>1, <2>2, FS_Injection
<1>5. ASSUME NEW i \in New PROVE InFlight(c.halves[i])
  <2>1. c.halves[i] = FilledHalf(b.streams[Rank(b.halves, i)],
                                 b.token + Rank(b.halves, i) - 1, t)
    BY <1>2 DEF LaunchFills
  <2> QED
    BY <2>1 DEF FilledHalf, InFlight
<1>6. ASSUME NEW i \in Halves, i \notin New PROVE c.halves[i] = b.halves[i]
  BY <1>6 DEF LaunchFills
<1>7. Len(c.streams) = Len(b.streams) - n
  <2>1. \A k \in n + 1 .. Len(b.streams) : b.streams[k] \in ChunkType
    BY <1>1, ElementOfSeq DEF BufferType
  <2>2. c.streams = SubSeq(b.streams, n + 1, Len(b.streams))
    BY DEF LaunchFills
  <2>3. Len(c.streams) = IF n + 1 <= Len(b.streams) THEN Len(b.streams) - (n + 1) + 1
                         ELSE 0
    BY <1>1, <2>1, <2>2, SubSeqProperties
  <2> QED
    BY <1>1, <2>3
<1> HIDE DEF n, c, New, f
<1>8. /\ Used(c.halves) = Used(b.halves) \cup New
      /\ Flying(c.halves) = Flying(b.halves) \cup New
      /\ Used(b.halves) \cap New = {} /\ Flying(b.halves) \cap New = {}
  BY <1>2, <1>5, <1>6 DEF Used, Flying, IdleHalves, InFlight
<1>9. /\ Cardinality(Used(c.halves)) = Cardinality(Used(b.halves)) + n
      /\ Cardinality(Flying(c.halves)) = Cardinality(Flying(b.halves)) + n
  BY <1>4, <1>8, CountsOfHalves, DisjointSum
<1> QED
  BY <1>1, <1>7, <1>9 DEF Fills, Flies, Started, c

\* Time passing and retire_fills() leave every half in use in use.
LEMMA SameCounts ==
  ASSUME NEW b, NEW c, c.streams = b.streams, Len(b.streams) \in Nat,
         \A i \in Halves : c.halves[i].state = "Idle" <=> b.halves[i].state = "Idle"
  PROVE  /\ Used(c.halves) = Used(b.halves)
         /\ Fills(b, c)
         /\ Like(b.halves, c.halves) => Flies(b, c)
<1>1. Used(c.halves) = Used(b.halves)
  BY DEF Used, IdleHalves
<1>2. Like(b.halves, c.halves) => Flying(c.halves) = Flying(b.halves)
  BY DEF Like, Flying
<1> QED
  BY <1>1, <1>2, CountsOfHalves DEF Fills, Flies, Started

LEMMA TickedCounts ==
  ASSUME NEW b \in BufferType, NEW t \in Nat
  PROVE  /\ Fills(b, Ticked(b, t))
         /\ Async /\ Sound(b) => Flies(b, Ticked(b, t)) /\ Landing(b.halves, t) = 0
<1> DEFINE r == [b EXCEPT !.halves = RetireFills(b.halves, t)]
<1>1. /\ r \in BufferType /\ r.halves = RetireFills(b.halves, t)
      /\ r.streams = b.streams /\ Len(b.streams) \in Nat
      /\ b.halves \in [Halves -> HalfType]
  BY RetireFillsType, LenProperties DEF BufferType
<1>2. Ticked(b, t) = IF Enabled THEN LaunchFills(r, t) ELSE b
  BY DEF Ticked
<1> HIDE DEF r
<1>3. \A i \in Halves : r.halves[i].state = "Idle" <=> b.halves[i].state = "Idle"
  BY <1>1, RetireKeeps DEF Keeps
<1>4. Fills(b, r)
  BY <1>1, <1>3, SameCounts
<1>5. Sound(b) => Flies(b, r)
  BY <1>1, <1>3, RetireLike, SameCounts DEF Sound
<1>6. Fills(b, b) /\ Flies(b, b)
  BY <1>1, CountsOfHalves DEF Fills, Flies, Started
<1>7. Fills(r, LaunchFills(r, t)) /\ Flies(r, LaunchFills(r, t))
  BY <1>1, LaunchCounts
<1>8. LaunchFills(r, t) \in BufferType
  BY <1>1, LaunchFillsType
<1>9. Len(LaunchFills(r, t).streams) \in Nat
  BY <1>8, LenProperties DEF BufferType
<1> DEFINE c == LaunchFills(r, t)
<1> HIDE DEF c
<1>10. Fills(b, c) /\ (Sound(b) => Flies(b, c))
  <2>1. Started(b, r) = 0 /\ Started(b, c) = Started(r, c) /\ Started(b, c) \in Int
    BY <1>1, <1>9 DEF Started, c
  <2>2. /\ Cardinality(Used(r.halves)) \in Nat /\ Cardinality(Used(b.halves)) \in Nat
        /\ Cardinality(Flying(r.halves)) \in Nat
        /\ Cardinality(Flying(b.halves)) \in Nat
    BY CountsOfHalves
  <2>3. Fills(r, c) /\ Flies(r, c)
    BY <1>7 DEF c
  <2> QED
    BY <1>4, <1>5, <2>1, <2>2, <2>3 DEF Fills, Flies
<1>11. Fills(b, LaunchFills(r, t)) /\ (Sound(b) => Flies(b, LaunchFills(r, t)))
  BY <1>10 DEF c
<1>12. Sound(b) => Landing(b.halves, t) = 0
  <2>1. Sound(b) => {i \in Halves : LandsBy(b.halves[i], t)} = {}
    BY DEF Sound, LandsBy
  <2> QED
    BY <2>1, FS_EmptySet DEF Landing
<1> QED
  BY <1>2, <1>6, <1>10, <1>11, <1>12, ConstantTypes

\* An access that drains its half gives it up before it launches.
LEMMA AfterAccessCounts ==
  ASSUME NEW b \in BufferType, NEW d \in Demands, Shared(b)
  PROVE  LET c == AfterAccess(b, d)
             s == IF Drains(b, d) THEN 1 ELSE 0
         IN  /\ Cardinality(Used(c.halves)) + s
                  = Cardinality(Used(b.halves)) + Started(b, c)
             /\ Async /\ Sound(b) => Flies(b, c)
<1> DEFINE i == FindHalf(b.halves, d)
           h == Consume(b.halves[i], d)
           c == AfterAccess(b, d)
<1>1. Len(b.streams) \in Nat
  BY LenProperties DEF BufferType
<1>2. CASE ~Enabled \/ Covering(b.halves, d) = {}
  <2>1. c = b /\ ~Drains(b, d)
    BY <1>2 DEF AfterAccess, Drains
  <2> HIDE DEF c
  <2> QED
    BY <1>1, <2>1, CountsOfHalves DEF Flies, Started, c
<1>3. CASE Enabled /\ Covering(b.halves, d) # {}
  <2> DEFINE served == [h EXCEPT !.state = "Serving"]
             e == [b EXCEPT !.halves[i] = EmptyHalf]
  <2>1. /\ i \in Halves /\ b.halves[i].state # "Idle"
        /\ Keeps(b.halves[i], h) /\ h \in HalfType
        /\ h.state = b.halves[i].state /\ h.pending = b.halves[i].pending
        /\ \/ ~Drains(b, d) /\ c = [b EXCEPT !.halves[i] = h]
           \/ /\ ~(InFlight(h) /\ h.pending) /\ ~Drains(b, d)
              /\ c = [b EXCEPT !.halves[i] = served]
           \/ /\ ~(InFlight(h) /\ h.pending) /\ Drains(b, d)
              /\ c = LaunchFills(e, Hop)
    BY <1>3, AccessCases DEF Shared
  <2>2. /\ served.state = "Serving" /\ served.token = h.token
        /\ served.pending = h.pending
    BY <2>1 DEF HalfType
  <2>3. \A x : /\ [b EXCEPT !.halves[i] = x].halves = [b.halves EXCEPT ![i] = x]
               /\ [b EXCEPT !.halves[i] = x].streams = b.streams
    BY DEF BufferType
  <2>4. e \in BufferType /\ b.halves \in [Halves -> HalfType]
    BY <2>1, EmptyHalfType DEF BufferType
  <2>5. e.halves = [b.halves EXCEPT ![i] = EmptyHalf] /\ e.streams = b.streams
    BY <2>3
  <2>6. EmptyHalf.state = "Idle"
    BY DEF EmptyHalf
  <2>7. Sound(b) => (b.halves[i].pending <=> InFlight(b.halves[i]))
    BY <2>1 DEF Sound
  <2> HIDE DEF i, h, c, served, e
  <2>8. ASSUME NEW x, x.state # "Idle", ~Drains(b, d), c = [b EXCEPT !.halves[i] = x],
               Sound(b) => (InFlight(x) <=> InFlight(b.halves[i]))
        PROVE  /\ Cardinality(Used(c.halves)) = Cardinality(Used(b.halves)) + Started(b, c)
               /\ Sound(b) => Flies(b, c)
    <3>1. c.halves = [b.halves EXCEPT ![i] = x] /\ c.streams = b.streams
      BY <2>3, <2>8
    <3>2. Used(c.halves) = Used(b.halves)
      BY <2>1, <2>4, <2>8, <3>1 DEF Used, IdleHalves
    <3>3. Sound(b) => Flying(c.halves) = Flying(b.halves)
      BY <2>1, <2>4, <2>8, <3>1 DEF Flying
    <3> QED
      BY <1>1, <3>1, <3>2, <3>3, CountsOfHalves DEF Flies, Started
  <2>9. CASE ~Drains(b, d) /\ c = [b EXCEPT !.halves[i] = h]
    <3>1. h.state # "Idle" /\ (InFlight(h) <=> InFlight(b.halves[i]))
      BY <2>1 DEF InFlight
    <3> QED
      BY <1>1, <2>8, <2>9, <3>1, CountsOfHalves DEF c
  <2>10. CASE /\ ~(InFlight(h) /\ h.pending) /\ ~Drains(b, d)
              /\ c = [b EXCEPT !.halves[i] = served]
    <3>1. served.state # "Idle"
          /\ (Sound(b) => (InFlight(served) <=> InFlight(b.halves[i])))
      BY <2>1, <2>2, <2>7, <2>10 DEF InFlight
    <3> QED
      BY <1>1, <2>8, <2>10, <3>1, CountsOfHalves DEF c
  <2>11. CASE /\ ~(InFlight(h) /\ h.pending) /\ Drains(b, d) /\ c = LaunchFills(e, Hop)
    <3>1. Used(e.halves) = Used(b.halves) \ {i} /\ i \in Used(b.halves)
      BY <2>1, <2>4, <2>5, <2>6 DEF Used, IdleHalves
    <3>2. Cardinality(Used(e.halves)) = Cardinality(Used(b.halves)) - 1
      BY <3>1, CountsOfHalves, FS_RemoveElement
    <3>3. Sound(b) => Flying(e.halves) = Flying(b.halves)
      <4>1. Sound(b) => ~InFlight(b.halves[i])
        BY <2>1, <2>7, <2>11 DEF InFlight
      <4> QED
        BY <2>1, <2>4, <2>5, <2>6, <4>1 DEF Flying, InFlight
    <3>4. Fills(e, c) /\ Flies(e, c) /\ c \in BufferType
      BY <2>4, <2>11, LaunchCounts, LaunchFillsType, ConstantTypes
    <3>5. Started(e, c) = Started(b, c) /\ Started(b, c) \in Int
      BY <1>1, <2>5, <3>4, LenProperties DEF Started, BufferType
    <3> QED
      BY <2>11, <3>2, <3>3, <3>4, <3>5, CountsOfHalves DEF Fills, Flies, c
  <2> QED
    BY <2>1, <2>9, <2>10, <2>11
<1> QED
  BY <1>2, <1>3, ConstantTypes

\* The bookkeeping of a step: what it adds to the counters is what it did to
\* the halves.
LEMMA BecomesLedger ==
  ASSUME TypeOK, Ledger, NEW b, NEW n \in Nat, NEW s \in Nat, Becomes(b, n, s),
         Len(b.streams) \in Nat,
         Cardinality(Used(b.halves)) + s
           = Cardinality(Used(halves)) + Len(streams) - Len(b.streams),
         Async => /\ n = 0
                  /\ Cardinality(Flying(b.halves))
                       = Cardinality(Flying(halves)) + Len(streams) - Len(b.streams)
  PROVE  Ledger'
<1>1. /\ halves' = b.halves
      /\ counts' = [counts EXCEPT !.started = @ + Len(streams) - Len(b.streams),
                                  !.completed = @ + n, !.swaps = @ + s]
  BY DEF Becomes
<1>2. /\ counts'.started = counts.started + Len(streams) - Len(b.streams)
      /\ counts'.completed = counts.completed + n
      /\ counts'.swaps = counts.swaps + s
      /\ counts.started \in Nat /\ counts.completed \in Nat /\ counts.swaps \in Nat
  BY <1>1 DEF TypeOK
<1>3. Len(streams) \in Nat
  BY LenProperties DEF TypeOK
<1>4. /\ Cardinality(Used(b.halves)) \in Nat /\ Cardinality(Used(halves)) \in Nat
      /\ Cardinality(Flying(b.halves)) \in Nat /\ Cardinality(Flying(halves)) \in Nat
  BY CountsOfHalves
<1> DEFINE used == Cardinality(Used(halves))
           used2 == Cardinality(Used(b.halves))
           flying == Cardinality(Flying(halves))
           flying2 == Cardinality(Flying(b.halves))
           gone == Len(streams) - Len(b.streams)
<1>5. /\ counts.started = counts.swaps + used
      /\ Async => counts.started = counts.completed + flying
  BY DEF Ledger
<1>6. /\ gone \in Int /\ used2 + s = used + gone
      /\ Async => n = 0 /\ flying2 = flying + gone
      /\ counts'.started = counts.started + gone
      /\ used \in Nat /\ used2 \in Nat /\ flying \in Nat /\ flying2 \in Nat
  BY <1>2, <1>3, <1>4
<1> HIDE DEF used, used2, flying, flying2, gone
<1>7. counts'.started = counts'.swaps + used2
  <2>1. used2 + s = used + gone
    BY <1>6
  <2>2. used \in Nat /\ used2 \in Nat /\ gone \in Int
    BY <1>6
  <2>3. /\ counts'.swaps = counts.swaps + s /\ counts.swaps \in Nat
        /\ counts'.started = (counts.swaps + used) + gone
    BY <1>2, <1>5, <1>6
  <2>4. (counts.swaps + used) + gone = (counts.swaps + s) + used2
    <3> DEFINE p == counts.swaps
    <3>1. p \in Nat
      BY <2>3
    <3> HIDE DEF p
    <3>2. (p + used) + gone = (p + s) + used2
      BY <2>1, <2>2, <3>1
    <3> QED
      BY <3>2 DEF p
  <2> QED
    BY <2>3, <2>4
<1>8. ASSUME Async PROVE counts'.started = counts'.completed + flying2
  <2>1. n = 0 /\ flying2 = flying + gone
    BY <1>6, <1>8
  <2>2. flying \in Nat /\ flying2 \in Nat /\ gone \in Int
    BY <1>6
  <2>3. /\ counts'.completed = counts.completed + n /\ counts.completed \in Nat
        /\ counts'.started = (counts.completed + flying) + gone
    BY <1>2, <1>5, <1>6, <1>8
  <2> QED
    BY <2>1, <2>2, <2>3
<1> QED
  BY <1>1, <1>7, <1>8 DEF Ledger, used2, flying2

LEMMA LedgerInit == Init => Ledger
<1> SUFFICES ASSUME Init PROVE Ledger
  OBVIOUS
<1>1. Used(halves) = {} /\ Flying(halves) = {}
  BY DEF Init, Used, IdleHalves, Flying, InFlight, EmptyHalf
<1>2. counts.started = 0 /\ counts.swaps = 0 /\ counts.completed = 0
  BY DEF Init
<1> QED
  BY <1>1, <1>2, FS_EmptySet DEF Ledger

LEMMA LedgerNext ==
  TypeOK /\ AsyncInv /\ HoldInv /\ Ledger /\ [Next]_vars => Ledger'
<1> SUFFICES ASSUME TypeOK, AsyncInv, HoldInv, Ledger, [Next]_vars PROVE Ledger'
  OBVIOUS
<1>1. /\ Buffer \in BufferType /\ Buffer.halves = halves
      /\ Buffer.streams = streams /\ Shared(Buffer)
      /\ Async => Sound(Buffer)
      /\ Len(streams) \in Nat
  BY BufferTyped, LenProperties DEF HoldInv, AsyncInv, TypeOK
<1>2. /\ Cardinality(Used(halves)) \in Nat /\ Cardinality(Flying(halves)) \in Nat
      /\ counts.completed \in Nat
  BY CountsOfHalves DEF TypeOK
<1>3. ASSUME NEW t \in Tensors, IssueHint(t) PROVE Ledger'
  <2>1. /\ halves' = halves /\ counts'.started = counts.started
        /\ counts'.swaps = counts.swaps /\ counts'.completed = counts.completed
    BY <1>3 DEF IssueHint, TypeOK
  <2> QED
    BY <2>1 DEF Ledger
<1>4. ASSUME Tick PROVE Ledger'
  <2> DEFINE b == Aged(Buffer)
             c == Ticked(b, 0)
  <2>1. /\ b \in BufferType /\ b.streams = streams
        /\ Like(halves, b.halves) /\ b.token = Buffer.token
    BY <1>1, AgedType, AgedLike DEF Aged, BufferType
  <2>2. Used(b.halves) = Used(halves) /\ Flying(b.halves) = Flying(halves)
    BY <2>1 DEF Like, Used, IdleHalves, Flying
  <2>3. Async => Sound(b)
    BY <1>1, <2>1, LikeSound
  <2>4. /\ Fills(b, c) /\ c \in BufferType
        /\ Async => Flies(b, c) /\ Landing(b.halves, 0) = 0
    BY <2>1, <2>3, TickedCounts, TickedType
  <2>5. Becomes(c, Landing(b.halves, 0), 0)
    BY <1>4 DEF Tick
  <2> HIDE DEF b, c
  <2>6. Len(c.streams) \in Nat
    BY <2>4, LenProperties DEF BufferType
  <2>7. /\ Cardinality(Used(c.halves)) + 0
             = Cardinality(Used(halves)) + Len(streams) - Len(c.streams)
        /\ Async => Cardinality(Flying(c.halves))
             = Cardinality(Flying(halves)) + Len(streams) - Len(c.streams)
    <3>1. Started(b, c) = Len(streams) - Len(c.streams)
      BY <2>1 DEF Started
    <3>2. Cardinality(Used(c.halves)) \in Nat
      BY CountsOfHalves
    <3> QED
      BY <1>1, <1>2, <2>2, <2>4, <2>6, <3>1, <3>2 DEF Fills, Flies
  <2> QED
    BY <2>4, <2>5, <2>6, <2>7, LandingType, BecomesLedger
<1>5. ASSUME NEW d \in Demands, Access(d) PROVE Ledger'
  <2> DEFINE b == Ticked(Buffer, Hop)
             c == AfterAccess(b, d)
             s == IF Drains(b, d) THEN 1 ELSE 0
  <2>1. /\ b \in BufferType /\ Shared(b) /\ Fills(Buffer, b)
        /\ Async => Flies(Buffer, b) /\ Landing(halves, Hop) = 0
    BY <1>1, TickedType, TickedShared, TickedCounts, ConstantTypes
  <2>2. Async => Sound(b)
    BY <1>1, TickedGrows, ConstantTypes DEF Grows
  <2>3. /\ c \in BufferType
        /\ Cardinality(Used(c.halves)) + s
             = Cardinality(Used(b.halves)) + Started(b, c)
        /\ Async => Flies(b, c)
    BY <2>1, <2>2, AfterAccessCounts, AfterAccessType
  <2>4. Becomes(c, Landing(halves, Hop), s) /\ s \in Nat
    BY <1>5 DEF Access
  <2> HIDE DEF b, c, s
  <2>5. Len(c.streams) \in Nat /\ Len(b.streams) \in Nat
    BY <2>1, <2>3, LenProperties DEF BufferType
  <2>6. /\ Cardinality(Used(c.halves)) + s
             = Cardinality(Used(halves)) + Len(streams) - Len(c.streams)
        /\ Async => Cardinality(Flying(c.halves))
             = Cardinality(Flying(halves)) + Len(streams) - Len(c.streams)
    <3>1. /\ Started(Buffer, b) = Len(streams) - Len(b.streams)
          /\ Started(b, c) = Len(b.streams) - Len(c.streams)
      BY <1>1 DEF Started
    <3>2. /\ Cardinality(Used(b.halves)) = Cardinality(Used(halves)) + Started(Buffer, b)
          /\ Async => Cardinality(Flying(b.halves))
                        = Cardinality(Flying(halves)) + Started(Buffer, b)
          /\ Async => Cardinality(Flying(c.halves))
                        = Cardinality(Flying(b.halves)) + Started(b, c)
      BY <1>1, <2>1, <2>3 DEF Fills, Flies
    <3> DEFINE u0 == Cardinality(Used(halves))
               u1 == Cardinality(Used(b.halves))
               u2 == Cardinality(Used(c.halves))
               f0 == Cardinality(Flying(halves))
               f1 == Cardinality(Flying(b.halves))
               f2 == Cardinality(Flying(c.halves))
               l0 == Len(streams)
               l1 == Len(b.streams)
               l2 == Len(c.streams)
    <3>3. {u0, u1, u2, f0, f1, f2, l0, l1, l2} \subseteq Nat
      BY <1>1, <2>5, CountsOfHalves
    <3>4. /\ u1 = u0 + (l0 - l1) /\ u2 + s = u1 + (l1 - l2)
          /\ Async => f1 = f0 + (l0 - l1) /\ f2 = f1 + (l1 - l2)
      BY <2>3, <3>1, <3>2
    <3> HIDE DEF u0, u1, u2, f0, f1, f2, l0, l1, l2
    <3>5. u2 + s = u0 + l0 - l2 /\ (Async => f2 = f0 + l0 - l2)
      BY <2>4, <3>3, <3>4
    <3> QED
      BY <3>5 DEF u0, u2, f0, f2, l0, l2
  <2> QED
    BY <2>1, <2>4, <2>5, <2>6, LandingType, BecomesLedger
<1>6. ASSUME NEW token \in fills, FillComplete(token) PROVE Ledger'
  <2>1. CASE UNCHANGED <<halves, counts>>
    BY <2>1 DEF Ledger
  <2>2. ASSUME NEW i \in Halves, halves[i].pending,
               halves' = [halves EXCEPT ![i] =
                   [halves[i] EXCEPT !.pending = FALSE, !.done = 0,
                                     !.state = "Ready"]],
               counts' = [counts EXCEPT !.completed = @ + 1]
        PROVE  Ledger'
    <3>1. Async /\ InFlight(halves[i])
      BY <1>1, <2>2, ConstantTypes DEF Shared, Charged, Sound
    <3>2. halves[i] \in HalfType
      BY DEF TypeOK
    <3>3. /\ halves'[i].state = "Ready"
          /\ \A j \in Halves : j # i => halves'[j] = halves[j]
      BY <2>2, <3>2 DEF TypeOK, HalfType
    <3>4. Used(halves') = Used(halves)
      BY <2>2, <3>1, <3>3 DEF Used, IdleHalves, InFlight
    <3>5. Flying(halves') = Flying(halves) \ {i} /\ i \in Flying(halves)
      BY <2>2, <3>1, <3>3 DEF Flying, InFlight
    <3>6. Cardinality(Flying(halves')) = Cardinality(Flying(halves)) - 1
      BY <3>5, CountsOfHalves, FS_RemoveElement
    <3>7. /\ counts'.completed = counts.completed + 1
          /\ counts'.started = counts.started /\ counts'.swaps = counts.swaps
      BY <2>2 DEF TypeOK
    <3> QED
      BY <1>2, <3>1, <3>4, <3>6, <3>7 DEF Ledger
  <2> QED
    BY <1>6, <2>1, <2>2, FillCompleteStep
<1>7. CASE UNCHANGED vars
  BY <1>7 DEF Ledger, vars
<1> QED
  BY <1>3, <1>4, <1>5, <1>6, <1>7 DEF Next

\* In every mode each fill started has a half of its own, in use or swapped out
\* since.  With an asynchronous engine the engine moreover is through with all
\* but those in flight: no fill is overwritten, abandoned or counted twice.
THEOREM FillsAreAccountedFor == Spec => [](Ledger /\ (Async => FillsAccountedFor))
<1>1. /\ TypeOK /\ AsyncInv /\ HoldInv /\ Ledger
      /\ [Next]_vars
      => (TypeOK /\ AsyncInv /\ HoldInv /\ Ledger)'
  BY TypeNext, AsyncNext, HoldNext, LedgerNext
<1>2. Init => TypeOK /\ AsyncInv /\ HoldInv /\ Ledger
  BY TypeInit, AsyncInit, HoldInit, LedgerInit
<1>3. Ledger => (Async => FillsAccountedFor)
  BY DEF Ledger, FillsAccountedFor, Used, Flying
<1> QED
  BY <1>1, <1>2, <1>3, PTL DEF Spec

-----------------------------------------------------------------------------
(* What the memory backend relies on.                                       *)

\* Closed-form fills never reach the engine's callback.
QuietInv == ~Async => fills = {}

LhbInv == TypeOK /\ AsyncInv /\ HoldInv /\ QuietInv

LEMMA NoTokens ==
  ASSUME ~Async, NEW b \in BufferType
  PROVE  /\ \A t \in Nat : LaunchFills(b, t).token = b.token
         /\ \A t \in Nat : Ticked(b, t).token = b.token
         /\ \A d \in Demands : AfterAccess(b, d).token = b.token
         /\ Aged(b).token = b.token
<1>1. \A c \in BufferType : \A t : LaunchFills(c, t).token = c.token
  BY DEF LaunchFills, BufferType
<1>2. ASSUME NEW t \in Nat PROVE Ticked(b, t).token = b.token
  <2> DEFINE r == [b EXCEPT !.halves = RetireFills(b.halves, t)]
  <2>1. r \in BufferType /\ r.token = b.token
    BY RetireFillsType DEF BufferType
  <2>2. Ticked(b, t) = IF Enabled THEN LaunchFills(r, t) ELSE b
    BY DEF Ticked
  <2> HIDE DEF r
  <2> QED
    BY <1>1, <2>1, <2>2
<1>3. ASSUME NEW d \in Demands PROVE AfterAccess(b, d).token = b.token
  <2> DEFINE i == FindHalf(b.halves, d)
             h == Consume(b.halves[i], d)
             e == [b EXCEPT !.halves[i] = EmptyHalf]
  <2>1. CASE ~Enabled \/ Covering(b.halves, d) = {}
    BY <2>1 DEF AfterAccess
  <2>2. CASE Enabled /\ Covering(b.halves, d) # {}
    <3>1. i \in Halves
      BY <2>2, FindHalfCovers
    <3>2. e \in BufferType /\ \A x : [b EXCEPT !.halves[i] = x].token = b.token
      BY <3>1, EmptyHalfType DEF BufferType
    <3>3. \/ AfterAccess(b, d) = [b EXCEPT !.halves[i] = h]
          \/ AfterAccess(b, d) = LaunchFills(e, Hop)
          \/ AfterAccess(b, d) = [b EXCEPT !.halves[i] = [h EXCEPT !.state = "Serving"]]
      BY <2>2 DEF AfterAccess
    <3>4. e.token = b.token
      BY <3>2
    <3> HIDE DEF i, h, e
    <3> QED
      BY <1>1, <3>2, <3>3, <3>4
  <2> QED
    BY <2>1, <2>2, ConstantTypes
<1>4. Aged(b).token = b.token
  BY DEF Aged, BufferType
<1> QED
  BY <1>1, <1>2, <1>3, <1>4

LEMMA QuietNext == TypeOK /\ QuietInv /\ [Next]_vars => QuietInv'
<1> SUFFICES ASSUME TypeOK, QuietInv, [Next]_vars, ~Async PROVE fills' = {}
  BY DEF QuietInv
<1>1. /\ Buffer \in BufferType /\ Buffer.token = nextToken /\ nextToken \in Nat
      /\ fills = {}
  BY BufferTyped DEF QuietInv, TypeOK
<1>2. ASSUME NEW b, NEW n, NEW s, Becomes(b, n, s), b.token = nextToken
      PROVE  fills' = {}
  BY <1>1, <1>2 DEF Becomes
<1>3. ASSUME NEW t \in Tensors, IssueHint(t) PROVE fills' = {}
  BY <1>1, <1>3 DEF IssueHint
<1>4. ASSUME Tick PROVE fills' = {}
  <2> DEFINE b == Aged(Buffer)
  <2>1. b \in BufferType /\ b.token = nextToken
    BY <1>1, AgedType, NoTokens
  <2>2. Becomes(Ticked(b, 0), Landing(b.halves, 0), 0)
    BY <1>4 DEF Tick
  <2> HIDE DEF b
  <2>3. Ticked(b, 0).token = nextToken
    BY <2>1, NoTokens
  <2> QED
    BY <1>2, <2>2, <2>3
<1>5. ASSUME NEW d \in Demands, Access(d) PROVE fills' = {}
  <2> DEFINE b == Ticked(Buffer, Hop)
             c == AfterAccess(b, d)
             s == IF Drains(b, d) THEN 1 ELSE 0
  <2>1. b \in BufferType /\ b.token = nextToken
    BY <1>1, TickedType, NoTokens, ConstantTypes
  <2>2. c.token = nextToken
    BY <2>1, NoTokens
  <2>3. Becomes(c, Landing(halves, Hop), s)
    BY <1>5 DEF Access
  <2> HIDE DEF b, c, s
  <2> QED
    BY <1>2, <2>2, <2>3
<1>6. CASE UNCHANGED vars
  BY <1>1, <1>6 DEF vars
<1> QED
  BY <1>1, <1>3, <1>4, <1>5, <1>6 DEF Next

LEMMA LhbInvInit == Init => LhbInv
<1>1. Init => QuietInv
  BY DEF Init, QuietInv
<1> QED
  BY <1>1, TypeInit, AsyncInit, HoldInit DEF LhbInv

LEMMA LhbInvNext == LhbInv /\ [Next]_vars => LhbInv'
BY TypeNext, AsyncNext, HoldNext, QuietNext DEF LhbInv

\* An access answers with a time; it answers "wait" only with a half whose
\* callback is outstanding and whose range covers it; and any other answer
\* costs at least the SRAM or the array.
LEMMA AccessAnswers ==
  ASSUME LhbInv, NEW d \in Demands, Access(d)
  PROVE  /\ last' \in AnswerType
         /\ ReadyTime(last') \in Nat
         /\ last'.waiting =>
              /\ last'.outcome # "Hit" /\ last'.half \in Halves
              /\ halves'[last'.half].pending /\ Covers(halves'[last'.half], d)
         /\ ~last'.waiting =>
              ReadyTime(last') >= SramLatency \/ ReadyTime(last') >= ReadLatency
<1> DEFINE b == Ticked(Buffer, Hop)
           i == FindHalf(b.halves, d)
           h == Consume(b.halves[i], d)
<1>1. b \in BufferType /\ Shared(b)
  BY BufferTyped, TickedType, TickedShared, ConstantTypes DEF LhbInv, HoldInv
<1>2. last' = Result(b, d) /\ halves' = AfterAccess(b, d).halves
  BY DEF Access, Becomes
<1>3. last' \in AnswerType
  BY <1>1, <1>2, ResultType
<1>4. last'.stall \in Nat /\ ReadyTime(last') \in Nat /\ ReadyTime(last') >= last'.stall
  <2>1. last'.stall \in Nat
    BY <1>3 DEF AnswerType
  <2> QED
    BY <2>1, ConstantTypes DEF ReadyTime
<1>5. last'.waiting =>
        /\ Enabled /\ Covering(b.halves, d) # {} /\ last'.half = i
        /\ last'.outcome = "MissLate"
        /\ InFlight(b.halves[i]) /\ b.halves[i].pending
  BY <1>2 DEF Result, Answer
<1>6. ASSUME last'.waiting
      PROVE  halves'[i].pending /\ Covers(halves'[i], d) /\ i \in Halves
  <2>1. Enabled /\ Covering(b.halves, d) # {} /\ InFlight(b.halves[i])
        /\ b.halves[i].pending
    BY <1>5, <1>6
  <2>2. /\ i \in Halves /\ Keeps(b.halves[i], h)
        /\ h.state = b.halves[i].state /\ h.pending = b.halves[i].pending
        /\ \/ InFlight(h) /\ h.pending /\ AfterAccess(b, d) = [b EXCEPT !.halves[i] = h]
           \/ ~(InFlight(h) /\ h.pending)
    BY <1>1, <2>1, AccessCases DEF Shared
  <2>3. AfterAccess(b, d) = [b EXCEPT !.halves[i] = h] /\ h.pending
    BY <2>1, <2>2 DEF InFlight
  <2>4. b.halves \in [Halves -> HalfType]
    BY <1>1 DEF BufferType
  <2>5. [b EXCEPT !.halves[i] = h].halves = [b.halves EXCEPT ![i] = h]
    BY <1>1 DEF BufferType
  <2>6. Covers(b.halves[i], d)
    BY <2>1, FindHalfCovers DEF Covering
  <2> HIDE DEF b, i, h
  <2>7. halves'[i] = h
    BY <1>2, <2>2, <2>3, <2>4, <2>5
  <2> QED
    BY <2>2, <2>3, <2>6, <2>7 DEF Covers, Keeps
<1>7. ASSUME ~last'.waiting
      PROVE  ReadyTime(last') >= SramLatency \/ ReadyTime(last') >= ReadLatency
  <2>1. \/ last'.outcome \in {"Hit", "MissLate"}
        \/ last'.outcome \in {"MissAbsent", "Bypass"} /\ last'.stall = DemandLatency(d)
    BY <1>2 DEF Result, Answer
  <2>2. CASE last'.outcome \in {"Hit", "MissLate"}
    BY <1>4, <1>7, <2>2, ConstantTypes DEF ReadyTime
  <2>3. CASE last'.stall = DemandLatency(d)
    <3>1. \A x, y \in Nat : x * y \in Nat
      OBVIOUS
    <3>2. d.size * LineTime \in Nat
      BY <3>1, LhbConstants, ConstantTypes
    <3> QED
      BY <1>4, <2>3, <3>2, ConstantTypes DEF DemandLatency
  <2> QED
    BY <2>1, <2>2, <2>3
<1> QED
  BY <1>3, <1>4, <1>5, <1>6, <1>7

\* Until the callback comes, every other call leaves a waiting half waiting on
\* the same range.
LEMMA WaitingHalfKept ==
  ASSUME LhbInv, NEW i \in Halves, halves[i].pending,
         Tick \/ (\E d \in Demands : Access(d)) \/ (\E t \in Tensors : IssueHint(t))
         \/ UNCHANGED halves
  PROVE  /\ halves'[i].pending
         /\ halves'[i].base = halves[i].base /\ halves'[i].span = halves[i].span
<1>1. halves[i].state # "Idle"
  <2>1. Async
    BY ConstantTypes DEF LhbInv, HoldInv, Shared, Charged, Buffer
  <2> QED
    BY <2>1 DEF LhbInv, AsyncInv, Sound, InFlight, Buffer
<1>2. ASSUME Steady(i)
      PROVE  /\ halves'[i].pending
             /\ halves'[i].base = halves[i].base /\ halves'[i].span = halves[i].span
  BY <1>1, <1>2 DEF Steady, Keeps, DrainedNow
<1>3. CASE Tick
  BY <1>2, <1>3, TickSteady DEF LhbInv
<1>4. ASSUME NEW d \in Demands, Access(d) PROVE Steady(i)
  BY <1>4, AccessSteady DEF LhbInv
<1>5. ASSUME NEW t \in Tensors, IssueHint(t) PROVE halves' = halves
  BY <1>5 DEF IssueHint
<1> QED
  BY <1>2, <1>3, <1>4, <1>5

\* A callback always finds its half, and touches no other.
LEMMA CallbackFindsHalf ==
  ASSUME LhbInv, NEW token \in fills, FillComplete(token)
  PROVE  \E i \in Halves :
           /\ halves[i].pending /\ ~halves'[i].pending
           /\ \A j \in Halves : j # i => halves'[j] = halves[j]
<1>1. Async
  BY ConstantTypes DEF LhbInv, QuietInv
<1>2. \E i \in Halves : halves[i].pending /\ halves[i].token = token
  BY <1>1 DEF LhbInv, AsyncInv, Awaited
<1>3. PICK i \in Halves :
        /\ halves[i].pending
        /\ halves' = [halves EXCEPT ![i] =
             [halves[i] EXCEPT !.pending = FALSE, !.done = 0, !.state = "Ready"]]
  BY <1>2, FillCompleteStep DEF LhbInv
<1>4. ~halves'[i].pending /\ \A j \in Halves : j # i => halves'[j] = halves[j]
  BY <1>3 DEF LhbInv, TypeOK, HalfType
<1> QED
  BY <1>3, <1>4
=============================================================================
