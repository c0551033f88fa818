--------------------------- MODULE PlacementProofs ---------------------------
(***************************************************************************)
(* Proofs about router, scheduler and trace classifier together, for all    *)
(* regions, models, traces and requests: the scheduler keeps within its     *)
(* throttle, hints no earlier and no later than it should and in the order  *)
(* of the layout; every byte of a tensor is decoded to the place the tensor *)
(* was laid out in; what is laid out is the whole model, in the scheduler   *)
(* and in the generated trace alike; and every byte of a trace is decoded   *)
(* to a place of its own, when the router loads the map made from it.       *)
(***************************************************************************)
EXTENDS Placement, AddressRouterProofs

\* What PrefetchSchedulerProofs shows, for the scheduler of this system.
SP == INSTANCE PrefetchSchedulerProofs WITH cfg <- model

-----------------------------------------------------------------------------
(* The two instances of the scheduler are one.                              *)

LEMMA SameNumbers ==
  /\ \A S : Scheduler!Cardinality(S) = SP!Cardinality(S)
  /\ \A f, N : Scheduler!Sums(f, N) = SP!Sums(f, N)
  /\ \A S, key : Scheduler!Ranked(S, key) = SP!Ranked(S, key)
<1>1. \A S : Scheduler!Cardinality(S) = SP!Cardinality(S)
  BY Zenon DEF Scheduler!Cardinality, SP!Cardinality
<1>2. \A f, N : Scheduler!Sums(f, N) = SP!Sums(f, N)
  BY DEF Scheduler!Sums, SP!Sums
<1>3. \A S, key : Scheduler!Ranked(S, key) = SP!Ranked(S, key)
  <2> SUFFICES ASSUME NEW S, NEW key PROVE Scheduler!Ranked(S, key) = SP!Ranked(S, key)
    OBVIOUS
  <2> DEFINE before(k) == {j \in S : key[j] < key[k] \/ (key[j] = key[k] /\ j < k)}
             one(i) == CHOOSE k \in S : Scheduler!Cardinality(before(k)) = i - 1
             other(i) == CHOOSE k \in S : SP!Cardinality(before(k)) = i - 1
             N == Scheduler!Cardinality(S)
             M == SP!Cardinality(S)
  <2>1. \A k : Scheduler!Cardinality(before(k)) = SP!Cardinality(before(k))
    BY <1>1
  <2>2. N = M
    BY <1>1
  <2>3. Scheduler!Ranked(S, key) = [i \in 1 .. N |-> one(i)]
    BY DEF Scheduler!Ranked
  <2>4. SP!Ranked(S, key) = [i \in 1 .. M |-> other(i)]
    BY DEF SP!Ranked
  <2> HIDE DEF before, N, M
  <2>5. \A i : one(i) = other(i)
    BY <2>1
  <2> HIDE DEF one, other
  <2> QED
    BY <2>2, <2>3, <2>4, <2>5
<1> QED
  BY <1>1, <1>2, <1>3

LEMMA SameSizes ==
  ASSUME NEW c
  PROVE  /\ Scheduler!ValidModel(c) <=> SP!ValidModel(c)
         /\ Scheduler!Shapes(c) = SP!Shapes(c)
<1>1. Scheduler!ValidModel(c) <=> SP!ValidModel(c)
  BY DEF Scheduler!ValidModel, SP!ValidModel
<1>2. /\ Scheduler!SharedKvBytes(c) = SP!SharedKvBytes(c)
      /\ Scheduler!GeneratedKvBytes(c) = SP!GeneratedKvBytes(c)
      /\ Scheduler!ActivationBytes(c) = SP!ActivationBytes(c)
  BY DEF Scheduler!SharedKvBytes, SP!SharedKvBytes, Scheduler!GeneratedKvBytes,
     SP!GeneratedKvBytes, Scheduler!KvBytesPerToken, SP!KvBytesPerToken,
     Scheduler!SharedTokens, SP!SharedTokens, Scheduler!GeneratedTokens,
     SP!GeneratedTokens, Scheduler!ActivationBytes, SP!ActivationBytes
<1>3. \A n : Scheduler!InHbf(n) = SP!InHbf(n) /\ Scheduler!InHbm(n) = SP!InHbm(n)
  BY DEF Scheduler!InHbf, SP!InHbf, Scheduler!InHbm, SP!InHbm
<1>4. Scheduler!LayerWeights(c) = SP!LayerWeights(c)
  BY <1>3 DEF Scheduler!LayerWeights, SP!LayerWeights
<1>5. Scheduler!Shapes(c) = SP!Shapes(c)
  BY <1>2, <1>3, <1>4 DEF Scheduler!Shapes, SP!Shapes
<1> QED
  BY <1>1, <1>5

LEMMA SameLayout ==
  /\ \A c : Scheduler!Tensors(c) = SP!Tensors(c)
  /\ \A ts : Scheduler!HintOrder(ts) = SP!HintOrder(ts)
<1>1. \A c, v : Scheduler!AlignUp(c, v) = SP!AlignUp(c, v)
  BY DEF Scheduler!AlignUp, SP!AlignUp
<1>2. \A c, shapes, region :
        Scheduler!CursorAt(c, shapes, region) = SP!CursorAt(c, shapes, region)
  BY <1>1 DEF Scheduler!CursorAt, SP!CursorAt
<1>3. \A shapes : Scheduler!Streamed(shapes) = SP!Streamed(shapes)
  BY SameNumbers DEF Scheduler!Streamed, SP!Streamed
<1>4. \A c, needed : Scheduler!HintAt(c, needed) = SP!HintAt(c, needed)
  BY DEF Scheduler!HintAt, SP!HintAt
<1>5. \A c : Scheduler!Tensors(c) = SP!Tensors(c)
  BY <1>2, <1>3, <1>4, SameSizes DEF Scheduler!Tensors, SP!Tensors
<1>6. \A ts : Scheduler!OfHbf(ts) = SP!OfHbf(ts)
  BY DEF Scheduler!OfHbf, SP!OfHbf
<1>7. \A ts : Scheduler!HintOrder(ts) = SP!HintOrder(ts)
  BY <1>6, SameNumbers DEF Scheduler!HintOrder, SP!HintOrder
<1> QED
  BY <1>5, <1>7

LEMMA SameSteps ==
  /\ Scheduler!Init <=> SP!Init
  /\ Scheduler!Next <=> SP!Next
  /\ Scheduler!vars = schedulerVars /\ SP!vars = schedulerVars
<1>1. Scheduler!Init <=> SP!Init
  BY SameSizes, SameLayout DEF Scheduler!Init, SP!Init
<1>2. \A k : Scheduler!Queued(k) <=> SP!Queued(k)
  BY DEF Scheduler!Queued, SP!Queued
<1>3. \A k, t : Scheduler!Due(k, t) <=> SP!Due(k, t)
  BY DEF Scheduler!Due, SP!Due
<1>4. \A k : Scheduler!Throttled(k) <=> SP!Throttled(k)
  BY <1>2, SameNumbers DEF Scheduler!Throttled, SP!Throttled
<1>5. \A t : Scheduler!Stop(t) = SP!Stop(t)
  BY <1>3, <1>4 DEF Scheduler!Stop, SP!Stop
<1>6. \A from, to : Scheduler!Hints(from, to) = SP!Hints(from, to)
  BY <1>2, SameNumbers DEF Scheduler!Hints, SP!Hints
<1>7. \A t : Scheduler!Tick(t) <=> SP!Tick(t)
  BY <1>3, <1>5, <1>6 DEF Scheduler!Tick, SP!Tick
<1>8. Scheduler!Next <=> SP!Next
  BY <1>7 DEF Scheduler!Next, SP!Next, Scheduler!Cycle, SP!Cycle, Scheduler!Rewind,
     SP!Rewind, Scheduler!BufferTakes, SP!BufferTakes
<1>9. Scheduler!vars = schedulerVars /\ SP!vars = schedulerVars
  BY DEF Scheduler!vars, SP!vars, schedulerVars
<1> QED
  BY <1>1, <1>8, <1>9

LEMMA SameProperties ==
  /\ SP!TypeOK => Scheduler!TypeOK
  /\ SP!WithinThrottle => WithinThrottle
  /\ SP!HintedALeadAhead => HintedALeadAhead
  /\ SP!StreamsInOrder => StreamsInOrder
<1>1. SP!TypeOK => Scheduler!TypeOK
  BY SameSizes DEF Scheduler!TypeOK, SP!TypeOK
<1>2. SP!WithinThrottle => WithinThrottle
  BY DEF WithinThrottle, Scheduler!WithinThrottle, SP!WithinThrottle
<1>3. SP!HintedALeadAhead => HintedALeadAhead
  BY DEF HintedALeadAhead, Scheduler!HintedALeadAhead, SP!HintedALeadAhead
<1>4. SP!StreamsInOrder => StreamsInOrder
  BY SameNumbers DEF StreamsInOrder, Scheduler!StreamsInOrder, SP!StreamsInOrder
<1> QED
  BY <1>1, <1>2, <1>3, <1>4
-----------------------------------------------------------------------------
(* The invariant of the system.                                             *)

\* The router's and the scheduler's own invariants, and what ties the two: one
\* pair of bases, and no buffers but those of a map.
SystemInv ==
  /\ IInv
  /\ SP!SchedulerInv /\ SP!WithinThrottle /\ SP!DueIsOut /\ SP!BreaksByRewinds
  /\ SameBases
  /\ ~cfg.mapped => allocs = <<>>

LEMMA ModelsTyped ==
  ASSUME NEW m \in Models
  PROVE  SP!ModelType(m)
<1>1. {m.layers, m.hidden, m.heads, m.kvHeads, m.mlp, m.vocab, m.headDim, m.dtype,
       m.cacheHeads, m.kvDtype, m.inLen, m.outLen, m.batch, m.seqLen, m.gpus, m.tp,
       m.bandwidth, m.align, m.lead, m.maxHints, m.hbmBase, m.hbfBase, m.cycle,
       m.horizon, m.passes} \subseteq Nat
  BY PlacementConstants
<1> QED
  BY <1>1 DEF SP!ModelType

LEMMA SystemInitInv == SystemInit => SystemInv
<1> SUFFICES ASSUME SystemInit PROVE SystemInv
  OBVIOUS
<1>1. Init /\ SameBases /\ SP!Init
  BY SameSteps DEF SystemInit
<1>2. IInv
  BY <1>1, InitIInv
<1>3. model \in Models
  BY <1>1 DEF SP!Init
<1>4. SP!SchedulerInv
  BY <1>1, <1>3, ModelsTyped, SP!InitInv
<1>5. SP!BreaksByRewinds
  BY <1>1, SP!BreaksInit
<1>6. SP!WithinThrottle
  BY <1>1, <1>4, SP!InvFacts DEF SP!Init, SP!WithinThrottle
<1>7. SP!DueIsOut
  BY <1>1 DEF SP!Init, SP!DueIsOut
<1>8. ~cfg.mapped => allocs = <<>>
  BY <1>1 DEF Init
<1> QED
  BY <1>1, <1>2, <1>4, <1>5, <1>6, <1>7, <1>8 DEF SystemInv

\* A step of the system is one of each part, or none.
LEMMA StepOfBoth ==
  ASSUME [SystemNext]_systemVars
  PROVE  /\ [Next]_vars
         /\ [SP!Next]_(SP!vars)
         /\ UNCHANGED <<cfg, allocs, model>>
<1>1. \/ Next /\ UNCHANGED schedulerVars
      \/ SP!Next /\ UNCHANGED vars
      \/ UNCHANGED vars /\ UNCHANGED schedulerVars
  <2>1. CASE SystemNext
    BY <2>1, SameSteps DEF SystemNext
  <2>2. CASE UNCHANGED systemVars
    BY <2>2 DEF systemVars
  <2> QED
    BY <2>1, <2>2
<1>2. ASSUME Next PROVE UNCHANGED <<cfg, allocs>>
  BY <1>2 DEF Next, Route, RouteUnmapped, RouteReadOnly, RouteFull, RouteDelivered,
     Routed, SetBackends, ResetStats
<1>3. ASSUME SP!Next PROVE UNCHANGED model
  BY <1>3 DEF SP!Next, SP!Cycle, SP!Tick, SP!Rewind, SP!BufferTakes
<1>4. UNCHANGED vars => UNCHANGED <<cfg, allocs>>
  BY DEF vars
<1>5. UNCHANGED schedulerVars => UNCHANGED model /\ UNCHANGED SP!vars
  BY DEF schedulerVars, SP!vars
<1> QED
  BY <1>1, <1>2, <1>3, <1>4, <1>5

LEMMA SystemNextInv == SystemInv /\ [SystemNext]_systemVars => SystemInv'
<1> SUFFICES ASSUME SystemInv, [SystemNext]_systemVars PROVE SystemInv'
  OBVIOUS
<1>1. [Next]_vars /\ [SP!Next]_(SP!vars) /\ UNCHANGED <<cfg, allocs, model>>
  BY StepOfBoth
<1>2. IInv'
  BY <1>1, NextIInv DEF SystemInv
<1>3. SP!SchedulerInv'
  BY <1>1, SP!NextInv DEF SystemInv
<1>4. SP!WithinThrottle'
  BY <1>1, SP!ThrottleNext DEF SystemInv
<1>5. SP!DueIsOut'
  BY <1>1, SP!DueNext DEF SystemInv
<1>6. SP!BreaksByRewinds'
  BY <1>1, SP!BreaksNext DEF SystemInv
<1>7. SameBases' /\ (~cfg.mapped => allocs = <<>>)'
  BY <1>1 DEF SystemInv, SameBases
<1> QED
  BY <1>2, <1>3, <1>4, <1>5, <1>6, <1>7 DEF SystemInv

LEMMA SystemInvariant == SystemSpec => []SystemInv
BY SystemInitInv, SystemNextInv, PTL DEF SystemSpec
-----------------------------------------------------------------------------
(* What follows for the scheduler.                                          *)

\* Router and scheduler keep their types, and hints_issued is the scheduler's
\* place in its order.
THEOREM SystemTypes == SystemSpec => []SystemTypeOK
<1>1. SystemInv => SystemTypeOK
  <2> SUFFICES ASSUME SystemInv PROVE SystemTypeOK
    OBVIOUS
  <2>1. TypeOK
    BY DEF SystemInv, IInv, Typed, Quiet, TypeOK, StatsType, ToldType
  <2>2. Scheduler!TypeOK
    BY SameProperties, SP!InvTypes DEF SystemInv
  <2> QED
    BY <2>1, <2>2 DEF SystemTypeOK
<1> QED
  BY <1>1, SystemInvariant, PTL

\* max_outstanding_hints bounds the queue of the buffer, however many hints come
\* due in one call of tick().
THEOREM ThrottleHolds == SystemSpec => []WithinThrottle
<1>1. SystemInv => WithinThrottle
  BY SameProperties DEF SystemInv
<1> QED
  BY <1>1, SystemInvariant, PTL

\* A hint goes out when its tensor is needed within the lead, no earlier and, by
\* a tick that is not throttled, no later.
THEOREM HintsLeadNeed == SystemSpec => []HintedALeadAhead
<1>1. SystemInv => HintedALeadAhead
  BY SameProperties, SP!DueMeansNear DEF SystemInv
<1> QED
  BY <1>1, SystemInvariant, PTL

\* The hints queued follow one another as the tensors do in HBF, save where a
\* rewind cut in.
THEOREM StreamFollowsLayout == SystemSpec => []StreamsInOrder
<1>1. SystemInv => StreamsInOrder
  BY SameProperties, SP!BreaksMeanOrder DEF SystemInv
<1> QED
  BY <1>1, SystemInvariant, PTL

-----------------------------------------------------------------------------
(* What follows for the addresses.                                          *)

RegionOf(r) == IF r = "Hbf" THEN cfg.hbf ELSE cfg.hbm

OwnedBy(k, addr) ==
  tensors[k].global <= addr /\ addr < tensors[k].global + tensors[k].size

\* The tensors as PrefetchSchedulerProofs has them, on the router's bases.
LEMMA TensorsLie ==
  ASSUME SystemInv
  PROVE  /\ Len(tensors) \in Nat /\ DOMAIN tensors = 1 .. Len(tensors)
         /\ \A k \in DOMAIN tensors :
              /\ tensors[k].region \in {"Hbf", "Hbm"} /\ tensors[k].size \in Nat
              /\ tensors[k].local \in Nat /\ tensors[k].global \in Nat
              /\ tensors[k].global = RegionOf(tensors[k].region).base + tensors[k].local
              /\ tensors[k].local % model.align = 0
         /\ \A j, k \in DOMAIN tensors :
              j < k /\ tensors[j].region = tensors[k].region =>
                tensors[j].local + tensors[j].size <= tensors[k].local
<1>1. SP!LaidOut(model, tensors)
  BY DEF SystemInv, SP!SchedulerInv
<1>2. tensors \in Seq(SP!TensorType)
  BY <1>1 DEF SP!LaidOut
<1>3. /\ Len(tensors) \in Nat /\ DOMAIN tensors = 1 .. Len(tensors)
      /\ \A k \in DOMAIN tensors : tensors[k] \in SP!TensorType
  BY <1>2
<1>4. \A r : SP!Base(model, r) = RegionOf(r).base
  BY DEF SystemInv, SameBases, SP!Base, RegionOf
<1>5. ASSUME NEW k \in DOMAIN tensors
      PROVE  /\ tensors[k].region \in {"Hbf", "Hbm"} /\ tensors[k].size \in Nat
             /\ tensors[k].local \in Nat /\ tensors[k].global \in Nat
             /\ tensors[k].global = RegionOf(tensors[k].region).base + tensors[k].local
             /\ tensors[k].local % model.align = 0
  <2>1. tensors[k] \in SP!TensorType
    BY <1>3
  <2>2. /\ tensors[k].region \in {"Hbf", "Hbm"} /\ tensors[k].size \in Nat
        /\ tensors[k].local \in Nat /\ tensors[k].global \in Nat
    BY <2>1 DEF SP!TensorType
  <2>3. /\ tensors[k].global = SP!Base(model, tensors[k].region) + tensors[k].local
        /\ tensors[k].local % model.align = 0
    BY <1>1, <1>3 DEF SP!LaidOut
  <2> QED
    BY <1>4, <2>2, <2>3
<1>6. \A j, k \in DOMAIN tensors :
        j < k /\ tensors[j].region = tensors[k].region =>
          tensors[j].local + tensors[j].size <= tensors[k].local
  BY <1>1, <1>3 DEF SP!LaidOut
<1> QED
  BY <1>3, <1>5, <1>6

LEMMA RegionBounds ==
  ASSUME SystemInv, NEW r \in {"Hbf", "Hbm"}
  PROVE  /\ RegionOf(r).base \in Nat /\ RegionOf(r).size \in Nat
         /\ End(RegionOf(r)) = RegionOf(r).base + RegionOf(r).size
         /\ End(RegionOf(r)) \in Word
<1>1. cfg \in Configs /\ Valid(cfg)
  BY DEF SystemInv, IInv, Typed, Quiet
<1>2. /\ cfg.hbm.base \in Nat /\ cfg.hbm.size \in Nat
      /\ cfg.hbf.base \in Nat /\ cfg.hbf.size \in Nat
  BY <1>1, ConfigType, AddressMapConstants DEF Word
<1>3. /\ End(cfg.hbm) = cfg.hbm.base + cfg.hbm.size /\ End(cfg.hbm) \in Word
      /\ End(cfg.hbf) = cfg.hbf.base + cfg.hbf.size /\ End(cfg.hbf) \in Word
  BY <1>1, RegionsApart
<1> QED
  BY <1>2, <1>3 DEF RegionOf

\* Every byte of a tensor that fits lies in the region of its memory, where the
\* tensor's local address says.
LEMMA ByteInRegion ==
  ASSUME SystemInv, Fits("Hbm"), Fits("Hbf"),
         NEW k \in DOMAIN tensors, NEW i \in 0 .. tensors[k].size - 1
  PROVE  LET addr == tensors[k].global + i
             region == RegionOf(tensors[k].region)
         IN  /\ addr \in Word /\ OwnedBy(k, addr)
             /\ Within(region, addr) /\ addr - region.base = tensors[k].local + i
<1> DEFINE r == tensors[k].region
           base == RegionOf(r).base
           size == RegionOf(r).size
           local == tensors[k].local
           extent == tensors[k].size
           addr == tensors[k].global + i
<1>1. /\ r \in {"Hbf", "Hbm"} /\ local \in Nat /\ extent \in Nat
      /\ tensors[k].global \in Nat /\ tensors[k].global = base + local
  BY TensorsLie
<1>2. /\ base \in Nat /\ size \in Nat
      /\ End(RegionOf(r)) = base + size /\ End(RegionOf(r)) \in Word
  BY <1>1, RegionBounds
<1>3. local + extent <= size
  BY <1>1 DEF Fits, RegionOf
<1>4. i \in Nat /\ i < extent
  BY <1>1
<1>5. OwnedBy(k, addr)
  <2>1. tensors[k].global <= addr /\ addr < tensors[k].global + extent
    BY <1>1, <1>4
  <2> QED
    BY <2>1 DEF OwnedBy
<1>6. base + size <= MaxAddr /\ MaxAddr \in Nat
  BY <1>2, AddressMapConstants DEF Word
<1>7. addr = base + (local + i)
  <2>1. addr = (base + local) + i
    BY <1>1
  <2> HIDE DEF base, local, addr
  <2> QED
    BY <1>1, <1>2, <1>4, <2>1
<1> HIDE DEF base, size, local, extent, addr
<1>8. /\ addr \in 0 .. MaxAddr /\ base <= addr /\ addr < base + size
      /\ addr - base = local + i
  BY <1>1, <1>2, <1>3, <1>4, <1>6, <1>7
<1>9. Within(RegionOf(r), addr)
  BY <1>2, <1>8 DEF Within, base
<1> QED
  BY <1>5, <1>8, <1>9 DEF Word, base, local, addr

\* No address lies in two tensors.
LEMMA OneTensor ==
  ASSUME SystemInv, Fits("Hbm"), Fits("Hbf"), NEW addr \in Nat,
         NEW j \in DOMAIN tensors, NEW k \in DOMAIN tensors,
         OwnedBy(j, addr), OwnedBy(k, addr)
  PROVE  j = k
<1>1. ASSUME NEW m \in DOMAIN tensors, OwnedBy(m, addr)
      PROVE  /\ addr - tensors[m].global \in 0 .. tensors[m].size - 1
             /\ tensors[m].global + (addr - tensors[m].global) = addr
  <2>1. tensors[m].global \in Nat /\ tensors[m].size \in Nat
    BY TensorsLie
  <2> QED
    BY <1>1, <2>1 DEF OwnedBy
<1>2. ASSUME NEW m \in DOMAIN tensors, OwnedBy(m, addr)
      PROVE  addr \in Word /\ Within(RegionOf(tensors[m].region), addr)
  BY <1>1, <1>2, ByteInRegion
<1>3. tensors[j].region = tensors[k].region
  <2>1. ~ (Within(cfg.hbm, addr) /\ Within(cfg.hbf, addr))
    BY <1>2, RegionsApart DEF SystemInv, IInv, Typed, Quiet
  <2>2. /\ Within(RegionOf(tensors[j].region), addr)
        /\ Within(RegionOf(tensors[k].region), addr)
    BY <1>2
  <2>3. tensors[j].region \in {"Hbf", "Hbm"} /\ tensors[k].region \in {"Hbf", "Hbm"}
    BY TensorsLie
  <2> QED
    BY <2>1, <2>2, <2>3 DEF RegionOf
<1>4. ASSUME NEW m \in DOMAIN tensors, NEW n \in DOMAIN tensors, m < n,
             tensors[m].region = tensors[n].region, OwnedBy(m, addr), OwnedBy(n, addr)
      PROVE  FALSE
  <2> DEFINE base == RegionOf(tensors[m].region).base
             a == tensors[m].local
             b == tensors[n].local
             s == tensors[m].size
  <2>1. /\ a \in Nat /\ b \in Nat /\ s \in Nat /\ tensors[m].region \in {"Hbf", "Hbm"}
        /\ tensors[m].global = base + a /\ tensors[n].global = base + b
    BY <1>4, TensorsLie
  <2>2. base \in Nat
    BY <2>1, RegionBounds
  <2>3. a + s <= b
    BY <1>4, TensorsLie
  <2>4. base + b <= addr /\ addr < (base + a) + s
    BY <1>4, <2>1 DEF OwnedBy
  <2> HIDE DEF base, a, b, s
  <2> QED
    BY <2>1, <2>2, <2>3, <2>4
<1>5. j \in Nat /\ k \in Nat
  BY TensorsLie
<1> QED
  BY <1>3, <1>4, <1>5

\* So each byte has its tensor.
LEMMA TensorOfByte ==
  ASSUME SystemInv, Fits("Hbm"), Fits("Hbf"), NEW addr \in Nat,
         NEW k \in DOMAIN tensors, OwnedBy(k, addr)
  PROVE  Scheduler!TensorAt(addr) = {k}
<1>1. /\ DOMAIN tensors = 1 .. Len(tensors) /\ Len(tensors) \in Nat
  BY TensorsLie
<1>2. Scheduler!TensorAt(addr) =
        {m \in DOMAIN tensors : OwnedBy(m, addr) /\ \A j \in 1 .. m - 1 : ~OwnedBy(j, addr)}
  BY DEF Scheduler!TensorAt, OwnedBy
<1>3. ASSUME NEW j \in 1 .. k - 1 PROVE ~OwnedBy(j, addr)
  <2>1. j \in DOMAIN tensors /\ j # k
    BY <1>1
  <2> QED
    BY <2>1, OneTensor
<1>4. ASSUME NEW m \in DOMAIN tensors, OwnedBy(m, addr) PROVE m = k
  BY <1>4, OneTensor
<1> QED
  BY <1>2, <1>3, <1>4

\* An address is decoded to the region it lies in.
LEMMA DecodeByRegion ==
  ASSUME SystemInv, ~cfg.mapped, NEW addr \in Word, NEW r \in {"Hbf", "Hbm"},
         Within(RegionOf(r), addr)
  PROVE  /\ Decode(cfg, allocs, addr) = r
         /\ LocalAddr(cfg, allocs, addr, r) = addr - RegionOf(r).base
<1>1. allocs = <<>>
  BY DEF SystemInv
<1>2. ~ (Within(cfg.hbm, addr) /\ Within(cfg.hbf, addr))
  BY RegionsApart DEF SystemInv, IInv, Typed, Quiet
<1>3. CASE r = "Hbm"
  BY <1>1, <1>2, <1>3 DEF RegionOf, Decode, LocalAddr
<1>4. CASE r = "Hbf"
  BY <1>1, <1>2, <1>4 DEF RegionOf, Decode, LocalAddr
<1> QED
  BY <1>3, <1>4

\* "the addresses produced here must fall in the regions that router decodes":
\* where the model fits, the router decodes every byte of every tensor to the
\* place the scheduler laid it out in, and it is that tensor's byte alone.
THEOREM LayoutIsDecoded == SystemSpec => []LayoutDecodes
<1>1. SystemInv => LayoutDecodes
  <2> SUFFICES ASSUME SystemInv, ~cfg.mapped, Fits("Hbm"), Fits("Hbf"),
                      NEW k \in DOMAIN tensors
               PROVE
                 /\ tensors[k].local % model.align = 0
                 /\ \A i \in 0 .. tensors[k].size - 1 :
                      LET addr == tensors[k].global + i
                          r == tensors[k].region
                      IN  /\ Scheduler!TensorAt(addr) = {k}
                          /\ Decode(cfg, allocs, addr) = r
                          /\ LocalAddr(cfg, allocs, addr, r) = tensors[k].local + i
    BY DEF LayoutDecodes
  <2>1. tensors[k].local % model.align = 0 /\ tensors[k].region \in {"Hbf", "Hbm"}
    BY TensorsLie
  <2>2. ASSUME NEW i \in 0 .. tensors[k].size - 1
        PROVE  LET addr == tensors[k].global + i
                   r == tensors[k].region
               IN  /\ Scheduler!TensorAt(addr) = {k}
                   /\ Decode(cfg, allocs, addr) = r
                   /\ LocalAddr(cfg, allocs, addr, r) = tensors[k].local + i
    <3> DEFINE addr == tensors[k].global + i
               r == tensors[k].region
    <3>1. /\ addr \in Word /\ OwnedBy(k, addr)
          /\ Within(RegionOf(r), addr) /\ addr - RegionOf(r).base = tensors[k].local + i
      BY ByteInRegion
    <3>2. addr \in Nat
      BY <3>1, AddressMapConstants DEF Word
    <3> HIDE DEF addr
    <3>3. Scheduler!TensorAt(addr) = {k}
      BY <3>1, <3>2, TensorOfByte
    <3>4. Decode(cfg, allocs, addr) = r /\ LocalAddr(cfg, allocs, addr, r) = tensors[k].local + i
      BY <2>1, <3>1, DecodeByRegion
    <3> QED
      BY <3>3, <3>4 DEF addr
  <2> QED
    BY <2>1, <2>2
<1> QED
  BY <1>1, SystemInvariant, PTL

-----------------------------------------------------------------------------
(* Sorting and rounding, as for the scheduler.                              *)

LEMMA AscendingRanked ==
  ASSUME NEW S
  PROVE  Ascending(S) = SP!Ranked(S, [k \in S |-> 0]) /\ Cardinality(S) = SP!Cardinality(S)
<1> DEFINE zero == [k \in S |-> 0]
           below(k) == {q \in S : q < k}
           before(k) == {j \in S : zero[j] < zero[k] \/ (zero[j] = zero[k] /\ j < k)}
           one(i) == CHOOSE k \in S : Cardinality(below(k)) = i - 1
           other(i) == CHOOSE k \in S : SP!Cardinality(before(k)) = i - 1
           N == Cardinality(S)
           M == SP!Cardinality(S)
<1>1. \A T : Cardinality(T) = SP!Cardinality(T)
  BY Zenon DEF Cardinality, SP!Cardinality
<1>2. N = M
  BY <1>1
<1>3. ASSUME NEW k \in S PROVE below(k) = before(k)
  OBVIOUS
<1>4. Ascending(S) = [i \in 1 .. N |-> one(i)]
  BY DEF Ascending
<1>5. SP!Ranked(S, zero) = [i \in 1 .. M |-> other(i)]
  BY DEF SP!Ranked
<1> HIDE DEF below, before, N, M, zero
<1>6. \A k \in S : Cardinality(below(k)) = SP!Cardinality(before(k))
  BY <1>1, <1>3
<1>7. \A i : one(i) = other(i)
  BY <1>6
<1> HIDE DEF one, other
<1>8. Ascending(S) = SP!Ranked(S, zero)
  BY <1>2, <1>4, <1>5, <1>7
<1> QED
  BY <1>2, <1>8 DEF zero, N, M

LEMMA AscendingOf ==
  ASSUME NEW S \in SUBSET Nat, IsFiniteSet(S)
  PROVE  /\ Cardinality(S) \in Nat
         /\ Ascending(S) \in [1 .. Cardinality(S) -> S]
         /\ \A i, j \in 1 .. Cardinality(S) : i < j => Ascending(S)[i] < Ascending(S)[j]
         /\ \A p \in S : \E i \in 1 .. Cardinality(S) : Ascending(S)[i] = p
<1> DEFINE zero == [k \in S |-> 0]
           N == Cardinality(S)
           r == Ascending(S)
<1>1. SP!IsFiniteSet(S)
  BY Zenon DEF IsFiniteSet, SP!IsFiniteSet
<1>2. \A k \in S : zero[k] \in Int
  OBVIOUS
<1>3. r = SP!Ranked(S, zero) /\ N = SP!Cardinality(S)
  BY AscendingRanked
<1> HIDE DEF zero
<1>4. /\ N \in Nat /\ r \in [1 .. N -> S]
      /\ \A i, j \in 1 .. N : i < j => SP!Earlier(zero, r[i], r[j])
      /\ \A k \in S : \E i \in 1 .. N : r[i] = k
  BY <1>1, <1>2, <1>3, SP!RankedOf
<1>5. ASSUME NEW i \in 1 .. N, NEW j \in 1 .. N, i < j PROVE r[i] < r[j]
  <2>1. r[i] \in S /\ r[j] \in S
    BY <1>4
  <2> HIDE DEF r
  <2>2. zero[r[i]] = 0 /\ zero[r[j]] = 0
    BY <2>1 DEF zero
  <2> QED
    BY <1>4, <1>5, <2>2 DEF SP!Earlier
<1> QED
  BY <1>4, <1>5

-----------------------------------------------------------------------------
(* The ranges of a trace.                                                   *)

Ranges == [start : Nat, end : Nat, read : Nat, write : Nat]

\* Pages with a width, as TraceConstants has them.
IsTrace(pages, o) ==
  /\ o.page \in Nat \ {0}
  /\ DOMAIN pages \in SUBSET Nat /\ IsFiniteSet(DOMAIN pages)
  /\ \A pg \in DOMAIN pages : pages[pg].read \in Nat /\ pages[pg].write \in Nat

PageRange(pages, o, pg) ==
  [start |-> pg * o.page, end |-> (pg + 1) * o.page,
   read |-> pages[pg].read, write |-> pages[pg].write]

Joinable(ranges, page, o) ==
  /\ ranges # <<>>
  /\ page.start - Last(ranges).end <= o.gap
  /\ ~(o.split /\ (page.write > 0 \/ Last(ranges).write > 0))

Grown(r, page) ==
  [r EXCEPT !.end = page.end, !.read = @ + page.read, !.write = @ + page.write]

\* One turn of the loop of merge_pages().
Merge(pages, o, ranges, pg) ==
  IF Joinable(ranges, PageRange(pages, o, pg), o)
  THEN Append(Front(ranges), Grown(Last(ranges), PageRange(pages, o, pg)))
  ELSE Append(ranges, PageRange(pages, o, pg))

LEMMA PageRangeOf ==
  ASSUME NEW pages, NEW o, IsTrace(pages, o), NEW pg \in DOMAIN pages
  PROVE  /\ PageRange(pages, o, pg) \in Ranges
         /\ PageRange(pages, o, pg).start < PageRange(pages, o, pg).end
<1> DEFINE d == o.page
           s == pg * d
           e == (pg + 1) * d
<1>1. pg \in Nat /\ d \in Nat /\ d # 0 /\ pages[pg].read \in Nat /\ pages[pg].write \in Nat
  BY DEF IsTrace
<1>2. s \in Nat /\ e \in Nat /\ s < e
  <2> HIDE DEF d
  <2>1. s \in Nat
    BY <1>1
  <2>2. e = s + d
    BY <1>1
  <2> QED
    BY <1>1, <2>1, <2>2
<1>3. PageRange(pages, o, pg)
        = [start |-> s, end |-> e, read |-> pages[pg].read, write |-> pages[pg].write]
  BY DEF PageRange
<1> HIDE DEF s, e
<1> QED
  BY <1>1, <1>2, <1>3 DEF Ranges

\* Pages do not overlap.
LEMMA PagesApart ==
  ASSUME NEW pages, NEW o, IsTrace(pages, o),
         NEW p \in DOMAIN pages, NEW q \in DOMAIN pages, p < q
  PROVE  PageRange(pages, o, p).end <= PageRange(pages, o, q).start
<1> DEFINE d == o.page
           e == q - (p + 1)
<1>1. p \in Nat /\ q \in Nat /\ d \in Nat
  BY DEF IsTrace
<1> HIDE DEF d
<1>2. e \in Nat /\ q = p + 1 + e
  BY <1>1
<1> HIDE DEF e
<1>3. q * d = (p + 1) * d + e * d /\ e * d \in Nat /\ (p + 1) * d \in Nat
  BY <1>1, <1>2
<1> QED
  BY <1>1, <1>3 DEF PageRange, d

LEMMA GrownOf ==
  ASSUME NEW r \in Ranges, NEW p \in Ranges
  PROVE  /\ Grown(r, p) \in Ranges
         /\ Grown(r, p).start = r.start /\ Grown(r, p).end = p.end
         /\ Grown(r, p).write = r.write + p.write
<1> DEFINE e == p.end
           n == r.read + p.read
           w == r.write + p.write
<1>1. e \in Nat /\ n \in Nat /\ w \in Nat
  BY DEF Ranges
<1>2. Grown(r, p) = [r EXCEPT !.end = e, !.read = n, !.write = w]
  BY DEF Ranges, Grown
<1> HIDE DEF e, n, w
<1>3. [r EXCEPT !.end = e, !.read = n, !.write = w] \in Ranges
  BY <1>1 DEF Ranges
<1>4. /\ Grown(r, p).start = r.start /\ Grown(r, p).end = p.end
      /\ Grown(r, p).write = r.write + p.write
  BY DEF Grown, Ranges
<1> QED
  BY <1>2, <1>3, <1>4

\* What a turn of the loop does, by the places of the ranges.
LEMMA MergeOf ==
  ASSUME NEW pages, NEW o, IsTrace(pages, o), NEW pg \in DOMAIN pages,
         NEW rs \in Seq(Ranges)
  PROVE  LET page == PageRange(pages, o, pg)
             new == Merge(pages, o, rs, pg)
             L == Len(rs)
         IN  /\ new \in Seq(Ranges)
             /\ \/ /\ L > 0 /\ Len(new) = L
                   /\ \A i \in 1 .. L - 1 : new[i] = rs[i]
                   /\ new[L].start = rs[L].start /\ new[L].end = page.end
                   /\ new[L].write = rs[L].write + page.write
                \/ /\ Len(new) = L + 1
                   /\ \A i \in 1 .. L : new[i] = rs[i]
                   /\ new[L + 1] = page
<1> DEFINE page == PageRange(pages, o, pg)
           new == Merge(pages, o, rs, pg)
           L == Len(rs)
<1>1. page \in Ranges /\ L \in Nat
  BY PageRangeOf
<1>2. CASE Joinable(rs, page, o)
  <2> DEFINE g == Grown(rs[L], page)
             f == SubSeq(rs, 1, L - 1)
  <2>1. rs # <<>> /\ L > 0
    BY <1>1, <1>2 DEF Joinable
  <2>2. rs[L] \in Ranges
    BY <1>1, <2>1, ElementOfSeq
  <2>3. g \in Ranges /\ g.start = rs[L].start /\ g.end = page.end
        /\ g.write = rs[L].write + page.write
    BY <1>1, <2>2, GrownOf
  <2>4. f \in Seq(Ranges) /\ Len(f) = L - 1 /\ \A i \in 1 .. L - 1 : f[i] = rs[i]
    <3> HIDE DEF L
    <3>1. /\ f \in Seq(Ranges)
          /\ Len(f) = IF 1 <= L - 1 THEN L - 1 - 1 + 1 ELSE 0
          /\ \A i \in 1 .. L - 1 - 1 + 1 : f[i] = rs[1 + i - 1]
      <4>1. 1 \in Int /\ L - 1 \in Int
        BY <1>1
      <4>2. \A i \in 1 .. L - 1 : rs[i] \in Ranges
        BY <1>1 DEF L
      <4> QED
        BY <4>1, <4>2, SubSeqProperties
    <3> HIDE DEF f
    <3> QED
      BY <1>1, <2>1, <3>1
  <2>5. new = Append(f, g)
    BY <1>2 DEF Merge, Last, Front
  <2> HIDE DEF f, g, new, page
  <2>6. new \in Seq(Ranges) /\ Len(new) = L /\ new[L] = g
        /\ \A i \in 1 .. L - 1 : new[i] = f[i]
    BY <1>1, <2>1, <2>3, <2>4, <2>5
  <2> QED
    BY <2>1, <2>3, <2>4, <2>6 DEF new, page
<1>3. CASE ~Joinable(rs, page, o)
  <2>1. new = Append(rs, page)
    BY <1>3 DEF Merge
  <2> HIDE DEF new, page
  <2>2. new \in Seq(Ranges) /\ Len(new) = L + 1 /\ new[L + 1] = page
        /\ \A i \in 1 .. L : new[i] = rs[i]
    BY <1>1, <2>1
  <2> QED
    BY <2>2 DEF new, page
<1> QED
  BY <1>2, <1>3

\* A range holds the page, and is written if it is.
HeldIn(ranges, page) ==
  \E i \in 1 .. Len(ranges) :
    /\ ranges[i].start <= page.start /\ page.end <= ranges[i].end
    /\ page.write > 0 => ranges[i].write > 0

\* What the first n pages make: ranges in order that do not overlap, the last one
\* ending with page n; each of the pages lies in one, which is written if it is.
Covered(pages, o, rs, n) ==
  LET sorted == Ascending(DOMAIN pages)
      page(m) == PageRange(pages, o, sorted[m])
  IN  /\ rs \in Seq(Ranges)
      /\ n = 0 => rs = <<>>
      /\ n > 0 => rs # <<>> /\ rs[Len(rs)].end = page(n).end
      /\ \A i \in 1 .. Len(rs) : rs[i].start < rs[i].end
      /\ \A i, j \in 1 .. Len(rs) : i < j => rs[i].end <= rs[j].start
      /\ \A m \in 1 .. n : HeldIn(rs, page(m))

LEMMA CoveredNext ==
  ASSUME NEW pages, NEW o, IsTrace(pages, o),
         NEW n \in 1 .. Cardinality(DOMAIN pages),
         NEW rs, Covered(pages, o, rs, n - 1)
  PROVE  Covered(pages, o, Merge(pages, o, rs, Ascending(DOMAIN pages)[n]), n)
<1> DEFINE S == DOMAIN pages
           sorted == Ascending(S)
           N == Cardinality(S)
           pr(m) == PageRange(pages, o, sorted[m])
           page == pr(n)
           new == Merge(pages, o, rs, sorted[n])
           L == Len(rs)
<1>1. /\ N \in Nat /\ sorted \in [1 .. N -> S]
      /\ \A i, j \in 1 .. N : i < j => sorted[i] < sorted[j]
  BY AscendingOf DEF IsTrace
<1>2. /\ rs \in Seq(Ranges) /\ L \in Nat
      /\ n - 1 = 0 => rs = <<>>
      /\ n - 1 > 0 => rs # <<>> /\ rs[L].end = pr(n - 1).end
      /\ \A i \in 1 .. L : rs[i].start < rs[i].end
      /\ \A i, j \in 1 .. L : i < j => rs[i].end <= rs[j].start
      /\ \A m \in 1 .. n - 1 : HeldIn(rs, pr(m))
  BY LenProperties DEF Covered
<1>3. sorted[n] \in S /\ page \in Ranges /\ page.start < page.end
  BY <1>1, PageRangeOf
<1>4. /\ new \in Seq(Ranges)
      /\ \/ /\ L > 0 /\ Len(new) = L
            /\ \A i \in 1 .. L - 1 : new[i] = rs[i]
            /\ new[L].start = rs[L].start /\ new[L].end = page.end
            /\ new[L].write = rs[L].write + page.write
         \/ /\ Len(new) = L + 1
            /\ \A i \in 1 .. L : new[i] = rs[i]
            /\ new[L + 1] = page
  BY <1>2, <1>3, MergeOf
<1>5. ASSUME L > 0 PROVE rs[L].end <= page.start
  <2>1. n - 1 # 0
    BY <1>2, <1>5
  <2>2. n - 1 \in 1 .. N /\ n - 1 < n
    BY <1>1, <2>1
  <2>3. sorted[n - 1] \in S /\ sorted[n - 1] < sorted[n]
    BY <1>1, <2>2
  <2>4. pr(n - 1).end <= page.start
    BY <1>3, <2>3, PagesApart
  <2> QED
    BY <1>2, <2>2, <2>4
<1>6. \A i \in 1 .. L : /\ rs[i].start \in Nat /\ rs[i].end \in Nat /\ rs[i].write \in Nat
  <2>1. ASSUME NEW i \in 1 .. L PROVE rs[i] \in Ranges
    BY <1>2, ElementOfSeq
  <2> QED
    BY <2>1 DEF Ranges
<1>7. page.start \in Nat /\ page.end \in Nat /\ page.write \in Nat
  BY <1>3 DEF Ranges
<1>8. ASSUME NEW i \in 1 .. L PROVE rs[i].end <= page.start
  <2> DEFINE s == rs[L].start
             e == rs[L].end
             f == rs[i].end
             q == page.start
  <2>1. L \in 1 .. L /\ i \in Nat /\ i <= L /\ L > 0
    BY <1>2
  <2>2. e <= q
    BY <1>5, <2>1
  <2>3. CASE i = L
    BY <2>2, <2>3
  <2>4. CASE i # L
    <3>1. f <= s
      BY <1>2, <2>1, <2>4
    <3>2. s < e
      BY <1>2, <2>1
    <3>3. s \in Nat /\ e \in Nat /\ f \in Nat /\ q \in Nat
      BY <1>6, <1>7, <2>1
    <3> HIDE DEF s, e, f, q
    <3>4. f <= q
      BY <2>2, <3>1, <3>2, <3>3
    <3> QED
      BY <3>4 DEF f, q
  <2> QED
    BY <2>3, <2>4
<1>9. \A i \in 1 .. Len(new) : new[i].end \in Nat /\ new[i].write \in Nat
  <2>1. ASSUME NEW i \in 1 .. Len(new) PROVE new[i] \in Ranges
    BY <1>4, ElementOfSeq
  <2> QED
    BY <2>1 DEF Ranges
<1>10. ASSUME NEW m \in 1 .. n
       PROVE  /\ pr(m).start \in Nat /\ pr(m).end \in Nat /\ pr(m).write \in Nat
  <2>1. sorted[m] \in S
    BY <1>1
  <2>2. pr(m) \in Ranges
    BY <2>1, PageRangeOf
  <2> QED
    BY <2>2 DEF Ranges
<1>11. SUFFICES Covered(pages, o, new, n)
  OBVIOUS
<1> HIDE DEF new
<1>12. SUFFICES /\ new # <<>> /\ new[Len(new)].end = page.end
                /\ \A i \in 1 .. Len(new) : new[i].start < new[i].end
                /\ \A i, j \in 1 .. Len(new) : i < j => new[i].end <= new[j].start
                /\ \A m \in 1 .. n : HeldIn(new, pr(m))
  <2>1. n # 0 /\ new \in Seq(Ranges)
    BY <1>1, <1>4
  <2> QED
    BY <2>1 DEF Covered
<1> HIDE DEF L, N, sorted, S
<1>13. CASE /\ L > 0 /\ Len(new) = L
            /\ \A i \in 1 .. L - 1 : new[i] = rs[i]
            /\ new[L].start = rs[L].start /\ new[L].end = page.end
            /\ new[L].write = rs[L].write + page.write
  <2>1. \A i \in 1 .. L : i # L => i \in 1 .. L - 1
    BY <1>2
  <2>2. L \in 1 .. L /\ rs[L].end <= page.start
    BY <1>2, <1>8, <1>13
  <2>3. /\ \A i \in 1 .. L : new[i].start = rs[i].start /\ rs[i].end <= new[i].end
                           /\ rs[i].write <= new[i].write
        /\ \A i \in 1 .. L : i # L => new[i].end = rs[i].end
    <3>1. ASSUME NEW i \in 1 .. L, i # L PROVE new[i] = rs[i]
      BY <1>13, <2>1, <3>1
    <3>2. new[L].start = rs[L].start /\ rs[L].end <= new[L].end /\ rs[L].write <= new[L].write
      BY <1>3, <1>6, <1>7, <1>13, <2>2
    <3> QED
      BY <1>6, <3>1, <3>2
  <2>4. \A i \in 1 .. L : new[i].start < new[i].end
    <3> SUFFICES ASSUME NEW i \in 1 .. L PROVE new[i].start < new[i].end
      OBVIOUS
    <3>1. CASE i = L
      <4> DEFINE s == rs[L].start
                 e == rs[L].end
                 f == page.start
                 l == page.end
      <4>1. s \in Nat /\ e \in Nat /\ f \in Nat /\ l \in Nat
        BY <1>6, <1>7, <2>2
      <4>2. s < e /\ e <= f /\ f < l
        BY <1>2, <1>3, <2>2
      <4>3. new[L].start = s /\ new[L].end = l
        BY <1>13
      <4> HIDE DEF s, e, f, l
      <4>4. s < l
        BY <4>1, <4>2
      <4> QED
        BY <3>1, <4>3, <4>4
    <3>2. CASE i # L
      BY <1>2, <2>3, <3>2
    <3> QED
      BY <3>1, <3>2
  <2>5. \A i, j \in 1 .. L : i < j => new[i].end <= new[j].start
    <3> SUFFICES ASSUME NEW i \in 1 .. L, NEW j \in 1 .. L, i < j
                 PROVE  new[i].end <= new[j].start
      OBVIOUS
    <3>1. i # L
      BY <1>2
    <3> QED
      BY <1>2, <2>3, <3>1
  <2>6. ASSUME NEW m \in 1 .. n
        PROVE  \E i \in 1 .. L : /\ new[i].start <= pr(m).start /\ pr(m).end <= new[i].end
                                 /\ pr(m).write > 0 => new[i].write > 0
    <3>1. CASE m = n
      <4> DEFINE s == rs[L].start
                 e == rs[L].end
                 f == page.start
                 l == page.end
      <4>1. s \in Nat /\ e \in Nat /\ f \in Nat /\ l \in Nat
        BY <1>6, <1>7, <2>2
      <4>2. s < e /\ e <= f
        BY <1>2, <2>2
      <4>3. new[L].start = s /\ new[L].end = l
        BY <1>13
      <4>4. new[L].start <= page.start /\ page.end <= new[L].end
        <5> HIDE DEF s, e, f, l
        <5>1. s <= f /\ l <= l
          BY <4>1, <4>2
        <5> QED
          BY <4>3, <5>1 DEF f, l
      <4>5. page.write > 0 => new[L].write > 0
        BY <1>6, <1>7, <1>13, <2>2
      <4> QED
        BY <2>2, <3>1, <4>4, <4>5
    <3>2. CASE m # n
      <4>1. m \in 1 .. n - 1
        BY <3>2
      <4>2. PICK i \in 1 .. L : /\ rs[i].start <= pr(m).start /\ pr(m).end <= rs[i].end
                                /\ pr(m).write > 0 => rs[i].write > 0
        <5>1. HeldIn(rs, pr(m))
          BY <1>2, <4>1
        <5> QED
          BY <5>1 DEF HeldIn, L
      <4>3. /\ new[i].start = rs[i].start /\ rs[i].end <= new[i].end
            /\ rs[i].write <= new[i].write
        BY <2>3
      <4>4. /\ pr(m).end \in Nat /\ rs[i].end \in Nat /\ new[i].end \in Nat
            /\ rs[i].write \in Nat /\ new[i].write \in Nat
        BY <1>6, <1>9, <1>10, <1>13
      <4>5. pr(m).end <= new[i].end
        BY <4>2, <4>3, <4>4
      <4>6. pr(m).write > 0 => new[i].write > 0
        BY <4>2, <4>3, <4>4
      <4> QED
        BY <4>2, <4>3, <4>5, <4>6
    <3> QED
      BY <3>1, <3>2
  <2>7. new # <<>>
    BY <1>13
  <2> QED
    BY <1>13, <2>4, <2>5, <2>6, <2>7 DEF HeldIn
<1>14. CASE /\ Len(new) = L + 1
            /\ \A i \in 1 .. L : new[i] = rs[i]
            /\ new[L + 1] = page
  <2>1. ASSUME NEW i \in 1 .. L + 1 PROVE i \in 1 .. L \/ i = L + 1
    BY <1>2
  <2>2. L + 1 \in 1 .. L + 1 /\ \A i \in 1 .. L : i \in 1 .. L + 1
    BY <1>2
  <2>3. \A i \in 1 .. L + 1 : new[i].start < new[i].end
    BY <1>2, <1>3, <1>14, <2>1
  <2>4. \A i, j \in 1 .. L + 1 : i < j => new[i].end <= new[j].start
    <3> SUFFICES ASSUME NEW i \in 1 .. L + 1, NEW j \in 1 .. L + 1, i < j
                 PROVE  new[i].end <= new[j].start
      OBVIOUS
    <3>1. i \in 1 .. L
      BY <1>2
    <3>2. CASE j = L + 1
      BY <1>8, <1>14, <3>1, <3>2
    <3>3. CASE j \in 1 .. L
      BY <1>2, <1>14, <3>1, <3>3
    <3> QED
      BY <2>1, <3>2, <3>3
  <2>5. ASSUME NEW m \in 1 .. n
        PROVE  \E i \in 1 .. L + 1 : /\ new[i].start <= pr(m).start /\ pr(m).end <= new[i].end
                                     /\ pr(m).write > 0 => new[i].write > 0
    <3>1. CASE m = n
      BY <1>7, <1>14, <2>2, <3>1
    <3>2. CASE m # n
      <4>1. m \in 1 .. n - 1
        BY <3>2
      <4>2. PICK i \in 1 .. L : /\ rs[i].start <= pr(m).start /\ pr(m).end <= rs[i].end
                                /\ pr(m).write > 0 => rs[i].write > 0
        <5>1. HeldIn(rs, pr(m))
          BY <1>2, <4>1
        <5> QED
          BY <5>1 DEF HeldIn, L
      <4> QED
        BY <1>14, <2>2, <4>2
    <3> QED
      BY <3>1, <3>2
  <2>6. new # <<>> /\ new[Len(new)].end = page.end
    BY <1>2, <1>14
  <2> QED
    BY <1>14, <2>3, <2>4, <2>5, <2>6 DEF HeldIn
<1> QED
  BY <1>4, <1>13, <1>14

LEMMA MergePagesCovers ==
  ASSUME NEW pages, NEW o, IsTrace(pages, o)
  PROVE  Covered(pages, o, MergePages(pages, o), Cardinality(DOMAIN pages))
<1> DEFINE N == Cardinality(DOMAIN pages)
           sorted == Ascending(DOMAIN pages)
           V == Seq(Ranges)
           G == [n \in 1 .. N |-> [rs \in V |-> Merge(pages, o, rs, sorted[n])]]
           D(s) == s = [n \in 0 .. N |->
                          IF n = 0 THEN <<>> ELSE Merge(pages, o, s[n - 1], sorted[n])]
<1>1. N \in Nat /\ sorted \in [1 .. N -> DOMAIN pages]
  BY AscendingOf DEF IsTrace
<1>2. ASSUME NEW n \in 1 .. N, NEW rs \in V PROVE Merge(pages, o, rs, sorted[n]) \in V
  <2>1. sorted[n] \in DOMAIN pages
    BY <1>1
  <2> QED
    BY <2>1, MergeOf
<1>3. <<>> \in V
  OBVIOUS
<1> DEFINE m == MergePages(pages, o)
<1>4. m = (CHOOSE s : D(s))[N]
  BY DEF MergePages, Merge, Joinable, Grown, PageRange
<1> HIDE DEF V, N, sorted, m
<1>5. G \in Steps(V, N)
  BY <1>2 DEF Steps
<1>6. PICK s : Unfolds(s, V, N, <<>>, G)
  BY <1>1, <1>3, <1>5, RecursionIn
<1>7. s \in [0 .. N -> V] /\ s[0] = <<>> /\ \A n \in 1 .. N : s[n] = G[n][s[n - 1]]
  BY <1>6 DEF Unfolds
<1>8. ASSUME NEW n \in 1 .. N PROVE s[n] = Merge(pages, o, s[n - 1], sorted[n])
  <2>1. n - 1 \in 0 .. N
    BY <1>1
  <2>2. s[n - 1] \in V
    BY <1>7, <2>1
  <2> QED
    BY <1>7, <2>2
<1> HIDE DEF G
<1>9. D(s)
  <2>1. ASSUME NEW n \in 0 .. N
        PROVE  s[n] = IF n = 0 THEN <<>> ELSE Merge(pages, o, s[n - 1], sorted[n])
    <3>1. n # 0 => n \in 1 .. N
      OBVIOUS
    <3> QED
      BY <1>7, <1>8, <3>1
  <2> QED
    BY <1>7, <2>1
<1> DEFINE t == CHOOSE u : D(u)
<1>10. D(t)
  BY <1>9
<1> HIDE DEF t
<1>11. DOMAIN t = 0 .. N
       /\ \A n \in 0 .. N :
            t[n] = IF n = 0 THEN <<>> ELSE Merge(pages, o, t[n - 1], sorted[n])
  BY <1>10, Zenon
<1> HIDE DEF D
<1>12. t[0] = <<>> /\ \A n \in 1 .. N : t[n] = Merge(pages, o, t[n - 1], sorted[n])
  <2>1. 0 \in 0 .. N /\ \A n \in 1 .. N : n \in 0 .. N /\ n # 0
    BY <1>1
  <2> QED
    BY <1>11, <2>1
<1> DEFINE T == {n \in 0 .. N : ~ Covered(pages, o, t[n], n)}
<1>13. 0 \notin T
  <2>1. Len(<<>>) = 0 /\ <<>> \in Seq(Ranges)
    OBVIOUS
  <2>2. Covered(pages, o, <<>>, 0)
    BY <2>1 DEF Covered
  <2> QED
    BY <1>12, <2>2
<1>14. ASSUME NEW n \in 1 .. N, n - 1 \notin T PROVE n \notin T
  <2>1. n - 1 \in 0 .. N
    BY <1>1
  <2>2. Covered(pages, o, t[n - 1], n - 1)
    BY <1>14, <2>1
  <2>3. Covered(pages, o, t[n], n)
    BY <1>12, <2>2, CoveredNext DEF N, sorted
  <2> QED
    BY <2>3
<1>15. T \in SUBSET (0 .. N)
  OBVIOUS
<1> HIDE DEF T
<1>16. T = {}
  BY <1>1, <1>13, <1>14, <1>15, NoFailure
<1>17. N \in 0 .. N
  BY <1>1
<1>18. Covered(pages, o, t[N], N)
  BY <1>16, <1>17, Zenon DEF T
<1>19. m = t[N]
  BY <1>4 DEF t
<1> QED
  BY <1>18, <1>19 DEF N, m

-----------------------------------------------------------------------------
(* The places of the ranges.                                                *)

LEMMA BumpOf ==
  ASSUME NEW o, o.align \in Nat \ {0}, NEW cur \in [Memories -> Nat],
         NEW region \in Memories, NEW size \in Nat
  PROVE  /\ Bump(cur, region, size, o) \in [Memories -> Nat]
         /\ \A m \in Memories : Bump(cur, region, size, o)[m] >= cur[m]
         /\ Bump(cur, region, size, o)[region] >= cur[region] + size
<1> DEFINE d == o.align
           v == cur[region] + size
           w == v + d - 1
           q == w \div d
           u == q * d
<1>1. d \in Nat /\ d # 0 /\ v \in Nat /\ w \in Nat /\ cur[region] \in Nat
  OBVIOUS
<1>2. q \in Nat /\ w % d \in 0 .. d - 1 /\ w = d * q + (w % d)
  BY <1>1, SP!Divided
<1>3. Bump(cur, region, size, o) = [cur EXCEPT ![region] = u]
  BY DEF Bump
<1>4. u \in Nat /\ u >= v
  <2> DEFINE r == w % d
             x == d * q
  <2>1. r \in 0 .. d - 1 /\ w = x + r /\ x \in Nat
    <3>1. x \in Nat
      <4> HIDE DEF d, q
      <4> QED
        BY <1>1, <1>2
    <3> QED
      BY <1>2, <3>1
  <2>2. x = u
    <3> HIDE DEF d, q
    <3> QED
      BY <1>1, <1>2
  <2>3. w = v + d - 1
    OBVIOUS
  <2> HIDE DEF r, x, w, v, d, u
  <2> QED
    BY <1>1, <2>1, <2>2, <2>3
<1>5. u >= cur[region] + size /\ u >= cur[region]
  <2> HIDE DEF u
  <2> QED
    BY <1>1, <1>4
<1> HIDE DEF u
<1> QED
  BY <1>3, <1>4, <1>5

MemoryOf(rs, i, o) == IF ToHbf(rs, i, o) THEN "Hbf" ELSE "Hbm"

SizeOf(rs, i) == rs[i].end - rs[i].start

\* The offsets bump() leads to.
Offsets(rs, o, cur) ==
  /\ cur \in [0 .. Len(rs) -> [Memories -> Nat]]
  /\ \A n \in 1 .. Len(rs) :
       /\ cur[n][MemoryOf(rs, n, o)] >= cur[n - 1][MemoryOf(rs, n, o)] + SizeOf(rs, n)
       /\ \A m \in Memories : cur[n][m] >= cur[n - 1][m]

\* The entries for ranges at such offsets.
Entries(rs, o, base, cur) ==
  [i \in 1 .. Len(rs) |->
     [orig |-> rs[i].start, size |-> SizeOf(rs, i), region |-> MemoryOf(rs, i, o),
      h3First |-> FALSE, h3 |-> base[MemoryOf(rs, i, o)] + cur[i - 1][MemoryOf(rs, i, o)]]]

LEMMA OffsetsOf ==
  ASSUME NEW pages, NEW o, o.align \in Nat \ {0}, NEW base,
         MergePages(pages, o) \in Seq(Ranges),
         \A i \in 1 .. Len(MergePages(pages, o)) : SizeOf(MergePages(pages, o), i) \in Nat
  PROVE  \E cur : /\ Offsets(MergePages(pages, o), o, cur)
                  /\ Classified(pages, o, base) = Entries(MergePages(pages, o), o, base, cur)
<1> DEFINE rs == MergePages(pages, o)
           L == Len(rs)
           V == [Memories -> Nat]
           zero == [m \in Memories |-> 0]
           step(c, n) == Bump(c, MemoryOf(rs, n, o), SizeOf(rs, n), o)
           G == [n \in 1 .. L |-> [c \in V |-> step(c, n)]]
           D(s) == s = [n \in 0 .. L |-> IF n = 0 THEN zero ELSE step(s[n - 1], n)]
<1>1. L \in Nat
  BY LenProperties
<1>2. \A n : MemoryOf(rs, n, o) \in Memories
  BY DEF MemoryOf, Memories
<1>3. ASSUME NEW n \in 1 .. L, NEW c \in V
      PROVE  /\ step(c, n) \in V
             /\ \A m \in Memories : step(c, n)[m] >= c[m]
             /\ step(c, n)[MemoryOf(rs, n, o)] >= c[MemoryOf(rs, n, o)] + SizeOf(rs, n)
  BY <1>2, BumpOf
<1>4. zero \in V
  OBVIOUS
<1> DEFINE t == CHOOSE u : D(u)
<1>5. Classified(pages, o, base) = Entries(rs, o, base, t)
  BY DEF Classified, Entries, MemoryOf, SizeOf
<1> HIDE DEF V, L, zero, step
<1>6. G \in Steps(V, L)
  BY <1>3 DEF Steps
<1>7. PICK s : Unfolds(s, V, L, zero, G)
  BY <1>1, <1>4, <1>6, RecursionIn
<1>8. s \in [0 .. L -> V] /\ s[0] = zero /\ \A n \in 1 .. L : s[n] = G[n][s[n - 1]]
  BY <1>7 DEF Unfolds
<1>9. ASSUME NEW n \in 1 .. L PROVE n - 1 \in 0 .. L /\ n \in 0 .. L /\ n # 0
  BY <1>1
<1>10. ASSUME NEW n \in 1 .. L PROVE s[n] = step(s[n - 1], n)
  <2>1. s[n - 1] \in V
    BY <1>8, <1>9
  <2> QED
    BY <1>8, <2>1
<1> HIDE DEF G
<1>11. D(s)
  <2>1. ASSUME NEW n \in 0 .. L
        PROVE  s[n] = IF n = 0 THEN zero ELSE step(s[n - 1], n)
    <3>1. n # 0 => n \in 1 .. L
      OBVIOUS
    <3> QED
      BY <1>8, <1>10, <3>1
  <2> QED
    BY <1>8, <2>1
<1>12. D(t)
  BY <1>11
<1> HIDE DEF t
<1>13. DOMAIN t = 0 .. L
       /\ \A n \in 0 .. L : t[n] = IF n = 0 THEN zero ELSE step(t[n - 1], n)
  BY <1>12, Zenon
<1> HIDE DEF D
<1>14. t[0] = zero /\ \A n \in 1 .. L : t[n] = step(t[n - 1], n)
  <2>1. 0 \in 0 .. L
    BY <1>1
  <2> QED
    BY <1>9, <1>13, <2>1
<1> DEFINE T == {n \in 0 .. L : t[n] \notin V}
<1>15. 0 \notin T
  BY <1>4, <1>14
<1>16. ASSUME NEW n \in 1 .. L, n - 1 \notin T PROVE n \notin T
  <2>1. t[n - 1] \in V
    BY <1>9, <1>16
  <2> QED
    BY <1>3, <1>14, <2>1
<1>17. T \in SUBSET (0 .. L)
  OBVIOUS
<1> HIDE DEF T
<1>18. T = {}
  BY <1>1, <1>15, <1>16, <1>17, NoFailure
<1>19. \A n \in 0 .. L : t[n] \in V
  BY <1>18, Zenon DEF T
<1>20. t \in [0 .. L -> V]
  <2>1. t = [n \in 0 .. L |-> t[n]]
    BY <1>12, <1>13 DEF D
  <2> QED
    BY <1>19, <2>1
<1>21. ASSUME NEW n \in 1 .. L
       PROVE  /\ t[n][MemoryOf(rs, n, o)] >= t[n - 1][MemoryOf(rs, n, o)] + SizeOf(rs, n)
              /\ \A m \in Memories : t[n][m] >= t[n - 1][m]
  <2>1. t[n - 1] \in V /\ t[n] = step(t[n - 1], n)
    BY <1>9, <1>14, <1>19
  <2> QED
    BY <1>3, <2>1
<1>22. Offsets(rs, o, t)
  BY <1>20, <1>21 DEF Offsets, L, V
<1> QED
  BY <1>5, <1>22 DEF L

LEMMA OffsetsGrow ==
  ASSUME NEW rs \in Seq(Ranges), NEW o, NEW cur, Offsets(rs, o, cur),
         NEW i \in 0 .. Len(rs), NEW j \in 0 .. Len(rs), i <= j, NEW m \in Memories
  PROVE  cur[i][m] <= cur[j][m]
<1> DEFINE L == Len(rs)
           T == {n \in 0 .. L : i <= n /\ ~ (cur[i][m] <= cur[n][m])}
<1>1. L \in Nat
  BY LenProperties
<1>2. \A n \in 0 .. L : cur[n][m] \in Nat
  BY DEF Offsets
<1>3. \A n \in 1 .. L : cur[n][m] >= cur[n - 1][m]
  BY DEF Offsets
<1> HIDE DEF L
<1>4. 0 \notin T
  <2>1. 0 \in 0 .. L /\ (i <= 0 => i = 0)
    BY <1>1 DEF L
  <2> QED
    BY <1>2, <2>1
<1>5. ASSUME NEW n \in 1 .. L, n - 1 \notin T PROVE n \notin T
  <2>1. n \in 0 .. L /\ n - 1 \in 0 .. L /\ i \in 0 .. L
    BY <1>1 DEF L
  <2>2. cur[n][m] \in Nat /\ cur[n - 1][m] \in Nat /\ cur[i][m] \in Nat
    BY <1>2, <2>1
  <2>3. CASE i <= n - 1
    <3>1. cur[i][m] <= cur[n - 1][m]
      BY <1>5, <2>1, <2>3
    <3>2. cur[n][m] >= cur[n - 1][m]
      BY <1>3
    <3> QED
      BY <2>2, <3>1, <3>2
  <2>4. CASE ~ (i <= n - 1)
    <3>1. i <= n => i = n
      BY <1>1, <2>1, <2>4
    <3> QED
      BY <2>2, <3>1
  <2> QED
    BY <2>3, <2>4
<1>6. T \in SUBSET (0 .. L)
  OBVIOUS
<1> HIDE DEF T
<1>7. T = {}
  BY <1>1, <1>4, <1>5, <1>6, NoFailure
<1> QED
  BY <1>7, Zenon DEF T, L

-----------------------------------------------------------------------------
(* The map.                                                                 *)

\* The entries of a map are the ranges, which lie apart, and so do their places.
WellPlaced(c, rs) ==
  LET local(i) == LocalBase(c, c.map[i])
      size(i) == c.map[i].size
  IN  /\ rs \in Seq(Ranges) /\ rs # <<>> /\ DOMAIN c.map = 1 .. Len(rs)
      /\ \A i \in 1 .. Len(rs) :
           /\ c.map[i].orig = rs[i].start /\ size(i) = rs[i].end - rs[i].start
           /\ c.map[i].region = MemoryOf(rs, i, c.options)
           /\ rs[i].start < rs[i].end /\ rs[i].end <= MaxAddr
           /\ local(i) \in Nat /\ local(i) + size(i) <= MaxAddr
      /\ \A i, j \in 1 .. Len(rs) :
           i < j => /\ rs[i].end <= rs[j].start
                    /\ MemoryOf(rs, i, c.options) = MemoryOf(rs, j, c.options)
                         => local(i) + size(i) <= local(j)

LEMMA TraceOf ==
  ASSUME NEW c \in Configs, DOMAIN c.pages # {}
  PROVE  /\ IsTrace(c.pages, c.options) /\ c.options.align \in Nat \ {0}
         /\ c.mapped /\ c.map = Classified(c.pages, c.options, Bases(c))
         /\ \A pg \in DOMAIN c.pages : PageRange(c.pages, c.options, pg).end <= MaxAddr
         /\ \A k \in DOMAIN c.map : c.map[k].h3 + c.map[k].size <= MaxAddr
BY TraceConstants DEF IsTrace, PageRange

LEMMA RangesEnd ==
  ASSUME NEW c \in Configs, DOMAIN c.pages # {}
  PROVE  LET rs == MergePages(c.pages, c.options)
         IN  /\ rs \in Seq(Ranges) /\ rs # <<>>
             /\ \A i \in 1 .. Len(rs) :
                  /\ rs[i].start \in Nat /\ rs[i].end \in Nat
                  /\ rs[i].start < rs[i].end /\ rs[i].end <= MaxAddr
             /\ \A i, j \in 1 .. Len(rs) : i < j => rs[i].end <= rs[j].start
<1> DEFINE pages == c.pages
           o == c.options
           N == Cardinality(DOMAIN pages)
           rs == MergePages(pages, o)
           L == Len(rs)
           top == PageRange(pages, o, Ascending(DOMAIN pages)[N]).end
<1>1. IsTrace(pages, o)
  BY TraceOf
<1>2. /\ N \in Nat /\ Ascending(DOMAIN pages) \in [1 .. N -> DOMAIN pages]
      /\ IsFiniteSet(DOMAIN pages)
  BY <1>1, AscendingOf DEF IsTrace
<1>3. N > 0
  <2>1. N # 0
    BY <1>2, FS_EmptySet
  <2> HIDE DEF N
  <2> QED
    BY <1>2, <2>1
<1>4. Covered(pages, o, rs, N)
  BY <1>1, MergePagesCovers
<1>5. top <= MaxAddr
  <2>1. N \in 1 .. N
    <3> HIDE DEF N
    <3> QED
      BY <1>2, <1>3
  <2>2. Ascending(DOMAIN pages)[N] \in DOMAIN pages
    BY <1>2, <2>1
  <2> QED
    BY <2>2, TraceOf
<1>6. /\ rs \in Seq(Ranges) /\ rs # <<>> /\ rs[L].end = top
      /\ \A i \in 1 .. L : rs[i].start < rs[i].end
      /\ \A i, j \in 1 .. L : i < j => rs[i].end <= rs[j].start
  BY <1>3, <1>4 DEF Covered
<1>7. ASSUME NEW i \in 1 .. L PROVE rs[i].start \in Nat /\ rs[i].end \in Nat
  <2>1. rs[i] \in Ranges
    BY <1>6, ElementOfSeq
  <2> QED
    BY <2>1 DEF Ranges
<1>8. L \in Nat /\ L > 0
  BY <1>6
<1>9. MaxAddr \in Nat
  BY AddressMapConstants
<1> HIDE DEF rs, L, top
<1>10. L \in 1 .. L /\ rs[L].end <= MaxAddr
  BY <1>5, <1>6, <1>8
<1>11. ASSUME NEW i \in 1 .. L PROVE rs[i].end <= MaxAddr
  <2>1. CASE i = L
    BY <1>10, <2>1
  <2>2. CASE i # L
    <3>1. i < L
      BY <1>8, <2>2
    <3>2. rs[i].end <= rs[L].start /\ rs[L].start < rs[L].end
      BY <1>6, <1>10, <3>1
    <3>3. rs[i].end \in Nat /\ rs[L].start \in Nat /\ rs[L].end \in Nat
      BY <1>7, <1>10
    <3> QED
      BY <1>9, <1>10, <3>2, <3>3
  <2> QED
    BY <2>1, <2>2
<1> QED
  BY <1>6, <1>7, <1>11 DEF rs, L

LEMMA MapWellPlaced ==
  ASSUME NEW c \in Configs, DOMAIN c.pages # {}
  PROVE  WellPlaced(c, MergePages(c.pages, c.options))
<1> DEFINE o == c.options
           rs == MergePages(c.pages, o)
           L == Len(rs)
           region(i) == MemoryOf(rs, i, o)
           base(m) == Bases(c)[m]
           local(i) == LocalBase(c, c.map[i])
<1>1. /\ rs \in Seq(Ranges) /\ rs # <<>>
      /\ \A i \in 1 .. L : /\ rs[i].start \in Nat /\ rs[i].end \in Nat
                           /\ rs[i].start < rs[i].end /\ rs[i].end <= MaxAddr
      /\ \A i, j \in 1 .. L : i < j => rs[i].end <= rs[j].start
  BY RangesEnd
<1>2. \A i \in 1 .. L : SizeOf(rs, i) \in Nat
  BY <1>1 DEF SizeOf
<1>3. o.align \in Nat \ {0} /\ c.map = Classified(c.pages, o, Bases(c))
  BY TraceOf
<1>4. PICK cur :
        /\ Offsets(rs, o, cur)
        /\ c.map = [i \in 1 .. L |->
                      [orig |-> rs[i].start, size |-> SizeOf(rs, i), region |-> region(i),
                       h3First |-> FALSE, h3 |-> base(region(i)) + cur[i - 1][region(i)]]]
  <2> DEFINE b == Bases(c)
             pages == c.pages
  <2>1. /\ MergePages(pages, o) \in Seq(Ranges) /\ o.align \in Nat \ {0}
        /\ \A i \in 1 .. Len(MergePages(pages, o)) : SizeOf(MergePages(pages, o), i) \in Nat
    BY <1>1, <1>2, <1>3
  <2>2. c.map = Classified(pages, o, b)
    BY <1>3
  <2> HIDE DEF b, pages, o
  <2>3. \E cur : /\ Offsets(MergePages(pages, o), o, cur)
                 /\ Classified(pages, o, b) = Entries(MergePages(pages, o), o, b, cur)
    BY <2>1, OffsetsOf
  <2> QED
    BY <2>2, <2>3 DEF b, pages, o, Entries
<1>5. DOMAIN c.map = 1 .. L
  BY <1>4
<1>6. /\ L \in Nat /\ MaxAddr \in Nat
      /\ \A i \in 1 .. L : i - 1 \in 0 .. L /\ i \in 0 .. L
  BY <1>1, LenProperties, AddressMapConstants
<1>7. ASSUME NEW i \in 1 .. L
      PROVE  /\ region(i) \in Memories
             /\ base(region(i)) = IF region(i) = "Hbf" THEN c.hbf.base ELSE c.hbm.base
             /\ base(region(i)) \in Nat
             /\ cur[i - 1][region(i)] \in Nat
  <2>1. region(i) \in {"Hbm", "Hbf"}
    BY DEF MemoryOf
  <2>2. c.hbm.base \in Nat /\ c.hbf.base \in Nat
    BY ConfigType DEF Word
  <2>3. cur[i - 1] \in [Memories -> Nat]
    BY <1>4, <1>6 DEF Offsets
  <2> QED
    BY <2>1, <2>2, <2>3 DEF Memories, Bases
<1>8. ASSUME NEW i \in 1 .. L
      PROVE  /\ c.map[i].orig = rs[i].start /\ c.map[i].size = SizeOf(rs, i)
             /\ c.map[i].region = region(i) /\ c.map[i].h3First = FALSE
             /\ c.map[i].h3 = base(region(i)) + cur[i - 1][region(i)]
  BY <1>4
<1> HIDE DEF rs, L, region, base
<1>9. ASSUME NEW i \in 1 .. L PROVE local(i) = cur[i - 1][region(i)]
  <2> DEFINE b == base(region(i))
             x == cur[i - 1][region(i)]
             e == c.map[i]
  <2>1. b \in Nat /\ x \in Nat /\ e.h3 = b + x
    BY <1>7, <1>8
  <2>2. b = IF e.region = "Hbf" /\ ~e.h3First THEN c.hbf.base ELSE c.hbm.base
    BY <1>7, <1>8
  <2> HIDE DEF b, x, e
  <2>3. e.h3 >= b /\ e.h3 - b = x
    BY <2>1
  <2>4. LocalBase(c, e) = x
    BY <2>2, <2>3 DEF LocalBase
  <2> QED
    BY <2>4 DEF x, e
<1>10. ASSUME NEW i \in 1 .. L PROVE local(i) + c.map[i].size <= MaxAddr
  <2> DEFINE b == base(region(i))
             x == cur[i - 1][region(i)]
             z == SizeOf(rs, i)
  <2>1. b + x + z <= MaxAddr
    BY <1>5, <1>8, TraceOf
  <2>2. b \in Nat /\ x \in Nat /\ z \in Nat
    BY <1>2, <1>7 DEF rs, L
  <2> HIDE DEF b, x, z
  <2>3. x + z <= MaxAddr
    BY <1>6, <2>1, <2>2
  <2> QED
    BY <1>8, <1>9, <2>3 DEF x, z
<1>11. ASSUME NEW i \in 1 .. L, NEW j \in 1 .. L, i < j, region(i) = region(j)
       PROVE  local(i) + c.map[i].size <= local(j)
  <2> DEFINE m == region(i)
             x == cur[i - 1][m]
             y == cur[i][m]
             z == cur[j - 1][m]
  <2>1. y >= x + SizeOf(rs, i)
    BY <1>4 DEF Offsets, L, region
  <2>2. i <= j - 1
    BY <1>6, <1>11
  <2>3. y <= z
    <3>1. i \in 0 .. L /\ j - 1 \in 0 .. L
      BY <1>6
    <3>2. rs \in Seq(Ranges) /\ Offsets(rs, o, cur) /\ m \in Memories
      BY <1>1, <1>4, <1>7
    <3> DEFINE n == j - 1
    <3> HIDE DEF m, n, o
    <3>3. cur[i][m] <= cur[n][m]
      BY <2>2, <3>1, <3>2, OffsetsGrow DEF L, n
    <3> QED
      BY <3>3 DEF n
  <2>4. x \in Nat /\ y \in Nat /\ z \in Nat /\ SizeOf(rs, i) \in Nat
    <3>1. i - 1 \in 0 .. L /\ i \in 0 .. L /\ j - 1 \in 0 .. L /\ m \in Memories
      BY <1>6, <1>7
    <3>2. \A n \in 0 .. L : cur[n] \in [Memories -> Nat]
      BY <1>4 DEF Offsets, L
    <3>3. SizeOf(rs, i) \in Nat
      BY <1>2 DEF L
    <3> HIDE DEF m
    <3> QED
      BY <3>1, <3>2, <3>3
  <2>5. local(i) = x /\ local(j) = z /\ c.map[i].size = SizeOf(rs, i)
    BY <1>8, <1>9, <1>11
  <2> HIDE DEF x, y, z, local
  <2> QED
    BY <2>1, <2>3, <2>4, <2>5
<1> QED
  BY <1>1, <1>5, <1>7, <1>8, <1>9, <1>10, <1>11 DEF WellPlaced, SizeOf, L, rs, region

-----------------------------------------------------------------------------
(* What the router makes of the map.                                        *)

\* No range is empty, so the router drops none.
LEMMA NothingDropped ==
  ASSUME NEW c \in Configs, DOMAIN c.pages # {}
  PROVE  LET L == Len(MergePages(c.pages, c.options))
             kept == {k \in DOMAIN c.map : c.map[k].size # 0}
         IN  /\ L \in Nat /\ L # 0 /\ DOMAIN c.map = 1 .. L
             /\ kept = 1 .. L /\ Cardinality(kept) = L
<1> DEFINE rs == MergePages(c.pages, c.options)
           L == Len(rs)
           kept == {k \in DOMAIN c.map : c.map[k].size # 0}
<1>1. WellPlaced(c, rs)
  BY MapWellPlaced
<1>2. L \in Nat /\ L # 0 /\ \A i \in 1 .. L : rs[i].start \in Nat /\ rs[i].end \in Nat
  <2>1. rs \in Seq(Ranges) /\ rs # <<>>
    BY <1>1 DEF WellPlaced
  <2> HIDE DEF rs
  <2>2. L \in Nat /\ L # 0
    BY <2>1, EmptySeq, LenProperties
  <2> QED
    BY <2>2, RangesEnd DEF rs
<1>3. ASSUME NEW k \in 1 .. L PROVE c.map[k].size # 0
  <2> DEFINE s == rs[k].start
             e == rs[k].end
  <2>1. s \in Nat /\ e \in Nat /\ s < e /\ c.map[k].size = e - s
    BY <1>1, <1>2 DEF WellPlaced
  <2> HIDE DEF s, e
  <2> QED
    BY <2>1
<1>4. DOMAIN c.map = 1 .. L
  BY <1>1 DEF WellPlaced
<1>5. kept = 1 .. L
  <2> HIDE DEF L
  <2> QED
    BY <1>3, <1>4
<1>6. Cardinality(kept) = L
  <2> HIDE DEF kept, L
  <2>1. Cardinality(1 .. L) = IF 1 > L THEN 0 ELSE L - 1 + 1
    BY <1>2, FS_Interval
  <2> QED
    BY <1>2, <1>5, <2>1
<1> QED
  BY <1>2, <1>4, <1>5, <1>6

\* The router's buffers are the ranges, in the order p.
Orders(c, as, p) ==
  LET L == Len(MergePages(c.pages, c.options))
  IN  /\ p \in [1 .. L -> 1 .. L]
      /\ \A i, j \in 1 .. L : p[i] = p[j] => i = j
      /\ \A i \in 1 .. L : \E k \in 1 .. L : p[k] = i
      /\ DOMAIN as = 1 .. L
      /\ \A k \in 1 .. L :
           /\ as[k].orig = c.map[p[k]].orig /\ as[k].size = c.map[p[k]].size
           /\ as[k].region = c.map[p[k]].region
           /\ as[k].local = LocalBase(c, c.map[p[k]])

LEMMA LoadedTrace ==
  ASSUME NEW c \in Configs, DOMAIN c.pages # {}, NEW as \in Loaded(c)
  PROVE  \E p : Orders(c, as, p)
<1> DEFINE rs == MergePages(c.pages, c.options)
           L == Len(rs)
           kept == {k \in DOMAIN c.map : c.map[k].size # 0}
           N == Cardinality(kept)
           places == 1 .. N
           buffer(e) == [orig |-> e.orig, size |-> e.size, region |-> e.region,
                         local |-> LocalBase(c, e)]
<1>1. PICK p \in Bijection(places, kept) : as = [i \in places |-> buffer(c.map[p[i]])]
  BY DEF Loaded
<1>2. kept = 1 .. L /\ N = L
  BY NothingDropped
<1> HIDE DEF L, N, kept, rs, buffer
<1>3. p \in Bijection(1 .. L, 1 .. L)
  BY <1>1, <1>2
<1>4. /\ p \in [1 .. L -> 1 .. L]
      /\ \A i, j \in 1 .. L : p[i] = p[j] => i = j
      /\ \A i \in 1 .. L : \E k \in 1 .. L : p[k] = i
  BY <1>3 DEF Bijection, Injection, Surjection, IsInjective
<1>5. as = [i \in 1 .. L |-> buffer(c.map[p[i]])]
  BY <1>1, <1>2
<1>6. ASSUME NEW k \in 1 .. L
      PROVE  /\ as[k].orig = c.map[p[k]].orig /\ as[k].size = c.map[p[k]].size
             /\ as[k].region = c.map[p[k]].region
             /\ as[k].local = LocalBase(c, c.map[p[k]])
  BY <1>5 DEF buffer
<1> QED
  BY <1>4, <1>5, <1>6 DEF L, rs, Orders

\* The router never refuses a map that tools/classify_trace.py made, neither for
\* buffers that overlap nor for want of any.
THEOREM TraceMapLoads ==
  ASSUME NEW c \in Configs, DOMAIN c.pages # {}
  PROVE  Loaded(c) # {} /\ \A as \in Loaded(c) : Loadable(as)
<1> DEFINE rs == MergePages(c.pages, c.options)
           L == Len(rs)
           orig(i) == c.map[i].orig
           size(i) == c.map[i].size
<1>1. /\ L \in Nat /\ L # 0
      /\ \A i \in 1 .. L : /\ rs[i].start \in Nat /\ rs[i].end \in Nat
                           /\ rs[i].start < rs[i].end /\ rs[i].end <= MaxAddr
                           /\ orig(i) = rs[i].start /\ size(i) = rs[i].end - rs[i].start
      /\ \A i, j \in 1 .. L : i < j => rs[i].end <= rs[j].start
  BY NothingDropped, RangesEnd, MapWellPlaced DEF WellPlaced
<1>2. ASSUME NEW i \in 1 .. L
      PROVE  /\ orig(i) \in Nat /\ size(i) \in Nat /\ size(i) > 0
             /\ Plus(orig(i), size(i)) = orig(i) + size(i)
  <2> DEFINE s == rs[i].start
             e == rs[i].end
             n == e - s
  <2>1. s \in Nat /\ e \in Nat /\ s < e /\ e <= MaxAddr /\ MaxAddr \in Nat
    BY <1>1, AddressMapConstants
  <2>2. orig(i) = s /\ size(i) = n
    BY <1>1
  <2> HIDE DEF s, e
  <2>3. n \in Nat /\ n > 0 /\ s <= MaxAddr - n
    BY <2>1
  <2> HIDE DEF n, orig, size
  <2>4. Plus(s, n) = s + n
    BY <2>1, <2>3, PlusExact
  <2> QED
    BY <2>1, <2>2, <2>3, <2>4
<1>3. ASSUME NEW i \in 1 .. L, NEW j \in 1 .. L, i < j
      PROVE  orig(i) + size(i) <= orig(j)
  <2> DEFINE s == rs[i].start
             e == rs[i].end
  <2>1. /\ s \in Nat /\ e \in Nat /\ e <= rs[j].start
        /\ orig(i) = s /\ size(i) = e - s /\ orig(j) = rs[j].start
    BY <1>1, <1>3
  <2> HIDE DEF s, e, orig, size
  <2>2. s + (e - s) = e
    BY <2>1
  <2> QED
    BY <2>1, <2>2
<1>4. Loaded(c) # {}
  <2> DEFINE kept == {k \in DOMAIN c.map : c.map[k].size # 0}
             N == Cardinality(kept)
             places == 1 .. N
             buffer(e) == [orig |-> e.orig, size |-> e.size, region |-> e.region,
                           local |-> LocalBase(c, e)]
             p == [i \in 1 .. L |-> i]
             sorted == {q \in Bijection(places, kept) :
                          \A i, j \in places : i < j => orig(q[i]) <= orig(q[j])}
  <2>1. kept = 1 .. L /\ N = L
    BY NothingDropped
  <2>2. p \in Bijection(1 .. L, 1 .. L)
    BY DEF Bijection, Injection, Surjection, IsInjective
  <2>3. ASSUME NEW i \in 1 .. L, NEW j \in 1 .. L, i < j PROVE orig(p[i]) <= orig(p[j])
    <3>1. orig(i) \in Nat /\ size(i) \in Nat /\ orig(j) \in Nat
      BY <1>2
    <3>2. orig(i) + size(i) <= orig(j)
      BY <1>3, <2>3
    <3> HIDE DEF orig, size
    <3>3. orig(i) <= orig(j)
      BY <3>1, <3>2
    <3> QED
      BY <3>3
  <2> HIDE DEF kept, N, L, p, orig
  <2>4. p \in sorted
    BY <2>1, <2>2, <2>3
  <2>5. [i \in places |-> buffer(c.map[p[i]])] \in
          {[i \in places |-> buffer(c.map[q[i]])] : q \in sorted}
    BY <2>4
  <2> QED
    BY <2>5 DEF Loaded, sorted, orig, kept, N
<1>5. ASSUME NEW as \in Loaded(c) PROVE Loadable(as)
  <2>1. PICK p : Orders(c, as, p)
    BY LoadedTrace
  <2>2. /\ p \in [1 .. L -> 1 .. L]
        /\ \A i, j \in 1 .. L : p[i] = p[j] => i = j
        /\ DOMAIN as = 1 .. L
        /\ \A k \in 1 .. L : as[k].orig = orig(p[k]) /\ as[k].size = size(p[k])
    BY <2>1 DEF Orders
  <2>3. as \in Seq(Buffers) /\ \A j, k \in 1 .. Len(as) : j < k => as[j].orig <= as[k].orig
    BY LoadedOf
  <2>4. Len(as) = L
    <3> DEFINE M == Len(as)
    <3>1. M \in Nat /\ DOMAIN as = 1 .. M
      BY <2>3, LenProperties
    <3>2. 1 .. M = 1 .. L
      BY <2>2, <3>1
    <3> HIDE DEF M, L
    <3>3. (M > 0 => M \in 1 .. L) /\ (L > 0 => L \in 1 .. M)
      BY <1>1, <3>1, <3>2
    <3>4. M = L
      BY <1>1, <3>1, <3>3
    <3> QED
      BY <3>4 DEF M
  <2>5. ASSUME NEW k \in 2 .. L
        PROVE  as[k].orig >= Plus(as[k - 1].orig, as[k - 1].size)
    <3> HIDE DEF L, orig, size
    <3>1. k \in 1 .. L /\ k - 1 \in 1 .. L /\ k - 1 < k /\ k - 1 # k
      BY <1>1
    <3> DEFINE i == p[k - 1]
               j == p[k]
    <3>2. i \in 1 .. L /\ j \in 1 .. L /\ i # j
      BY <2>2, <3>1
    <3>3. /\ as[k].orig = orig(j) /\ as[k - 1].orig = orig(i)
          /\ as[k - 1].size = size(i)
      BY <2>2, <3>1
    <3>4. orig(i) <= orig(j)
      <4>1. as[k - 1].orig <= as[k].orig
        BY <2>3, <2>4, <3>1
      <4> QED
        BY <3>3, <4>1
    <3>5. /\ orig(i) \in Nat /\ size(i) \in Nat /\ size(i) > 0
          /\ orig(j) \in Nat /\ size(j) \in Nat /\ size(j) > 0
          /\ Plus(orig(i), size(i)) = orig(i) + size(i)
      BY <1>2, <3>2
    <3> HIDE DEF i, j
    <3>6. i < j \/ j < i
      BY <1>1, <3>2
    <3>7. CASE i < j
      <4>1. orig(i) + size(i) <= orig(j)
        BY <1>3, <3>2, <3>7
      <4> QED
        BY <3>3, <3>5, <4>1
    <3>8. CASE j < i
      <4>1. orig(j) + size(j) <= orig(i)
        BY <1>3, <3>2, <3>8
      <4>2. FALSE
        BY <3>4, <3>5, <4>1
      <4> QED
        BY <4>2
    <3> QED
      BY <3>6, <3>7, <3>8
  <2>6. as # <<>>
    <3>1. Len(<<>>) = 0
      OBVIOUS
    <3> HIDE DEF L
    <3> QED
      BY <1>1, <2>4, <3>1
  <2> QED
    BY <2>4, <2>5, <2>6 DEF Loadable
<1> QED
  BY <1>4, <1>5

\* Each page lies in a range, which is written if it is.
LEMMA PageCovered ==
  ASSUME NEW c \in Configs, DOMAIN c.pages # {}, NEW pg \in DOMAIN c.pages
  PROVE  LET rs == MergePages(c.pages, c.options)
             page == PageRange(c.pages, c.options, pg)
         IN  \E i \in 1 .. Len(rs) :
               /\ rs[i].start <= page.start /\ page.end <= rs[i].end
               /\ page.write > 0 => rs[i].write > 0
<1> DEFINE pages == c.pages
           o == c.options
           N == Cardinality(DOMAIN pages)
           sorted == Ascending(DOMAIN pages)
           rs == MergePages(pages, o)
<1>1. IsTrace(pages, o)
  BY TraceOf
<1>2. PICK m \in 1 .. N : sorted[m] = pg
  BY <1>1, AscendingOf DEF IsTrace
<1>3. Covered(pages, o, rs, N)
  <2> HIDE DEF pages, o
  <2> QED
    BY <1>1, MergePagesCovers
<1> HIDE DEF N, rs, sorted
<1>4. \E i \in 1 .. Len(rs) :
        /\ rs[i].start <= PageRange(pages, o, sorted[m]).start
        /\ PageRange(pages, o, sorted[m]).end <= rs[i].end
        /\ PageRange(pages, o, sorted[m]).write > 0 => rs[i].write > 0
  BY <1>3, <1>2 DEF Covered, HeldIn, sorted
<1> QED
  BY <1>2, <1>4 DEF rs

\* The router's buffers are the ranges of the trace, in their order or another.
TracedInv ==
  /\ MapInv
  /\ cfg \in Configs
  /\ cfg.mapped => allocs \in Loaded(cfg)

LEMMA TraceMapIsSound ==
  ASSUME TracedInv, IsTraced
  PROVE  MapIsSound
<1> DEFINE c == cfg
           rs == MergePages(c.pages, c.options)
           L == Len(rs)
           local(i) == LocalBase(c, c.map[i])
           size(i) == c.map[i].size
           region(i) == c.map[i].region
<1>1. c \in Configs /\ DOMAIN c.pages # {} /\ allocs \in Loaded(c)
  BY TraceOf DEF TracedInv, IsTraced
<1>2. WellPlaced(c, rs)
  BY <1>1, MapWellPlaced
<1>3. PICK p : Orders(c, allocs, p)
  BY <1>1, LoadedTrace
<1>4. /\ p \in [1 .. L -> 1 .. L]
      /\ \A i, j \in 1 .. L : p[i] = p[j] => i = j
      /\ DOMAIN allocs = 1 .. L
      /\ \A k \in 1 .. L :
           /\ allocs[k].size = size(p[k]) /\ allocs[k].region = region(p[k])
           /\ allocs[k].local = local(p[k])
  BY <1>3 DEF Orders
<1>5. ASSUME NEW i \in 1 .. L
      PROVE local(i) \in Nat /\ size(i) \in Nat /\ local(i) + size(i) <= MaxAddr
  <2>1. /\ local(i) \in Nat /\ local(i) + size(i) <= MaxAddr
        /\ size(i) = rs[i].end - rs[i].start /\ rs[i].start < rs[i].end
    BY <1>2 DEF WellPlaced
  <2>2. rs[i].start \in Nat /\ rs[i].end \in Nat
    BY <1>1, RangesEnd
  <2> QED
    BY <2>1, <2>2
<1>6. ASSUME NEW i \in 1 .. L, NEW j \in 1 .. L, i < j, region(i) = region(j)
      PROVE  local(i) + size(i) <= local(j)
  <2>1. region(i) = MemoryOf(rs, i, c.options) /\ region(j) = MemoryOf(rs, j, c.options)
    BY <1>2 DEF WellPlaced
  <2> QED
    BY <1>2, <1>6, <2>1 DEF WellPlaced
<1>7. L \in Nat
  <2>1. rs \in Seq(Ranges)
    BY <1>2 DEF WellPlaced
  <2> QED
    BY <2>1, LenProperties
<1> HIDE DEF L, rs, local, size, region
<1>8. ASSUME NEW k \in DOMAIN allocs PROVE allocs[k].local + allocs[k].size <= MaxAddr
  <2>1. k \in 1 .. L /\ p[k] \in 1 .. L
    BY <1>4
  <2> QED
    BY <1>4, <1>5, <2>1
<1>9. ASSUME NEW j \in DOMAIN allocs, NEW k \in DOMAIN allocs, j # k,
             allocs[j].region = allocs[k].region
      PROVE  \/ allocs[j].local + allocs[j].size <= allocs[k].local
             \/ allocs[k].local + allocs[k].size <= allocs[j].local
  <2>1. j \in 1 .. L /\ k \in 1 .. L /\ p[j] \in 1 .. L /\ p[k] \in 1 .. L /\ p[j] # p[k]
    BY <1>4, <1>9
  <2>2. region(p[j]) = region(p[k])
    BY <1>4, <1>9, <2>1
  <2>3. p[j] < p[k] \/ p[k] < p[j]
    BY <1>7, <2>1
  <2>4. \/ local(p[j]) + size(p[j]) <= local(p[k])
        \/ local(p[k]) + size(p[k]) <= local(p[j])
    BY <1>6, <2>1, <2>2, <2>3
  <2>5. /\ allocs[j].local = local(p[j]) /\ allocs[j].size = size(p[j])
        /\ allocs[k].local = local(p[k]) /\ allocs[k].size = size(p[k])
    BY <1>4, <2>1
  <2> QED
    BY <2>4, <2>5
<1>10. ASSUME NEW j \in DOMAIN allocs, NEW k \in DOMAIN allocs, j # k
       PROVE  ~Shares(allocs[j], allocs[k])
  <2> DEFINE a == allocs[j].local
             s == allocs[j].size
             b == allocs[k].local
             t == allocs[k].size
  <2>1. a \in Nat /\ s \in Nat /\ b \in Nat /\ t \in Nat
    <3>1. \A m \in 1 .. L : allocs[m].local \in Nat /\ allocs[m].size \in Nat
      <4>1. ASSUME NEW m \in 1 .. L PROVE allocs[m].local \in Nat /\ allocs[m].size \in Nat
        <5>1. p[m] \in 1 .. L /\ allocs[m].local = local(p[m]) /\ allocs[m].size = size(p[m])
          BY <1>4
        <5>2. local(p[m]) \in Nat /\ size(p[m]) \in Nat
          BY <1>5, <5>1
        <5> QED
          BY <5>1, <5>2
      <4> QED
        BY <4>1
    <3> QED
      BY <1>4, <3>1
  <2>2. allocs[j].region = allocs[k].region => a + s <= b \/ b + t <= a
    BY <1>9, <1>10, Zenon
  <2>3. a + s <= b => ~ (b < a + s)
    <3> HIDE DEF a, s, b
    <3> QED
      BY <2>1
  <2>4. b + t <= a => ~ (a < b + t)
    <3> HIDE DEF a, t, b
    <3> QED
      BY <2>1
  <2> QED
    BY <2>2, <2>3, <2>4 DEF Shares
<1> QED
  BY <1>8, <1>10 DEF MapIsSound

LEMMA TouchedIsHeld ==
  ASSUME TracedInv, IsTraced, NEW pg \in DOMAIN cfg.pages, NEW addr \in Touched(pg)
  PROVE  /\ FindAlloc(allocs, addr) # {}
         /\ cfg.options.target = None /\ cfg.pages[pg].write > 0 =>
              Decode(cfg, allocs, addr) = "Hbm"
<1> DEFINE c == cfg
           o == c.options
           rs == MergePages(c.pages, o)
           L == Len(rs)
           page == PageRange(c.pages, o, pg)
<1>1. c \in Configs /\ DOMAIN c.pages # {} /\ allocs \in Loaded(c) /\ MapInv
  BY TraceOf DEF TracedInv, IsTraced
<1>2. WellPlaced(c, rs)
  BY <1>1, MapWellPlaced
<1>3. PICK i \in 1 .. L : /\ rs[i].start <= page.start /\ page.end <= rs[i].end
                          /\ page.write > 0 => rs[i].write > 0
  BY <1>1, PageCovered
<1>4. PICK p : Orders(c, allocs, p)
  BY <1>1, LoadedTrace
<1>5. /\ p \in [1 .. L -> 1 .. L]
      /\ \A m \in 1 .. L : \E k \in 1 .. L : p[k] = m
      /\ DOMAIN allocs = 1 .. L
      /\ \A k \in 1 .. L :
           /\ allocs[k].orig = c.map[p[k]].orig /\ allocs[k].size = c.map[p[k]].size
           /\ allocs[k].region = c.map[p[k]].region
  BY <1>4 DEF Orders
<1>6. PICK k \in 1 .. L : p[k] = i
  BY <1>5
<1>7. /\ allocs[k].orig = rs[i].start /\ allocs[k].size = rs[i].end - rs[i].start
      /\ allocs[k].region = MemoryOf(rs, i, o) /\ k \in DOMAIN allocs
  BY <1>2, <1>5, <1>6 DEF WellPlaced
<1>8. /\ rs[i].start \in Nat /\ rs[i].end \in Nat /\ rs[i].start < rs[i].end
      /\ rs[i].end <= MaxAddr /\ MaxAddr \in Nat
  BY <1>1, RangesEnd, AddressMapConstants
<1>9. IsTrace(c.pages, o)
  BY <1>1, TraceOf
<1>10. /\ addr \in Nat /\ page.start <= addr /\ addr < page.end
       /\ page.start \in Nat /\ page.end \in Nat
  <2>1. page \in Ranges
    <3> DEFINE pages == c.pages
    <3> HIDE DEF pages, o
    <3> QED
      BY <1>9, PageRangeOf DEF pages
  <2>2. page.start \in Nat /\ page.end \in Nat
    BY <2>1 DEF Ranges
  <2>3. addr \in page.start .. page.end - 1
    BY DEF Touched, PageRange
  <2> HIDE DEF page
  <2> QED
    BY <2>2, <2>3
<1>11. Holds(allocs[k], addr)
  <2> DEFINE s == rs[i].start
             e == rs[i].end
             n == e - s
             f == page.start
             l == page.end
  <2>1. s \in Nat /\ e \in Nat /\ f \in Nat /\ l \in Nat /\ s < e /\ e <= MaxAddr
        /\ s <= f /\ l <= e
    BY <1>3, <1>8, <1>10
  <2>2. s <= addr /\ addr < e
    <3> HIDE DEF s, e, f, l
    <3>1. f <= addr /\ addr < l
      BY <1>10 DEF f, l
    <3> QED
      BY <1>10, <2>1, <3>1
  <2>3. n \in Nat /\ s <= MaxAddr - n /\ s + n = e
    <3> HIDE DEF s, e
    <3> QED
      BY <1>8, <2>1
  <2>4. Plus(s, n) = e
    <3> HIDE DEF s, e, n
    <3> QED
      BY <2>1, <2>3, PlusExact
  <2> QED
    BY <1>7, <2>2, <2>4 DEF Holds
<1>12. FindAlloc(allocs, addr) = {allocs[k]}
  <2>1. k \in Owners(addr)
    BY <1>7, <1>11 DEF Owners
  <2>2. /\ FindAlloc(allocs, addr) = {allocs[m] : m \in Owners(addr)}
        /\ \A j, m \in Owners(addr) : j = m
    BY <1>1, <1>10, OwnerFound
  <2> QED
    BY <2>1, <2>2
<1>13. ASSUME o.target = None, c.pages[pg].write > 0 PROVE Decode(c, allocs, addr) = "Hbm"
  <2>1. rs[i].write > 0
    BY <1>3, <1>13 DEF PageRange
  <2>2. rs[i].write # 0
    BY <2>1
  <2>3. ~ToHbf(rs, i, o)
    BY <1>13, <2>2 DEF ToHbf
  <2>4. allocs[k].region = "Hbm"
    BY <1>7, <2>3 DEF MemoryOf
  <2>5. allocs # <<>>
    BY <1>7
  <2> QED
    BY <1>12, <2>4, <2>5 DEF Decode
<1> QED
  BY <1>12, <1>13

LEMMA TracedInvariant == SystemSpec => []TracedInv
<1>1. SystemInit => TracedInv
  BY InitMap DEF SystemInit, Init, TracedInv
<1>2. TracedInv /\ [SystemNext]_systemVars => TracedInv'
  <2> SUFFICES ASSUME TracedInv, [SystemNext]_systemVars PROVE TracedInv'
    OBVIOUS
  <2>1. cfg' = cfg /\ allocs' = allocs
    BY DEF SystemNext, systemVars, vars, Next, Route, RouteUnmapped, RouteReadOnly,
       RouteFull, RouteDelivered, Routed, SetBackends, ResetStats
  <2> QED
    BY <2>1 DEF TracedInv, MapInv
<1> QED
  BY <1>1, <1>2, PTL DEF SystemSpec

\* A map that tools/classify_trace.py makes gives every byte of the trace a place of
\* its own in the router that loads it, and none that is written one in HBF.
THEOREM TraceIsPlaced == SystemSpec => []TraceHasPlaces
<1>1. TracedInv => TraceHasPlaces
  BY TraceMapIsSound, TouchedIsHeld DEF TraceHasPlaces
<1> QED
  BY <1>1, TracedInvariant, PTL

-----------------------------------------------------------------------------
(* What is laid out is the model.                                          *)
(*                                                                         *)
(* Each byte count of the model is a sum over layers, and the tensors'     *)
(* sizes add up to it layer by layer; the cursors of the scheduler and of  *)
(* the trace generator visit the same addresses, as an empty tensor does   *)
(* not move the one and an aligned cursor stays put in the other.          *)

\* A function where only the members of a set count.
Masked(f, N, S) == [k \in 1 .. N |-> IF k \in S THEN f[k] ELSE 0]

\* A sum without one of its terms.
LEMMA SumsWithout ==
  ASSUME NEW N \in Nat, NEW f \in [1 .. N -> Nat], NEW S \in SUBSET (1 .. N), NEW x \in S
  PROVE  SP!Sums(Masked(f, N, S), N)[N] = f[x] + SP!Sums(Masked(f, N, S \ {x}), N)[N]
<1> DEFINE g == Masked(f, N, S)
           h == Masked(f, N, S \ {x})
           s == SP!Sums(g, N)
           t == SP!Sums(h, N)
           T == {n \in 0 .. N : s[n] # t[n] + IF n >= x THEN f[x] ELSE 0}
<1>1. g \in [1 .. N -> Nat] /\ h \in [1 .. N -> Nat]
  BY DEF Masked
<1>2. \A n \in 1 .. N : g[n] = h[n] + IF n = x THEN f[x] ELSE 0
  BY DEF Masked
<1> HIDE DEF g, h
<1>3. /\ s \in [0 .. N -> Nat] /\ s[0] = 0 /\ \A n \in 1 .. N : s[n] = s[n - 1] + g[n]
      /\ t \in [0 .. N -> Nat] /\ t[0] = 0 /\ \A n \in 1 .. N : t[n] = t[n - 1] + h[n]
  BY <1>1, SP!SumsOf
<1> HIDE DEF s, t
<1>4. x \in 1 .. N /\ f[x] \in Nat
  OBVIOUS
<1>5. T \in SUBSET (0 .. N) /\ 0 \notin T
  <2>1. ~ (0 >= x) /\ 0 + 0 = 0
    BY <1>4
  <2> QED
    BY <1>3, <2>1
<1>6. ASSUME NEW n \in 1 .. N, n - 1 \notin T PROVE n \notin T
  <2>1. n - 1 \in 0 .. N /\ n \in 0 .. N
    OBVIOUS
  <2>2. s[n - 1] = t[n - 1] + IF n - 1 >= x THEN f[x] ELSE 0
    BY <1>6, <2>1
  <2>3. /\ s[n] = s[n - 1] + g[n] /\ t[n] = t[n - 1] + h[n]
        /\ g[n] = h[n] + IF n = x THEN f[x] ELSE 0
        /\ t[n - 1] \in Nat /\ h[n] \in Nat
    BY <1>1, <1>2, <1>3, <2>1
  <2>4. s[n] = t[n] + IF n >= x THEN f[x] ELSE 0
    BY <1>4, <2>2, <2>3
  <2> QED
    BY <2>4
<1>7. T = {}
  <2> HIDE DEF T
  <2> QED
    BY <1>5, <1>6, NoFailure
<1>8. N \in 0 .. N /\ N >= x /\ t[N] \in Nat
  BY <1>3, <1>4
<1>9. s[N] = t[N] + f[x]
  BY <1>7, <1>8
<1> QED
  BY <1>4, <1>8, <1>9 DEF s, t, g, h

\* The community modules' fold of a function on some of its indices is its sum
\* over those.
LEMMA FoldIsSum ==
  ASSUME NEW N \in Nat, NEW f \in [1 .. N -> Nat], NEW S \in SUBSET (1 .. N)
  PROVE  FoldFunctionOnSet(LAMBDA x, y : x + y, 0, f, S)
           = SP!Sums(Masked(f, N, S), N)[N]
<1> DEFINE Pick(s) == CHOOSE x \in s : TRUE
           D(it) == it = [s \in SUBSET S |-> IF s = {} THEN 0
                                             ELSE f[Pick(s)] + it[s \ {Pick(s)}]]
           sum == [s \in SUBSET S |-> SP!Sums(Masked(f, N, s), N)[N]]
           iter == CHOOSE it : D(it)
<1>1. FoldFunctionOnSet(LAMBDA x, y : x + y, 0, f, S) = iter[S]
  BY DEF FoldFunctionOnSet, MapThenFoldSet
<1>2. ASSUME NEW s \in SUBSET S, s # {}
      PROVE  /\ Pick(s) \in s /\ s \ {Pick(s)} \in SUBSET S
             /\ sum[s] = f[Pick(s)] + sum[s \ {Pick(s)}]
  <2>1. Pick(s) \in s
    BY <1>2
  <2> HIDE DEF Pick
  <2>2. s \ {Pick(s)} \in SUBSET S /\ s \in SUBSET (1 .. N)
    BY <2>1
  <2>3. SP!Sums(Masked(f, N, s), N)[N]
          = f[Pick(s)] + SP!Sums(Masked(f, N, s \ {Pick(s)}), N)[N]
    BY <2>1, <2>2, SumsWithout
  <2> QED
    BY <2>1, <2>2, <2>3
<1>3. sum[{}] = 0
  <2> DEFINE g == Masked(f, N, {})
             t == SP!Sums(g, N)
             T == {n \in 0 .. N : t[n] # 0}
  <2>1. g \in [1 .. N -> Nat] /\ \A n \in 1 .. N : g[n] = 0
    BY DEF Masked
  <2> HIDE DEF g
  <2>2. t \in [0 .. N -> Nat] /\ t[0] = 0 /\ \A n \in 1 .. N : t[n] = t[n - 1] + g[n]
    BY <2>1, SP!SumsOf
  <2> HIDE DEF t
  <2>3. T \in SUBSET (0 .. N) /\ 0 \notin T
    BY <2>2
  <2>4. ASSUME NEW n \in 1 .. N, n - 1 \notin T PROVE n \notin T
    <3>1. n - 1 \in 0 .. N /\ n \in 0 .. N
      OBVIOUS
    <3> QED
      BY <2>1, <2>2, <2>4, <3>1
  <2>5. T = {}
    <3> HIDE DEF T
    <3> QED
      BY <2>3, <2>4, NoFailure
  <2>6. t[N] = 0
    BY <2>5
  <2> QED
    BY <2>6 DEF t, g
<1>4. sum = [s \in SUBSET S |-> sum[s]]
  OBVIOUS
<1> HIDE DEF Pick, sum
<1>5. D(sum)
  BY <1>2, <1>3, <1>4
<1>6. D(iter)
  BY <1>5
<1> HIDE DEF iter
<1>7. \A s \in SUBSET S : iter[s] = IF s = {} THEN 0
                                    ELSE f[Pick(s)] + iter[s \ {Pick(s)}]
  BY <1>6, Zenon
<1> DEFINE T == {n \in 0 .. N : \E s \in SUBSET S : Cardinality(s) = n /\ iter[s] # sum[s]}
<1>8. ASSUME NEW s \in SUBSET S
      PROVE  IsFiniteSet(s) /\ Cardinality(s) \in 0 .. N
  <2>1. IsFiniteSet(1 .. N) /\ Cardinality(1 .. N) = N
    BY FS_Interval
  <2>2. IsFiniteSet(s) /\ Cardinality(s) <= Cardinality(1 .. N)
    BY <2>1, FS_Subset
  <2>3. Cardinality(s) \in Nat
    BY <2>2, FS_CardinalityType
  <2> QED
    BY <2>1, <2>2, <2>3
<1>9. T \in SUBSET (0 .. N) /\ 0 \notin T
  <2>1. ASSUME NEW s \in SUBSET S, Cardinality(s) = 0 PROVE iter[s] = sum[s]
    <3>1. s = {}
      BY <1>8, <2>1, FS_EmptySet
    <3> QED
      BY <1>3, <1>7, <3>1
  <2> QED
    BY <2>1
<1>10. ASSUME NEW n \in 1 .. N, n - 1 \notin T PROVE n \notin T
  <2>1. ASSUME NEW s \in SUBSET S, Cardinality(s) = n PROVE iter[s] = sum[s]
    <3>1. s # {}
      <4>1. \A z : z = {} => Cardinality(z) = 0
        BY FS_EmptySet
      <4>2. n # 0
        OBVIOUS
      <4> QED
        BY <2>1, <4>1, <4>2, Zenon
    <3> DEFINE x == Pick(s)
               r == s \ {x}
    <3>2. x \in s /\ r \in SUBSET S /\ sum[s] = f[x] + sum[r]
      BY <1>2, <3>1
    <3>3. Cardinality(r) = n - 1
      <4>1. IsFiniteSet(s)
        BY <1>8
      <4> HIDE DEF x
      <4> QED
        BY <2>1, <3>2, <4>1, FS_RemoveElement
    <3>4. iter[r] = sum[r]
      <4>1. n - 1 \in 0 .. N
        OBVIOUS
      <4> QED
        BY <1>10, <3>2, <3>3, <4>1
    <3>5. iter[s] = f[x] + iter[r]
      BY <1>7, <3>1
    <3> QED
      BY <3>2, <3>4, <3>5
  <2> QED
    BY <2>1
<1>11. T = {}
  <2> HIDE DEF T
  <2> QED
    BY <1>9, <1>10, NoFailure
<1>12. iter[S] = sum[S]
  <2>1. S \in SUBSET S /\ Cardinality(S) \in 0 .. N
    BY <1>8
  <2> QED
    BY <1>11, <2>1
<1> QED
  BY <1>1, <1>12 DEF sum
\* Where add() puts the tensors of a memory, by any function that is what
\* cur[region] is before each.
Cursor(c, sizes, cur) ==
  \A k \in 1 .. Len(sizes) :
    cur[k] = IF k = 1 THEN 0
             ELSE IF sizes[k - 1] <= 0 THEN cur[k - 1]
             ELSE ((cur[k - 1] + sizes[k - 1] + c.align - 1) \div c.align) * c.align

PlacedBy(region, base, sizes, cur) ==
  {[region |-> region, addr |-> base + cur[k], size |-> sizes[k]] :
     k \in {k \in 1 .. Len(sizes) : sizes[k] > 0}}

LEMMA PlacedAt ==
  ASSUME NEW c, NEW region, NEW base, NEW sizes \in Seq(Nat), NEW cur, Cursor(c, sizes, cur)
  PROVE  Placed(c, region, base, sizes) = PlacedBy(region, base, sizes, cur)
<1> DEFINE n == Len(sizes)
           Step(k, u) == IF k = 1 THEN 0
                         ELSE IF sizes[k - 1] <= 0 THEN u[k - 1]
                         ELSE ((u[k - 1] + sizes[k - 1] + c.align - 1) \div c.align) * c.align
           D(u) == u = [k \in 1 .. n |-> Step(k, u)]
           t == CHOOSE u : D(u)
           r == [k \in 1 .. n |-> cur[k]]
<1>1. n \in Nat /\ DOMAIN sizes = 1 .. n
  OBVIOUS
<1>2. Placed(c, region, base, sizes) = PlacedBy(region, base, sizes, t)
  BY <1>1 DEF Placed, PlacedBy
<1>3. ASSUME NEW k \in 1 .. n, NEW u, NEW v, k = 1 \/ u[k - 1] = v[k - 1]
      PROVE  Step(k, u) = Step(k, v)
  BY <1>3
<1>4. \A k \in 1 .. n : cur[k] = Step(k, cur)
  BY DEF Cursor
<1> HIDE DEF Step, n
<1>5. D(r)
  <2>1. ASSUME NEW k \in 1 .. n PROVE cur[k] = Step(k, r)
    <3>1. k = 1 \/ r[k - 1] = cur[k - 1]
      BY <1>1
    <3> QED
      BY <1>3, <1>4, <3>1
  <2> QED
    BY <2>1
<1>6. D(t)
  BY <1>5
<1> HIDE DEF t
<1>7. \A k \in 1 .. n : t[k] = Step(k, t)
  BY <1>6, Zenon
<1> DEFINE T == {m \in 0 .. n : m # 0 /\ t[m] # cur[m]}
<1>8. ASSUME NEW m \in 1 .. n, m - 1 \notin T PROVE m \notin T
  <2>1. m = 1 \/ t[m - 1] = cur[m - 1]
    BY <1>1, <1>8
  <2> QED
    BY <1>3, <1>4, <1>7, <2>1
<1>9. T = {}
  <2>1. T \in SUBSET (0 .. n) /\ 0 \notin T
    OBVIOUS
  <2> HIDE DEF T
  <2> QED
    BY <1>1, <1>8, <2>1, NoFailure
<1>10. \A k \in 1 .. n : t[k] = cur[k]
  BY <1>9
<1> QED
  BY <1>2, <1>10 DEF PlacedBy, n
\* The formulas for the size of a model are one in both instances.
LEMMA SameBytes ==
  ASSUME NEW c
  PROVE  /\ Scheduler!SharedKvBytes(c) = SP!SharedKvBytes(c)
         /\ Scheduler!GeneratedKvBytes(c) = SP!GeneratedKvBytes(c)
         /\ Scheduler!ActivationBytes(c) = SP!ActivationBytes(c)
         /\ Scheduler!TotalWeightBytes(c) = SP!TotalWeightBytes(c)
         /\ Scheduler!ForwardDuration(c) = SP!ForwardDuration(c)
<1>1. /\ Scheduler!SharedKvBytes(c) = SP!SharedKvBytes(c)
      /\ Scheduler!GeneratedKvBytes(c) = SP!GeneratedKvBytes(c)
      /\ Scheduler!ActivationBytes(c) = SP!ActivationBytes(c)
  BY DEF Scheduler!SharedKvBytes, SP!SharedKvBytes, Scheduler!GeneratedKvBytes,
     SP!GeneratedKvBytes, Scheduler!KvBytesPerToken, SP!KvBytesPerToken,
     Scheduler!SharedTokens, SP!SharedTokens, Scheduler!GeneratedTokens,
     SP!GeneratedTokens, Scheduler!ActivationBytes, SP!ActivationBytes
<1>2. Scheduler!TotalWeightBytes(c) = SP!TotalWeightBytes(c)
  BY DEF Scheduler!TotalWeightBytes, SP!TotalWeightBytes, Scheduler!WeightBytesPerLayer,
     SP!WeightBytesPerLayer, Scheduler!EmbeddingBytes, SP!EmbeddingBytes
<1>3. \A shapes : Scheduler!Streamed(shapes) = SP!Streamed(shapes)
  BY SameNumbers DEF Scheduler!Streamed, SP!Streamed
<1>4. Scheduler!ForwardDuration(c) = SP!ForwardDuration(c)
  BY <1>3, SameSizes DEF Scheduler!ForwardDuration, SP!ForwardDuration
<1> QED
  BY <1>1, <1>2, <1>4

\* The tensors stay what build_schedule() made of the model.
AsBuilt ==
  /\ SP!ModelType(model) /\ SP!ValidModel(model)
  /\ tensors = SP!Tensors(model)

LEMMA BuiltOnce == SystemSpec => []AsBuilt
<1>1. SystemInit => AsBuilt
  <2> SUFFICES ASSUME SystemInit PROVE AsBuilt
    OBVIOUS
  <2>1. SP!Init
    BY SameSteps DEF SystemInit
  <2> QED
    BY <2>1, ModelsTyped DEF SP!Init, AsBuilt
<1>2. AsBuilt /\ [SystemNext]_systemVars => AsBuilt'
  <2> SUFFICES ASSUME AsBuilt, [SystemNext]_systemVars PROVE AsBuilt'
    OBVIOUS
  <2>1. [SP!Next]_(SP!vars)
    BY StepOfBoth
  <2>2. UNCHANGED <<model, tensors>>
    BY <2>1 DEF SP!Next, SP!Cycle, SP!Tick, SP!Rewind, SP!BufferTakes, SP!vars
  <2> QED
    BY <2>2 DEF AsBuilt
<1> QED
  BY <1>1, <1>2, PTL DEF SystemSpec

\* What the tensors of either memory add up to.
LEMMA TotalsOf ==
  ASSUME AsBuilt
  PROVE  LET hbf == {k \in DOMAIN tensors : tensors[k].region = "Hbf"}
         IN  /\ Total(hbf) = (2 * SP!Embed(model).size
                                + model.layers * SP!LayerBytes(model))
                             + model.layers * SP!SharedSlice(model).size
             /\ Total(DOMAIN tensors \ hbf)
                  = model.layers * SP!GeneratedSlice(model).size
                      + SP!ActivationBytes(model)
             /\ SP!Streamed(SP!Shapes(model))[Len(SP!Shapes(model))] = Total(hbf)
<1> DEFINE N == 11 * model.layers + 3
           hbf == {k \in DOMAIN tensors : tensors[k].region = "Hbf"}
           hbm == DOMAIN tensors \ hbf
           f == [k \in DOMAIN tensors |-> tensors[k].size]
           shapes == SP!Shapes(model)
           read == [k \in DOMAIN shapes |->
                      IF shapes[k].region = "Hbf" THEN shapes[k].size ELSE 0]
<1>1. SP!ModelType(model) /\ SP!ValidModel(model) /\ tensors = SP!Tensors(model)
  BY DEF AsBuilt
<1>2. N \in Nat
  BY <1>1 DEF SP!ModelType
<1>3. /\ DOMAIN tensors = 1 .. N
      /\ \A k \in 1 .. N : /\ tensors[k].size = shapes[k].size
                           /\ tensors[k].region = shapes[k].region
  BY <1>1, SP!TensorNo, SP!ShapeRegions
<1>4. shapes \in Seq(SP!Shape) /\ Len(shapes) = N /\ DOMAIN shapes = 1 .. N
  BY <1>1, SP!ShapesAre
<1>5. \A k \in 1 .. N : shapes[k].size \in Nat /\ shapes[k].region \in {"Hbf", "Hbm"}
  BY <1>4, SP!ShapeAt
<1>6. f \in [1 .. N -> Nat] /\ hbf \in SUBSET (1 .. N) /\ hbm \in SUBSET (1 .. N)
  BY <1>3, <1>5
<1>7. SP!TermsIn(model, Masked(f, N, hbf), "Hbf")
  BY <1>3, <1>5 DEF SP!TermsIn, Masked
<1>8. SP!TermsIn(model, Masked(f, N, hbm), "Hbm")
  BY <1>3, <1>5 DEF SP!TermsIn, Masked
<1>9. SP!TermsIn(model, read, "Hbf")
  BY <1>4, <1>5 DEF SP!TermsIn
<1>10. Total(hbf) = SP!Sums(Masked(f, N, hbf), N)[N]
  <2> HIDE DEF N, f, hbf
  <2>1. FoldFunctionOnSet(LAMBDA x, y : x + y, 0, f, hbf) = SP!Sums(Masked(f, N, hbf), N)[N]
    BY <1>2, <1>6, FoldIsSum
  <2> QED
    BY <2>1 DEF Total, f
<1>11. Total(hbm) = SP!Sums(Masked(f, N, hbm), N)[N]
  <2> HIDE DEF N, f, hbm
  <2>1. FoldFunctionOnSet(LAMBDA x, y : x + y, 0, f, hbm) = SP!Sums(Masked(f, N, hbm), N)[N]
    BY <1>2, <1>6, FoldIsSum
  <2> QED
    BY <2>1 DEF Total, f
<1>12. SP!Streamed(shapes)[Len(shapes)] = SP!Sums(read, N)[N]
  BY <1>4 DEF SP!Streamed
<1> DEFINE both == (2 * SP!Embed(model).size + model.layers * SP!LayerBytes(model))
                     + model.layers * SP!SharedSlice(model).size
<1>13. SP!Sums(Masked(f, N, hbf), N)[N] = both
  <2> HIDE DEF f, hbf
  <2> QED
    BY <1>1, <1>7, SP!HbfSum
<1>14. SP!Sums(read, N)[N] = both
  <2> HIDE DEF read
  <2> QED
    BY <1>1, <1>9, SP!HbfSum
<1>15. SP!Sums(Masked(f, N, hbm), N)[N]
         = model.layers * SP!GeneratedSlice(model).size + SP!ActivationBytes(model)
  <2> HIDE DEF f, hbm
  <2> QED
    BY <1>1, <1>8, SP!HbmSum
<1> QED
  BY <1>10, <1>11, <1>12, <1>13, <1>14, <1>15

\* The tensors in HBF and HBM have the bytes of the model.
LEMMA BytesAreTheModel ==
  ASSUME AsBuilt
  PROVE  LET hbf == {k \in DOMAIN tensors : tensors[k].region = "Hbf"}
             kvShared == Scheduler!SharedKvBytes(model)
             kvGenerated == Scheduler!GeneratedKvBytes(model)
             norms == 2 * model.layers * model.hidden * model.dtype
             exact == /\ \A n \in {model.vocab, model.heads, model.mlp, model.kvHeads} :
                           n % model.tp = 0
                      /\ kvShared % model.layers = 0 /\ kvGenerated % model.layers = 0
         IN  /\ exact =>
                  /\ model.tp * (Total(hbf) - kvShared) =
                       Scheduler!TotalWeightBytes(model) + (model.tp - 1) * norms
                  /\ Total(DOMAIN tensors \ hbf) =
                       kvGenerated + Scheduler!ActivationBytes(model)
             /\ Scheduler!ForwardDuration(model) = Total(hbf) \div model.bandwidth
<1> DEFINE hbf == {k \in DOMAIN tensors : tensors[k].region = "Hbf"}
           kvShared == Scheduler!SharedKvBytes(model)
           kvGenerated == Scheduler!GeneratedKvBytes(model)
           norms == 2 * model.layers * model.hidden * model.dtype
           exact == /\ \A n \in {model.vocab, model.heads, model.mlp, model.kvHeads} :
                         n % model.tp = 0
                    /\ kvShared % model.layers = 0 /\ kvGenerated % model.layers = 0
           weights == 2 * SP!Embed(model).size + model.layers * SP!LayerBytes(model)
           shared == model.layers * SP!SharedSlice(model).size
           generated == model.layers * SP!GeneratedSlice(model).size
           all == Total(hbf)
           rest == Total(DOMAIN tensors \ hbf)
<1>1. SP!ModelType(model) /\ SP!ValidModel(model)
  BY DEF AsBuilt
<1>2. /\ all = weights + shared
      /\ rest = generated + SP!ActivationBytes(model)
      /\ SP!Streamed(SP!Shapes(model))[Len(SP!Shapes(model))] = all
  BY TotalsOf
<1>3. model.layers \in Nat /\ weights \in Nat /\ shared \in Nat /\ generated \in Nat
  <2>1. model.layers \in Nat
    BY <1>1 DEF SP!ModelType
  <2>2. /\ SP!Embed(model).size \in Nat /\ SP!LayerBytes(model) \in Nat
        /\ SP!SharedSlice(model).size \in Nat /\ SP!GeneratedSlice(model).size \in Nat
    BY <1>1, SP!BytesOf
  <2> QED
    BY <2>1, <2>2
<1>4. /\ kvShared = SP!SharedKvBytes(model) /\ kvGenerated = SP!GeneratedKvBytes(model)
      /\ Scheduler!ActivationBytes(model) = SP!ActivationBytes(model)
      /\ Scheduler!TotalWeightBytes(model) = SP!TotalWeightBytes(model)
      /\ Scheduler!ForwardDuration(model) = SP!ForwardDuration(model)
  BY SameBytes
<1>5. ASSUME exact
      PROVE  /\ model.tp * weights = SP!TotalWeightBytes(model) + (model.tp - 1) * norms
             /\ shared = kvShared /\ generated = kvGenerated
  <2>1. /\ model.vocab % model.tp = 0 /\ model.heads % model.tp = 0
        /\ model.mlp % model.tp = 0 /\ model.kvHeads % model.tp = 0
    BY <1>5
  <2>2. model.tp * weights = SP!TotalWeightBytes(model) + (model.tp - 1) * norms
    BY <1>1, <2>1, SP!WeightsOnAll
  <2>3. shared = kvShared /\ generated = kvGenerated
    BY <1>1, <1>4, <1>5, SP!KvOnAll
  <2> QED
    BY <2>2, <2>3
<1>6. Scheduler!ForwardDuration(model) = all \div model.bandwidth
  BY <1>2, <1>4 DEF SP!ForwardDuration
<1> HIDE DEF weights, shared, generated, all, rest, exact, kvShared, kvGenerated, norms
<1>7. ASSUME exact
      PROVE  /\ model.tp * (all - kvShared) =
                  Scheduler!TotalWeightBytes(model) + (model.tp - 1) * norms
             /\ rest = kvGenerated + Scheduler!ActivationBytes(model)
  <2>1. all - kvShared = weights
    BY <1>2, <1>3, <1>5, <1>7
  <2> QED
    BY <1>2, <1>4, <1>5, <1>7, <2>1
<1> QED
  BY <1>6, <1>7 DEF all, rest, exact, kvShared, kvGenerated, norms

\* The sizes of the generated trace are those of the scheduler, for a batch of one.
LEMMA TraceSizes ==
  ASSUME NEW c, SP!ModelType(c), SP!ValidModel(c), c.batch = 1
  PROVE  \E e, w :
           /\ Sizes(c).weights = <<e>> \o w \o <<e>>
           /\ w \in Seq(Nat) /\ Len(w) = 9 * c.layers
           /\ \A k \in 1 .. 9 * c.layers :
                w[k] = SP!LayerWeights(c)[((k - 1) % 9) + 1].size
           /\ e = SP!Embed(c).size
           /\ Sizes(c).shared = SP!SharedSlice(c).size
           /\ Sizes(c).generated = SP!GeneratedSlice(c).size
           /\ Sizes(c).activations = SP!ActivationBytes(c)
<1> DEFINE e == (c.vocab * c.hidden * c.dtype) \div c.tp
           norm == c.hidden * c.dtype
           qo == (c.hidden * c.heads * c.headDim * c.dtype) \div c.tp
           kv == (c.hidden * c.kvHeads * c.headDim * c.dtype) \div c.tp
           mlp == (c.hidden * c.mlp * c.dtype) \div c.tp
           layer == <<norm, qo, kv, kv, qo, norm, mlp, mlp, mlp>>
           token == 2 * c.layers * c.cacheHeads * c.headDim * c.kvDtype
           more == IF c.seqLen > c.inLen + c.outLen THEN c.seqLen - (c.inLen + c.outLen)
                   ELSE 0
           w == [k \in 1 .. 9 * c.layers |-> layer[((k - 1) % 9) + 1]]
<1>1. /\ Sizes(c).weights = <<e>> \o w \o <<e>>
      /\ Sizes(c).shared = ((token * more) \div c.gpus) \div c.layers
      /\ Sizes(c).generated = ((token * (c.inLen + c.outLen)) \div c.gpus) \div c.layers
      /\ Sizes(c).activations = (c.hidden + c.mlp) * 2 * c.kvDtype * 2
  BY DEF Sizes
<1>2. /\ c.layers \in Nat /\ c.inLen \in Nat /\ c.outLen \in Nat /\ c.hidden \in Nat
      /\ c.mlp \in Nat /\ c.kvDtype \in Nat
  BY DEF SP!ModelType
<1>3. SP!GeneratedTokens(c) = c.inLen + c.outLen
  BY <1>2 DEF SP!GeneratedTokens
<1>4. SP!SharedTokens(c) = more /\ SP!KvBytesPerToken(c) = token
  BY <1>3 DEF SP!SharedTokens, SP!KvBytesPerToken
<1>5. /\ Sizes(c).shared = SP!SharedSlice(c).size
      /\ Sizes(c).generated = SP!GeneratedSlice(c).size
  BY <1>1, <1>3, <1>4 DEF SP!SharedSlice, SP!GeneratedSlice, SP!SharedKvBytes,
     SP!GeneratedKvBytes, SP!InHbf, SP!InHbm
<1>6. Sizes(c).activations = SP!ActivationBytes(c)
  <2> DEFINE x == (c.hidden + c.mlp) * 2 * c.kvDtype
  <2>1. x \in Nat
    BY <1>2
  <2>2. Sizes(c).activations = x * 2 /\ SP!ActivationBytes(c) = x * 1 * 2
    BY <1>1 DEF SP!ActivationBytes
  <2> HIDE DEF x
  <2>3. x * 1 = x
    BY <2>1
  <2> QED
    BY <2>2, <2>3
<1>7. e = SP!Embed(c).size
  BY DEF SP!Embed, SP!InHbf
<1>8. SP!LayerWeights(c) =
         <<SP!InHbf(norm), SP!InHbf(qo), SP!InHbf(kv), SP!InHbf(kv), SP!InHbf(qo),
           SP!InHbf(norm), SP!InHbf(mlp), SP!InHbf(mlp), SP!InHbf(mlp)>>
  BY DEF SP!LayerWeights
<1>9. \A i \in 1 .. 9 : SP!LayerWeights(c)[i].size \in Nat
  BY SP!SizesOf DEF SP!Shape
<1> HIDE DEF norm, qo, kv, mlp
<1>10. \A z : SP!InHbf(z).size = z
  BY DEF SP!InHbf
<1>11. \A i \in 1 .. 9 : layer[i] = SP!LayerWeights(c)[i].size
  BY <1>8, <1>10
<1> HIDE DEF layer, e
<1>12. \A k \in 1 .. 9 * c.layers :
         /\ w[k] = SP!LayerWeights(c)[((k - 1) % 9) + 1].size
         /\ w[k] \in Nat
  <2> SUFFICES ASSUME NEW k \in 1 .. 9 * c.layers
               PROVE  /\ w[k] = SP!LayerWeights(c)[((k - 1) % 9) + 1].size
                      /\ w[k] \in Nat
    OBVIOUS
  <2> DEFINE i == ((k - 1) % 9) + 1
  <2>1. i \in 1 .. 9
    BY <1>2
  <2>2. w[k] = layer[i]
    OBVIOUS
  <2> HIDE DEF w, i
  <2>3. w[k] = SP!LayerWeights(c)[i].size /\ w[k] \in Nat
    BY <1>9, <1>11, <2>1, <2>2
  <2> QED
    BY <2>3 DEF i
<1>13. w \in Seq(Nat) /\ Len(w) = 9 * c.layers
  <2>1. w = [k \in 1 .. 9 * c.layers |-> w[k]]
    OBVIOUS
  <2> HIDE DEF w
  <2>2. \A k \in 1 .. 9 * c.layers : w[k] \in Nat
    BY <1>12
  <2>3. w \in [1 .. 9 * c.layers -> Nat]
    BY <2>1, <2>2, Zenon
  <2>4. 9 * c.layers \in Nat
    BY <1>2
  <2> QED
    BY <2>3, <2>4, SP!SeqOf
<1> HIDE DEF w
<1> QED
  BY <1>1, <1>5, <1>6, <1>7, <1>12, <1>13

\* The trace has the sizes of HBF and HBM where the scheduler has them.
HbfSizes(c) == Sizes(c).weights \o [l \in 1 .. c.layers |-> Sizes(c).shared]
HbmSizes(c) == [l \in 1 .. c.layers |-> Sizes(c).generated] \o <<Sizes(c).activations>>

LEMMA TraceShapes ==
  ASSUME NEW c, SP!ModelType(c), SP!ValidModel(c), c.batch = 1
  PROVE  /\ HbfSizes(c) \in Seq(Nat) /\ Len(HbfSizes(c)) = 10 * c.layers + 2
         /\ \A k \in 1 .. 10 * c.layers + 2 : HbfSizes(c)[k] = SP!Shapes(c)[k].size
         /\ HbmSizes(c) \in Seq(Nat) /\ Len(HbmSizes(c)) = c.layers + 1
         /\ \A m \in 1 .. c.layers + 1 :
              HbmSizes(c)[m] = SP!Shapes(c)[10 * c.layers + 2 + m].size
<1>1. PICK e, w :
        /\ Sizes(c).weights = <<e>> \o w \o <<e>>
        /\ w \in Seq(Nat) /\ Len(w) = 9 * c.layers
        /\ \A k \in 1 .. 9 * c.layers :
             w[k] = SP!LayerWeights(c)[((k - 1) % 9) + 1].size
        /\ e = SP!Embed(c).size
        /\ Sizes(c).shared = SP!SharedSlice(c).size
        /\ Sizes(c).generated = SP!GeneratedSlice(c).size
        /\ Sizes(c).activations = SP!ActivationBytes(c)
  BY TraceSizes
<1> DEFINE L == c.layers
           s == [l \in 1 .. L |-> Sizes(c).shared]
           g == [l \in 1 .. L |-> Sizes(c).generated]
           x == Sizes(c).activations
           hs == HbfSizes(c)
           ms == HbmSizes(c)
           shapes == SP!Shapes(c)
<1>2. L \in Nat
  BY DEF SP!ModelType
<1>3. /\ e \in Nat /\ Sizes(c).shared \in Nat /\ Sizes(c).generated \in Nat /\ x \in Nat
  BY <1>1, SP!BytesOf
<1>4. /\ s \in Seq(Nat) /\ Len(s) = L /\ \A l \in 1 .. L : s[l] = SP!SharedSlice(c).size
      /\ g \in Seq(Nat) /\ Len(g) = L /\ \A l \in 1 .. L : g[l] = SP!GeneratedSlice(c).size
  <2>1. /\ s \in [1 .. L -> Nat] /\ \A l \in 1 .. L : s[l] = SP!SharedSlice(c).size
        /\ g \in [1 .. L -> Nat] /\ \A l \in 1 .. L : g[l] = SP!GeneratedSlice(c).size
    BY <1>1, <1>3
  <2> HIDE DEF s, g
  <2>2. s \in Seq(Nat) /\ Len(s) = L
    BY <1>2, <2>1, SP!SeqOf
  <2>3. g \in Seq(Nat) /\ Len(g) = L
    BY <1>2, <2>1, SP!SeqOf
  <2> QED
    BY <2>1, <2>2, <2>3
<1>5. hs = <<e>> \o w \o <<e>> \o s /\ ms = g \o <<x>>
  BY <1>1 DEF HbfSizes, HbmSizes
<1> HIDE DEF s, g, x, hs, ms
<1>6. hs \in Seq(Nat) /\ SP!Encloses(hs, e, w, 9 * L, s, L)
  <2>1. hs \in Seq(Nat) /\ SP!Encloses(hs, e, w, Len(w), s, Len(s))
    BY <1>1, <1>3, <1>4, <1>5, SP!Enclosed
  <2> QED
    BY <1>1, <1>4, <2>1
<1>7. 9 * L + 2 + L = 10 * L + 2
  BY <1>2
<1>8. /\ Len(hs) = 10 * L + 2
      /\ \A k \in 1 .. 10 * L + 2 :
           hs[k] = IF k = 1 \/ k = 9 * L + 2 THEN e
                   ELSE IF k <= 9 * L + 1 THEN w[k - 1] ELSE s[k - (9 * L + 2)]
  BY <1>6, <1>7 DEF SP!Encloses
<1>9. \A k \in 1 .. 11 * L + 3 : shapes[k] = SP!ShapeNo(c, k)
  BY SP!ShapesAre
<1>10. ASSUME NEW k \in 1 .. 10 * L + 2 PROVE hs[k] = shapes[k].size
  <2>1. k \in 1 .. 11 * L + 3 /\ k <= 10 * L + 2
    BY <1>2
  <2>2. shapes[k] = SP!ShapeNo(c, k)
    BY <1>9, <2>1
  <2> HIDE DEF shapes
  <2>3. CASE k = 1 \/ k = 9 * L + 2
    <3>1. SP!ShapeNo(c, k) = SP!Embed(c)
      BY <2>3 DEF SP!ShapeNo
    <3> QED
      BY <1>1, <1>8, <2>2, <2>3, <3>1
  <2>4. CASE k # 1 /\ k <= 9 * L + 1
    <3>1. k # 9 * L + 2 /\ k - 1 \in 1 .. 9 * L /\ (k - 1) - 1 = k - 2
      BY <1>2, <2>4
    <3>2. SP!ShapeNo(c, k) = SP!LayerWeights(c)[((k - 2) % 9) + 1]
      BY <2>4, <3>1 DEF SP!ShapeNo
    <3>3. hs[k] = w[k - 1]
      BY <1>8, <2>4, <3>1
    <3>4. w[k - 1] = SP!LayerWeights(c)[((k - 2) % 9) + 1].size
      BY <1>1, <3>1
    <3> QED
      BY <2>2, <3>2, <3>3, <3>4
  <2>5. CASE k > 9 * L + 2
    <3>1. k # 1 /\ k # 9 * L + 2 /\ ~ (k <= 9 * L + 1) /\ k - (9 * L + 2) \in 1 .. L
      BY <1>2, <2>5
    <3>2. SP!ShapeNo(c, k) = SP!SharedSlice(c)
      BY <2>1, <3>1 DEF SP!ShapeNo
    <3>3. hs[k] = s[k - (9 * L + 2)]
      BY <1>8, <3>1
    <3> QED
      BY <1>4, <2>2, <3>1, <3>2, <3>3
  <2>6. (k = 1 \/ k = 9 * L + 2) \/ (k # 1 /\ k <= 9 * L + 1) \/ k > 9 * L + 2
    BY <1>2
  <2> QED
    BY <2>3, <2>4, <2>5, <2>6
<1>11. /\ ms \in Seq(Nat) /\ Len(ms) = L + 1
       /\ \A m \in 1 .. L + 1 : ms[m] = IF m <= L THEN g[m] ELSE x
  <2>1. /\ ms \in Seq(Nat) /\ Len(ms) = Len(g) + 1
        /\ \A m \in 1 .. Len(g) + 1 : ms[m] = IF m <= Len(g) THEN g[m] ELSE x
    BY <1>3, <1>4, <1>5, SP!Closed
  <2> QED
    BY <1>4, <2>1
<1>12. ASSUME NEW m \in 1 .. L + 1 PROVE ms[m] = shapes[10 * L + 2 + m].size
  <2> DEFINE k == 10 * L + 2 + m
  <2>1. /\ k \in 1 .. 11 * L + 3 /\ ~ (k <= 10 * L + 2) /\ k # 1 /\ k # 9 * L + 2
        /\ ~ (k <= 9 * L + 1) /\ (k <= 11 * L + 2 <=> m <= L)
    BY <1>2
  <2> HIDE DEF k
  <2>2. shapes[k] = SP!ShapeNo(c, k)
    BY <1>9, <2>1
  <2> HIDE DEF shapes
  <2>3. CASE m <= L
    <3>1. SP!ShapeNo(c, k) = SP!GeneratedSlice(c)
      BY <2>1, <2>3 DEF SP!ShapeNo
    <3>2. ms[m] = g[m] /\ m \in 1 .. L
      BY <1>2, <1>11, <2>3
    <3> QED
      BY <1>4, <2>2, <3>1, <3>2 DEF k
  <2>4. CASE ~ (m <= L)
    <3>1. SP!ShapeNo(c, k) = SP!InHbm(SP!ActivationBytes(c))
      BY <2>1, <2>4 DEF SP!ShapeNo
    <3>2. ms[m] = SP!ActivationBytes(c)
      BY <1>1, <1>11, <2>4 DEF x
    <3> QED
      BY <2>2, <3>1, <3>2 DEF k, SP!InHbm
  <2> QED
    BY <2>3, <2>4
<1> QED
  BY <1>6, <1>8, <1>10, <1>11, <1>12 DEF hs, ms, shapes

\* The generated trace has the tensors of a memory where the scheduler has them.
LEMMA TraceOfHbf ==
  ASSUME AsBuilt, model.batch = 1
  PROVE  Placed(model, "Hbf", model.hbfBase, HbfSizes(model)) =
           {[region |-> tensors[k].region, addr |-> tensors[k].global,
             size |-> tensors[k].size] :
              k \in {k \in 1 .. 10 * model.layers + 2 : tensors[k].size > 0}}
<1> DEFINE c == model
           L == c.layers
           hs == HbfSizes(c)
           n == Len(hs)
           cur == SP!CursorAt(c, SP!Shapes(c), "Hbf")
           entry(k) == [region |-> tensors[k].region, addr |-> tensors[k].global,
                        size |-> tensors[k].size]
           place(k) == [region |-> "Hbf", addr |-> c.hbfBase + cur[k], size |-> hs[k]]
<1>1. SP!ModelType(c) /\ SP!ValidModel(c) /\ tensors = SP!Tensors(c)
  BY DEF AsBuilt
<1>2. L \in Nat
  BY <1>1 DEF SP!ModelType
<1>3. /\ hs \in Seq(Nat) /\ n = 10 * L + 2
      /\ \A k \in 1 .. 10 * L + 2 : hs[k] = SP!Shapes(c)[k].size
  BY <1>1, TraceShapes
<1>4. Cursor(c, hs, cur)
  <2> SUFFICES ASSUME NEW k \in 1 .. n
               PROVE  cur[k] = IF k = 1 THEN 0
                               ELSE IF hs[k - 1] <= 0 THEN cur[k - 1]
                               ELSE ((cur[k - 1] + hs[k - 1] + c.align - 1) \div c.align)
                                      * c.align
    BY DEF Cursor
  <2>1. k \in 1 .. 10 * L + 2
    BY <1>3
  <2>2. cur[k] = IF k = 1 THEN 0
                 ELSE SP!After(c, cur[k - 1], SP!Shapes(c)[k - 1].size)
    BY <1>1, <2>1, SP!HbfCursor
  <2>3. CASE k = 1
    BY <2>2, <2>3
  <2>4. CASE k # 1
    <3>1. k - 1 \in 1 .. 10 * L + 2
      BY <1>2, <2>1, <2>4
    <3>2. hs[k - 1] = SP!Shapes(c)[k - 1].size
      BY <1>3, <3>1
    <3> HIDE DEF hs, cur
    <3> QED
      BY <2>2, <2>4, <3>2 DEF SP!After
  <2> QED
    BY <2>3, <2>4
<1>5. Placed(c, "Hbf", c.hbfBase, hs) = PlacedBy("Hbf", c.hbfBase, hs, cur)
  BY <1>3, <1>4, PlacedAt
<1>6. ASSUME NEW k \in 1 .. 10 * L + 2
      PROVE  place(k) = entry(k) /\ hs[k] = tensors[k].size
  <2>1. k \in 1 .. 11 * L + 3 /\ k <= 10 * L + 2
    BY <1>2
  <2>2. /\ tensors[k].region = "Hbf" /\ tensors[k].size = SP!Shapes(c)[k].size
        /\ tensors[k].global = SP!Base(c, "Hbf") + cur[k]
    BY <1>1, <2>1, SP!TensorNo
  <2>3. hs[k] = SP!Shapes(c)[k].size
    BY <1>3
  <2> HIDE DEF hs, cur
  <2> QED
    BY <2>2, <2>3 DEF SP!Base
<1>7. PlacedBy("Hbf", c.hbfBase, hs, cur)
        = {place(k) : k \in {k \in 1 .. 10 * L + 2 : hs[k] > 0}}
  BY <1>3 DEF PlacedBy
<1>8. {place(k) : k \in {k \in 1 .. 10 * L + 2 : hs[k] > 0}}
        = {entry(k) : k \in {k \in 1 .. 10 * L + 2 : tensors[k].size > 0}}
  <2> HIDE DEF place, entry, hs
  <2> QED
    BY <1>6
<1> QED
  BY <1>5, <1>7, <1>8

LEMMA TraceOfHbm ==
  ASSUME AsBuilt, model.batch = 1
  PROVE  Placed(model, "Hbm", model.hbmBase, HbmSizes(model)) =
           {[region |-> tensors[k].region, addr |-> tensors[k].global,
             size |-> tensors[k].size] :
              k \in {k \in 10 * model.layers + 3 .. 11 * model.layers + 3 :
                       tensors[k].size > 0}}
<1> DEFINE c == model
           L == c.layers
           p == 10 * L + 2
           ms == HbmSizes(c)
           n == Len(ms)
           at == SP!CursorAt(c, SP!Shapes(c), "Hbm")
           cur == [m \in 1 .. L + 1 |-> at[p + m]]
           entry(k) == [region |-> tensors[k].region, addr |-> tensors[k].global,
                        size |-> tensors[k].size]
           place(m) == [region |-> "Hbm", addr |-> c.hbmBase + cur[m], size |-> ms[m]]
<1>1. SP!ModelType(c) /\ SP!ValidModel(c) /\ tensors = SP!Tensors(c)
  BY DEF AsBuilt
<1>2. L \in Nat
  BY <1>1 DEF SP!ModelType
<1>3. /\ ms \in Seq(Nat) /\ n = L + 1
      /\ \A m \in 1 .. L + 1 : ms[m] = SP!Shapes(c)[p + m].size
  BY <1>1, TraceShapes
<1>4. Cursor(c, ms, cur)
  <2> SUFFICES ASSUME NEW m \in 1 .. n
               PROVE  cur[m] = IF m = 1 THEN 0
                               ELSE IF ms[m - 1] <= 0 THEN cur[m - 1]
                               ELSE ((cur[m - 1] + ms[m - 1] + c.align - 1) \div c.align)
                                      * c.align
    BY DEF Cursor
  <2>1. m \in 1 .. L + 1
    BY <1>3
  <2> DEFINE k == p + m
  <2>2. at[k] = IF m = 1 THEN 0
                ELSE SP!After(c, at[k - 1], SP!Shapes(c)[k - 1].size)
    BY <1>1, <2>1, SP!HbmCursor
  <2>3. cur[m] = at[k]
    BY <2>1
  <2>4. CASE m = 1
    BY <2>2, <2>3, <2>4
  <2>5. CASE m # 1
    <3>1. m - 1 \in 1 .. L + 1 /\ k - 1 = p + (m - 1)
      BY <1>2, <2>1, <2>5
    <3>2. ms[m - 1] = SP!Shapes(c)[k - 1].size /\ cur[m - 1] = at[k - 1]
      BY <1>3, <3>1
    <3> HIDE DEF ms, cur, at, k
    <3> QED
      BY <2>2, <2>3, <2>5, <3>2 DEF SP!After
  <2> QED
    BY <2>4, <2>5
<1>5. Placed(c, "Hbm", c.hbmBase, ms) = PlacedBy("Hbm", c.hbmBase, ms, cur)
  BY <1>3, <1>4, PlacedAt
<1>6. ASSUME NEW m \in 1 .. L + 1
      PROVE  place(m) = entry(p + m) /\ ms[m] = tensors[p + m].size
  <2> DEFINE k == p + m
  <2>1. k \in 1 .. 11 * L + 3 /\ ~ (k <= 10 * L + 2)
    BY <1>2
  <2>2. cur[m] = at[k] /\ ms[m] = SP!Shapes(c)[k].size
    BY <1>3
  <2> HIDE DEF k
  <2>3. /\ tensors[k].region = "Hbm" /\ tensors[k].size = SP!Shapes(c)[k].size
        /\ tensors[k].global = SP!Base(c, "Hbm") + at[k]
    BY <1>1, <2>1, SP!TensorNo
  <2> HIDE DEF ms, cur, at
  <2>4. place(m) = entry(k) /\ ms[m] = tensors[k].size
    BY <2>2, <2>3 DEF SP!Base
  <2> QED
    BY <2>4 DEF k
<1>7. PlacedBy("Hbm", c.hbmBase, ms, cur) = {place(m) : m \in {m \in 1 .. L + 1 : ms[m] > 0}}
  BY <1>3 DEF PlacedBy
<1>8. {place(m) : m \in {m \in 1 .. L + 1 : ms[m] > 0}}
        = {entry(k) : k \in {k \in 10 * L + 3 .. 11 * L + 3 : tensors[k].size > 0}}
  <2> DEFINE S == {m \in 1 .. L + 1 : ms[m] > 0}
             T == {k \in 10 * L + 3 .. 11 * L + 3 : tensors[k].size > 0}
  <2>1. ASSUME NEW m \in S PROVE p + m \in T /\ place(m) = entry(p + m)
    <3>1. p + m \in 10 * L + 3 .. 11 * L + 3
      BY <1>2
    <3> HIDE DEF place, entry, ms, p
    <3> QED
      BY <1>6, <3>1
  <2>2. ASSUME NEW k \in T PROVE \E m \in S : p + m = k
    <3> DEFINE m == k - p
    <3>1. m \in 1 .. L + 1 /\ p + m = k
      BY <1>2
    <3> HIDE DEF m, place, entry, ms, p
    <3>2. m \in S
      BY <1>6, <3>1
    <3> QED
      BY <3>1, <3>2
  <2> HIDE DEF S, T, place, entry, p
  <2>3. {place(m) : m \in S} = {entry(k) : k \in T}
    BY <2>1, <2>2
  <2> QED
    BY <2>3 DEF S, T
<1> QED
  BY <1>5, <1>7, <1>8

\* So it has all of them there.
LEMMA TraceOfModel ==
  ASSUME AsBuilt, model.batch = 1
  PROVE  Extents = BuildLayout(model)
<1> DEFINE L == model.layers
           N == 11 * L + 3
           entry(k) == [region |-> tensors[k].region, addr |-> tensors[k].global,
                        size |-> tensors[k].size]
<1>1. SP!ModelType(model) /\ SP!ValidModel(model) /\ tensors = SP!Tensors(model)
  BY DEF AsBuilt
<1>2. L \in Nat
  BY <1>1 DEF SP!ModelType
<1>3. DOMAIN tensors = 1 .. N
  BY <1>1, SP!TensorNo
<1>4. BuildLayout(model) = Placed(model, "Hbf", model.hbfBase, HbfSizes(model))
                             \cup Placed(model, "Hbm", model.hbmBase, HbmSizes(model))
  BY DEF BuildLayout, HbfSizes, HbmSizes
<1>5. BuildLayout(model) =
        {entry(k) : k \in {k \in 1 .. 10 * L + 2 : tensors[k].size > 0}}
          \cup {entry(k) : k \in {k \in 10 * L + 3 .. N : tensors[k].size > 0}}
  BY <1>4, TraceOfHbf, TraceOfHbm
<1>6. 1 .. N = (1 .. 10 * L + 2) \cup (10 * L + 3 .. N)
  BY <1>2
<1>7. Extents = {entry(k) : k \in {k \in 1 .. N : tensors[k].size > 0}}
  BY <1>3 DEF Extents
<1> HIDE DEF entry, N, L
<1> QED
  BY <1>5, <1>6, <1>7

\* What is laid out is the model: nothing of it is lost or held twice but what
\* rounding loses and the norms, and the generated trace of a batch of one
\* accesses it where it is.
THEOREM LayoutHoldsTheModel == SystemSpec => []LayoutIsTheModel
<1>1. AsBuilt => LayoutIsTheModel
  <2> SUFFICES ASSUME AsBuilt PROVE LayoutIsTheModel
    OBVIOUS
  <2>1. model.batch = 1 => Extents = BuildLayout(model)
    BY TraceOfModel
  <2> QED
    BY <2>1, BytesAreTheModel, Zenon DEF LayoutIsTheModel
<1> QED
  BY <1>1, BuiltOnce, PTL

=============================================================================
