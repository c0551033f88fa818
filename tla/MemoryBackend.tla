--------------------------- MODULE MemoryBackend ---------------------------
(***************************************************************************)
(* One H3 memory backend (h3-components/h3_memory_backend.{h,cpp}), driven *)
(* by the cycle GPGPU-Sim is patched to run (h3_dram_cycle()).  It owns the *)
(* prefetch scheduler, the address router, the Latency Hiding Buffer and    *)
(* the two memory devices.                                                  *)
(*                                                                         *)
(* The program is one thread.  One iteration of h3_dram_cycle() is the walk *)
(* of pc through                                                           *)
(*   drain -> cycle -> hints -> lhb -> hbm -> hbf -> retire -> push -> drain*)
(* where hints, hbm and hbf (callbacks) and retire are loops.  A request is *)
(* known by its identity (the mem_fetch pointer); its owner may push it     *)
(* again only after it has popped it.                                       *)
(*                                                                         *)
(* As in LatencyHidingBuffer, every stored time is kept less the clock, and *)
(* past times are all 0.  make_device() builds both devices of one kind:    *)
(* analytic (Async = FALSE: the completion time is known at once) or        *)
(* Ramulator (Async = TRUE: the device calls back; external, so a request   *)
(* it holds may complete at any tick and in any order).                     *)
(***************************************************************************)
EXTENDS Integers, Sequences, FiniteSets

CONSTANTS
  NumHalves, HalfLines, Interleave, MaxOutstanding, Enabled, Async,
  ReadLatency, LineTime, SramLatency,     \* see LatencyHidingBuffer
  Hop,               \* d2d_hops * d2d_hop_latency, in clock periods
  Requests,          \* [id, region, write, addr, size] the GPU may push
  Schedule,          \* the hints, in the order they come due: [tensor, at]
  MaxHintsQueued,    \* max_outstanding_hints
  WritePolicy,       \* hbf_write_policy; "Allow" when the check is disabled
  RequestQueueSize, ReturnQueueSize,
  HbmLatency, HbmTransfer, HbmDepth,   \* the analytic HBM device
  HbfTransfer, HbfDepth                \* the analytic HBF device

Regions == {"Hbm", "Hbf", "Unmapped"}

ASSUME BackendConstants ==
  /\ NumHalves \in Nat \ {0}
  /\ HalfLines \in Nat \ {0}
  /\ MaxOutstanding \in Nat \ {0}
  /\ {Interleave, ReadLatency, LineTime, SramLatency, Hop} \subseteq Nat
  /\ {HbmLatency, HbmTransfer, HbfTransfer} \subseteq Nat
  /\ {HbmDepth, HbfDepth, RequestQueueSize, ReturnQueueSize, MaxHintsQueued}
       \subseteq Nat \ {0}
  /\ Enabled \in BOOLEAN /\ Async \in BOOLEAN
  /\ WritePolicy \in {"Reject", "RedirectHbm", "Allow"}
  /\ \A r \in Requests :
       r.region \in Regions /\ r.write \in BOOLEAN /\ r.addr \in Nat
       /\ r.size \in Nat \ {0}
  /\ Schedule \in Seq([tensor : [addr : Nat, size : Nat], at : Nat])

VARIABLES
  halves, streams, nextToken, fills, counts, last,   \* m_lhb
  pc,            \* where h3_dram_cycle() is
  clock,         \* now_ps(), stopped once the last hint is due
  nextHint,      \* m_next_hint of the scheduler
  pending,       \* m_pending: [req, left, lat]; lat is ready less issue time
  asyncPending,  \* m_async_pending: requests inside a Ramulator device
  waiters,       \* m_fill_waiters: per half, the requests parked on its fill
  asyncDone,     \* m_async_done: [req, left]
  returnQueue,   \* m_return_queue
  hbm, hbf,      \* analytic devices: [next, done], m_next_free and completions
  rejectedFull,  \* has a push met a full device?  (stats.rejected_full > 0)
  away           \* the GPU's side: requests it pushed and has not got back

lhbVars == <<halves, streams, nextToken, fills, counts, last>>
queueVars == <<pending, asyncPending, waiters, asyncDone, returnQueue>>
timeVars == <<clock, nextHint>>
deviceVars == <<hbm, hbf, rejectedFull>>
vars == <<lhbVars, pc, timeVars, queueVars, deviceVars, away>>

DemandOf(r) == [addr |-> r.addr, size |-> r.size]

Seqs == INSTANCE SequencesExt

LHB == INSTANCE LatencyHidingBuffer
         WITH Tensors <- {Schedule[k].tensor : k \in DOMAIN Schedule},
              Demands <- {DemandOf(r) : r \in Requests},
              MaxHints <- Len(Schedule)

-----------------------------------------------------------------------------
(* Time and the analytic devices.                                           *)

Sooner(n) == IF n = 0 THEN 0 ELSE n - 1

SoonerAll(q) == [k \in DOMAIN q |-> [q[k] EXCEPT !.left = Sooner(@)]]

SoonerDevice(dev) ==
  [next |-> Sooner(dev.next),
   done |-> [k \in DOMAIN dev.done |-> Sooner(dev.done[k])]]

IdleDevice == [next |-> 0, done |-> <<>>]

\* When the transfer issued at offset t leaves the bus.
BusFree(dev, t, transfer) == LHB!Greatest(t, dev.next) + transfer

\* AnalyticMemoryDevice::enqueue(): transfers queue for the bus, latencies
\* overlap.
Enqueued(dev, t, transfer, latency) ==
  LET free == BusFree(dev, t, transfer)
  IN  [next |-> free, done |-> Append(dev.done, free + latency)]

\* AnalyticMemoryDevice::tick(): completions are popped from the front.
Popped(done) ==
  LET n == CHOOSE n \in 0 .. Len(done) :
             /\ \A k \in 1 .. n : done[k] = 0
             /\ n < Len(done) => done[n + 1] # 0
  IN  SubSeq(done, n + 1, Len(done))

\* A Ramulator device is full only beyond 4096 requests, more than the
\* request queue lets in; that fill sectors may also saturate it is covered by
\* the driver's freedom not to push.
CanAccept(dev, depth) == Async \/ Len(dev.done) < depth

-----------------------------------------------------------------------------
(* Backpressure and routing.                                                *)

\* A place in the index: a half and a position in its list of requests.
Parked == UNION {{h} \X DOMAIN waiters[h] : h \in LHB!Halves}

\* Requests that no completion has been recorded for yet.
Unfinished == Len(pending) + Cardinality(asyncPending) + Cardinality(Parked)

\* Mutant: requests parked on a fill are not counted.
FullIgnoresParked ==
  \/ Len(pending) + Cardinality(asyncPending) >= RequestQueueSize
  \/ Len(asyncDone) >= ReturnQueueSize
  \/ Len(returnQueue) >= ReturnQueueSize
  \/ ~CanAccept(hbm, HbmDepth)
  \/ ~CanAccept(hbf, HbfDepth)

\* Mutant: the devices are not asked.
FullIgnoresDevices ==
  \/ Unfinished >= RequestQueueSize
  \/ Len(asyncDone) >= ReturnQueueSize
  \/ Len(returnQueue) >= ReturnQueueSize

\* full()
Full ==
  \/ Unfinished >= RequestQueueSize
  \/ Len(asyncDone) >= ReturnQueueSize
  \/ Len(returnQueue) >= ReturnQueueSize
  \/ ~CanAccept(hbm, HbmDepth)
  \/ ~CanAccept(hbf, HbfDepth)

\* The route inspect() decides on, before the device is asked.
Inspect(r) ==
  IF r.region = "Unmapped" THEN "RejectedUnmapped"
  ELSE IF r.region = "Hbm" THEN "RoutedHbm"
  ELSE IF r.write /\ WritePolicy = "RedirectHbm" THEN "RoutedHbm"
  ELSE IF r.write /\ WritePolicy = "Reject" THEN "RejectedWriteToHbf"
  ELSE "RoutedHbf"

\* route(): backpressure of the target turns a route into a rejection.
Route(r) ==
  IF \/ Inspect(r) = "RoutedHbm" /\ ~CanAccept(hbm, HbmDepth)
     \/ Inspect(r) = "RoutedHbf" /\ ~CanAccept(hbf, HbfDepth)
    THEN "RejectedBackendFull"
    ELSE Inspect(r)

-----------------------------------------------------------------------------
(* push().                                                                  *)

\* Mutant: a new entry goes to the back.
InsertedAtBack(q, r, ready) ==
  Append(q, [req |-> r, left |-> ready, lat |-> ready])

\* m_pending stays ordered by ready time; equals keep their order of arrival.
Inserted(q, r, ready) ==
  LET n == Cardinality({k \in DOMAIN q : q[k].left <= ready})
  IN  Seqs!InsertAt(q, n + 1, [req |-> r, left |-> ready, lat |-> ready])

\* The request is finished as far as push() knows: it waits until ready.
Settle(r, ready) ==
  /\ pending' = Inserted(pending, r, ready)
  /\ UNCHANGED <<asyncPending, waiters, asyncDone, returnQueue>>

\* The request is inside a Ramulator device.
HandOver(r) ==
  /\ asyncPending' = asyncPending \cup {r}
  /\ UNCHANGED <<pending, waiters, asyncDone, returnQueue>>

\* The request is parked on the fill of half h.
Park(r, h) ==
  /\ waiters' = [waiters EXCEPT ![h] = Append(@, r)]
  /\ UNCHANGED <<pending, asyncPending, asyncDone, returnQueue>>

\* A Ramulator device holds a request stamped in the future, and may refuse
\* one that is due at once: it is then settled at its issue time.
MayRefuse(t) == t = 0

\* Mutant: the completion time of the device does not reach the entry.
PushHbmUntimed(r) ==
  /\ Route(r) = "RoutedHbm"
  /\ ~Async
  /\ hbm' = Enqueued(hbm, 0, HbmTransfer, HbmLatency)
  /\ Settle(r, 0)
  /\ UNCHANGED <<rejectedFull, hbf, lhbVars>>

PushHbm(r) ==
  /\ Route(r) = "RoutedHbm"
  /\ \/ /\ ~Async
        /\ hbm' = Enqueued(hbm, 0, HbmTransfer, HbmLatency)
        /\ Settle(r, BusFree(hbm, 0, HbmTransfer) + HbmLatency)
        /\ UNCHANGED rejectedFull
     \/ Async /\ HandOver(r) /\ UNCHANGED <<hbm, rejectedFull>>
     \/ Async /\ MayRefuse(0) /\ Settle(r, 0) /\ rejectedFull' = TRUE
        /\ UNCHANGED hbm
  /\ UNCHANGED <<hbf, lhbVars>>

\* The buffer decides first; the device sees only what the buffer missed.
PushHbf(r) ==
  LET ready == Hop + LHB!ReadyTime(last')
      transfer == r.size * HbfTransfer
      landed == BusFree(hbf, Hop, transfer) + ReadLatency
  IN  /\ Route(r) = "RoutedHbf"
      /\ LHB!Access(DemandOf(r))
      /\ \/ /\ last'.waiting
            /\ Park(r, last'.half)
            /\ UNCHANGED <<hbf, rejectedFull>>
         \/ /\ last'.outcome = "Hit"
            /\ Settle(r, ready)
            /\ UNCHANGED <<hbf, rejectedFull>>
         \/ /\ last'.outcome # "Hit" /\ ~last'.waiting
            /\ \/ /\ ~Async
                  /\ hbf' = Enqueued(hbf, Hop, transfer, ReadLatency)
                  /\ Settle(r, LHB!Greatest(landed, ready))
                  /\ UNCHANGED rejectedFull
               \/ Async /\ HandOver(r) /\ UNCHANGED <<hbf, rejectedFull>>
               \/ Async /\ MayRefuse(Hop) /\ Settle(r, ready)
                  /\ rejectedFull' = TRUE /\ UNCHANGED hbf
      /\ UNCHANGED hbm

\* Mutant: a rejected request is counted and forgotten.
PushRejectedDrops(r) ==
  /\ Route(r) \in {"RejectedWriteToHbf", "RejectedUnmapped"}
  /\ UNCHANGED <<queueVars, lhbVars, deviceVars>>

\* Answered at once, so that the partition does not deadlock on it.
PushRejected(r) ==
  /\ Route(r) \in {"RejectedWriteToHbf", "RejectedUnmapped"}
  /\ Settle(r, 0)
  /\ UNCHANGED <<lhbVars, deviceVars>>

\* The device is full although full() said otherwise: a full latency.
PushBackendFull(r) ==
  /\ Route(r) = "RejectedBackendFull"
  /\ Settle(r, IF r.region = "Hbf" THEN ReadLatency ELSE HbmLatency)
  /\ rejectedFull' = TRUE
  /\ UNCHANGED <<lhbVars, hbm, hbf>>

-----------------------------------------------------------------------------
(* The steps of one cycle.                                                  *)

Go(from, to) == pc = from /\ pc' = to

\* 1. One answer goes back, when its sub-partition has room for it.
Collect ==
  /\ Go("drain", "cycle")
  /\ returnQueue # <<>>
  /\ returnQueue' = Tail(returnQueue)
  /\ away' = away \ {Head(returnQueue)}
  /\ UNCHANGED <<lhbVars, timeVars, deviceVars, pending, asyncPending, waiters,
                 asyncDone>>

CollectNothing ==
  /\ Go("drain", "cycle")
  /\ UNCHANGED <<lhbVars, timeVars, queueVars, deviceVars, away>>

\* 2. cycle(): ++m_cycle.
LastDue == IF Schedule = <<>> THEN 0 ELSE Schedule[Len(Schedule)].at

BeginCycle ==
  /\ Go("cycle", "hints")
  /\ clock' = LHB!Least(LastDue, clock + 1)
  /\ pending' = SoonerAll(pending)
  /\ asyncDone' = SoonerAll(asyncDone)
  /\ hbm' = SoonerDevice(hbm)
  /\ hbf' = SoonerDevice(hbf)
  /\ UNCHANGED <<lhbVars, nextHint, asyncPending, waiters, returnQueue,
                 rejectedFull, away>>

\* The scheduler issues every hint that is due, up to its throttle.
HintDue ==
  /\ nextHint <= Len(Schedule)
  /\ Schedule[nextHint].at <= clock
  /\ LHB!PendingHints < MaxHintsQueued

ScheduleHint ==
  /\ Go("hints", "hints")
  /\ HintDue
  /\ LHB!IssueHint(Schedule[nextHint].tensor)
  /\ nextHint' = nextHint + 1
  /\ UNCHANGED <<clock, queueVars, deviceVars, away>>

HintsIssued ==
  /\ Go("hints", "lhb")
  /\ ~HintDue
  /\ UNCHANGED <<lhbVars, timeVars, queueVars, deviceVars, away>>

TickLhb ==
  /\ Go("lhb", "hbm")
  /\ LHB!Tick
  /\ UNCHANGED <<timeVars, queueVars, deviceVars, away>>

\* The tick of the device push() handed the request to.
TickOf(r) == IF Inspect(r) = "RoutedHbm" THEN "hbm" ELSE "hbf"

\* on_async_completion(), called while that device ticks.
DemandDone(r) ==
  /\ Go(TickOf(r), TickOf(r))
  /\ r \in asyncPending
  /\ asyncPending' = asyncPending \ {r}
  /\ asyncDone' = Append(asyncDone, [req |-> r, left |-> 0])
  /\ UNCHANGED <<lhbVars, timeVars, deviceVars, pending, waiters, returnQueue,
                 away>>

\* The half whose fill the callback is for.
Landing == CHOOSE h \in LHB!Halves : halves[h].pending /\ ~halves'[h].pending

\* Mutant: the buffer's callback does not reach the backend.
FillDoneUnheard(token) ==
  /\ Go("hbf", "hbf")
  /\ LHB!FillComplete(token)
  /\ UNCHANGED <<timeVars, deviceVars, queueVars, away>>

\* Mutant: the entry of the half is not erased once its requests are released.
FillDoneKeepsWaiters(token) ==
  /\ Go("hbf", "hbf")
  /\ LHB!FillComplete(token)
  /\ asyncDone' = asyncDone \o [k \in DOMAIN waiters[Landing] |->
                     [req |-> waiters[Landing][k], left |-> SramLatency]]
  /\ UNCHANGED <<timeVars, deviceVars, pending, asyncPending, waiters,
                 returnQueue, away>>

\* HBF has read the last sector of a fill: LatencyHidingBuffer::on_fill_complete()
\* calls on_fill_complete(), which releases the requests parked on the half.
FillDone(token) ==
  /\ Go("hbf", "hbf")
  /\ LHB!FillComplete(token)
  /\ asyncDone' = asyncDone \o [k \in DOMAIN waiters[Landing] |->
                     [req |-> waiters[Landing][k], left |-> SramLatency]]
  /\ waiters' = [waiters EXCEPT ![Landing] = <<>>]
  /\ UNCHANGED <<timeVars, deviceVars, pending, asyncPending, returnQueue, away>>

\* cycle() ticks HBM to its end before it ticks HBF.
TickHbm ==
  /\ Go("hbm", "hbf")
  /\ hbm' = [hbm EXCEPT !.done = Popped(@)]
  /\ UNCHANGED <<lhbVars, timeVars, queueVars, hbf, rejectedFull, away>>

\* Mutant: the HBF device is not ticked.
TickHbfSkipped ==
  /\ Go("hbf", "retire")
  /\ UNCHANGED <<lhbVars, timeVars, queueVars, deviceVars, away>>

TickHbf ==
  /\ Go("hbf", "retire")
  /\ hbf' = [hbf EXCEPT !.done = Popped(@)]
  /\ UNCHANGED <<lhbVars, timeVars, queueVars, hbm, rejectedFull, away>>

\* Mutant: the return queue may hold one answer too many.
RoomOffByOne == Len(returnQueue) <= ReturnQueueSize

\* retire_ready(): asynchronous completions first, then what has become ready.
Room == Len(returnQueue) < ReturnQueueSize

PendingReady == pending # <<>> /\ pending[1].left = 0

RetireAsync ==
  /\ Go("retire", "retire")
  /\ asyncDone # <<>> /\ Room
  /\ returnQueue' = Append(returnQueue, asyncDone[1].req)
  /\ asyncDone' = Tail(asyncDone)
  /\ UNCHANGED <<lhbVars, timeVars, deviceVars, pending, asyncPending, waiters,
                 away>>

\* Mutant: the retired entry is not popped.
RetirePendingKeeps ==
  /\ Go("retire", "retire")
  /\ asyncDone = <<>> /\ Room /\ PendingReady
  /\ returnQueue' = Append(returnQueue, pending[1].req)
  /\ UNCHANGED <<lhbVars, timeVars, deviceVars, pending, asyncPending, waiters,
                 asyncDone, away>>

RetirePending ==
  /\ Go("retire", "retire")
  /\ asyncDone = <<>> /\ Room /\ PendingReady
  /\ returnQueue' = Append(returnQueue, pending[1].req)
  /\ pending' = Tail(pending)
  /\ UNCHANGED <<lhbVars, timeVars, deviceVars, asyncPending, waiters, asyncDone,
                 away>>

Retired ==
  /\ Go("retire", "push")
  /\ Room => asyncDone = <<>> /\ ~PendingReady
  /\ UNCHANGED <<lhbVars, timeVars, queueVars, deviceVars, away>>

\* 4. The head of the GPU's latency queue, if there is one and full() allows.
Push(r) ==
  /\ Go("push", "drain")
  /\ r \notin away
  /\ ~Full
  /\ PushHbm(r) \/ PushHbf(r) \/ PushRejected(r) \/ PushBackendFull(r)
  /\ away' = away \cup {r}
  /\ UNCHANGED timeVars

PushNothing ==
  /\ Go("push", "drain")
  /\ UNCHANGED <<lhbVars, timeVars, queueVars, deviceVars, away>>

-----------------------------------------------------------------------------
\* Mutant: the scheduler's position starts in front of the first hint.
InitBeforeSchedule ==
  /\ LHB!Init
  /\ pc = "drain"
  /\ clock = 0
  /\ nextHint = 0
  /\ pending = <<>>
  /\ asyncPending = {}
  /\ waiters = [h \in LHB!Halves |-> <<>>]
  /\ asyncDone = <<>>
  /\ returnQueue = <<>>
  /\ hbm = IdleDevice
  /\ hbf = IdleDevice
  /\ rejectedFull = FALSE
  /\ away = {}

Init ==
  /\ LHB!Init
  /\ pc = "drain"
  /\ clock = 0
  /\ nextHint = 1
  /\ pending = <<>>
  /\ asyncPending = {}
  /\ waiters = [h \in LHB!Halves |-> <<>>]
  /\ asyncDone = <<>>
  /\ returnQueue = <<>>
  /\ hbm = IdleDevice
  /\ hbf = IdleDevice
  /\ rejectedFull = FALSE
  /\ away = {}

\* The steps the simulator itself takes.
Walk ==
  \/ CollectNothing \/ BeginCycle \/ ScheduleHint \/ HintsIssued \/ TickLhb
  \/ TickHbm \/ TickHbf \/ RetireAsync \/ RetirePending \/ Retired \/ PushNothing

Next ==
  \/ Walk
  \/ Collect
  \/ \E r \in Requests : Push(r) \/ DemandDone(r)
  \/ \E token \in fills : FillDone(token)

Spec == Init /\ [][Next]_vars

\* GPGPU-Sim keeps cycling; L2 makes room for answers again and again; a
\* Ramulator device completes every request and every fill it accepted.
FairSpec ==
  /\ Spec
  /\ WF_vars(Walk)
  /\ SF_vars(Collect)
  /\ \A r \in Requests : SF_vars(DemandDone(r))
  /\ SF_vars(\E token \in fills : FillDone(token))
-----------------------------------------------------------------------------
(* Properties.                                                              *)

Entry == [req : Requests, left : Nat]

Device == [next : Nat, done : Seq(Nat)]

\* Every variable keeps the type its declaration gives it, those of the buffer
\* theirs there.
TypeOK ==
  /\ LHB!TypeOK
  /\ pc \in {"drain", "cycle", "hints", "lhb", "hbm", "hbf", "retire", "push"}
  /\ clock \in 0 .. LastDue
  /\ nextHint \in 1 .. Len(Schedule) + 1
  /\ pending \in Seq([req : Requests, left : Nat, lat : Nat])
  /\ asyncPending \subseteq Requests
  /\ waiters \in [LHB!Halves -> Seq(Requests)]
  /\ asyncDone \in Seq(Entry)
  /\ returnQueue \in Seq(Requests)
  /\ {hbm, hbf} \subseteq Device
  /\ rejectedFull \in BOOLEAN
  /\ away \subseteq Requests

\* Requests parked on a half are parked on the fill of that half that is still
\* in flight: the index never comes to mean a later fill, or none at all.
WaitersOnFill ==
  \A h \in LHB!Halves : \A k \in DOMAIN waiters[h] :
    halves[h].pending /\ LHB!Covers(halves[h], DemandOf(waiters[h][k]))

\* Every request the GPU waits for is in exactly one place: no path of push(),
\* of a callback or of retire_ready() loses one or answers it twice.
Inside ==
  {pending[k].req : k \in DOMAIN pending} \cup asyncPending
    \cup {waiters[p[1]][p[2]] : p \in Parked}
    \cup {asyncDone[k].req : k \in DOMAIN asyncDone}

ExactlyOnePlace ==
  /\ away = Inside \cup Seqs!ToSet(returnQueue)
  /\ Cardinality(away) = Unfinished + Len(asyncDone) + Len(returnQueue)

\* The queues stay within the sizes configured for them although full() is
\* asked before a push and callbacks arrive after it: completions that have not
\* reached the return queue still count against request_queue_size, because
\* they are left over at a push only when the return queue is full.
QueueBounds ==
  /\ Unfinished + Len(asyncDone) <= RequestQueueSize
  /\ Len(returnQueue) <= ReturnQueueSize

\* Nothing is retired ahead of a request that was ready before it:
\* "Keep the queue ordered by ready time so retire_ready() only inspects the
\* front".
PendingOrdered ==
  \A j, k \in DOMAIN pending : j < k => pending[j].left <= pending[k].left

\* "Async completions first -- they are already ordered by completion time."
AsyncDoneOrdered ==
  \A j, k \in DOMAIN asyncDone : j < k => asyncDone[j].left <= asyncDone[k].left

\* "Unreachable in normal operation: full() now reports device occupancy, so
\* the partition retries instead of pushing into a full device."
FullNeverPushed == ~rejectedFull

\* No request is answered for free: what is routed to a memory waits at least
\* for that memory, or for the buffer in front of it.
NoFreeAccess ==
  \A k \in DOMAIN pending :
    /\ Inspect(pending[k].req) = "RoutedHbm" => pending[k].lat >= HbmLatency
    /\ Inspect(pending[k].req) = "RoutedHbf" => pending[k].lat >= Hop + SramLatency

\* What the memory partition sees of the backend.
Port == INSTANCE MemoryPort
          WITH Capacity <- RequestQueueSize,
               ReturnSize <- ReturnQueueSize,
               waiting <- away \ Seqs!ToSet(returnQueue),
               answers <- returnQueue

\* Seen from the partition, the backend is a fair MemoryPort: a bounded number
\* of requests inside, each answered once and collected in the order answered,
\* and each answered at last, however many others are pushed meanwhile.
IsFairMemoryPort == Port!FairSpec

\* full() is a retry, never a refusal for good.
AcceptsAgain == []<>(pc = "push" /\ ~Full)

\* Every fill the buffer starts lands, so no half and no request parked on one
\* waits for ever.
FillsLand == LHB!FillsLand
=============================================================================
