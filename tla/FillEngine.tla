----------------------------- MODULE FillEngine -----------------------------
(***************************************************************************)
(* The HBF side of a backend built with Ramulator: RamulatorMemoryDevice    *)
(* and the RamulatorFillEngine in front of it                               *)
(* (h3-components/h3_ramulator_device.cpp), as the Latency Hiding Buffer    *)
(* and H3MemoryBackend call them.  A fill goes out as sector reads through  *)
(* the device that serves the demand requests too.                          *)
(*                                                                         *)
(* One clock period is the walk of pc through                               *)
(*   engine -> launch -> release -> serve -> push                           *)
(* (LatencyHidingBuffer::tick(), then the device's tick(), its callbacks    *)
(* included) and, when the partition pushes an HBF request, through         *)
(*   engine -> launch -> demand                                             *)
(* once more: access() ticks the buffer and the engine again.               *)
(*                                                                         *)
(* Ramulator itself is external: it may refuse a request, and completes     *)
(* those it holds in any order.  m_next_sector++ and m_next_token++ are     *)
(* represented by the least token not in use, as no used one is looked at.  *)
(***************************************************************************)
EXTENDS Integers, FiniteSets, Functions

CONSTANTS
  Capacity,    \* kMaxOutstanding
  MaxDemands,  \* demand requests the backend lets in (request_queue_size)
  FillSizes,   \* sectors of a fill: a half's share over the sector size
  FillCap,     \* the buffer's max_outstanding_fills
  MaxFills,    \* chunks of all the hints of a run
  Hops         \* d2d hop latencies to consider, in clock periods

\* Demand requests alone cannot occupy the device: 64 against 4096.
ASSUME FillEngineConstants ==
  /\ {Capacity, MaxDemands, FillCap, MaxFills} \subseteq Nat \ {0}
  /\ FillSizes \subseteq Nat \ {0}
  /\ Hops \subseteq Nat
  /\ MaxDemands < Capacity

Fills == 1 .. MaxFills
Demands == 1 .. MaxDemands

\* kSectorTokenBase keeps the sectors' tokens clear of the demands'.
Sectors == MaxDemands + 1 .. MaxDemands + Capacity

VARIABLES
  pc, caller,    \* where the walk is, for "cycle" or for a "push"
  hop,           \* d2d_hops * d2d_hop_latency of this configuration
  toVisit,       \* fills that the engine's tick() has still to visit
  jobs,          \* m_fills: [total, issued, remaining]
  owner,         \* m_sector_owner
  nextFill,      \* m_next_fill_token of the buffer
  deferred,      \* m_deferred: per token, the periods until it is due
  submitted,     \* tokens Ramulator holds
  outstanding,   \* m_outstanding
  waiting        \* m_async_pending of the backend

walkVars == <<pc, caller, hop, toVisit>>
engineVars == <<jobs, owner, nextFill>>
deviceVars == <<deferred, submitted, outstanding>>
vars == <<walkVars, engineVars, deviceVars, waiting>>

\* f with the value v at every element of S, and without S.
With(f, S, v) == [k \in DOMAIN f \cup S |-> IF k \in S THEN v ELSE f[k]]
Without(f, S) == Restrict(f, DOMAIN f \ S)

Least(S, n) == {k \in S : Cardinality({j \in S : j <= k}) <= n}

InDevice == DOMAIN deferred \cup submitted
-----------------------------------------------------------------------------
(* The device.                                                              *)

\* Mutant: can_accept() with <= for <.
FreeOffByOne == IF outstanding <= Capacity THEN Capacity - outstanding + 1 ELSE 0

\* Requests can_accept() lets in before it turns false.
Free == IF outstanding < Capacity THEN Capacity - outstanding ELSE 0

CanAccept == Free > 0

\* How far the time stamp of what this walk enqueues is ahead of m_now_ps: the
\* buffer is ticked before the device, and a push comes after it.
Lead == IF caller = "cycle" THEN 1 ELSE hop

\* enqueue_async(): what is stamped later than now is held, the rest goes to
\* Ramulator, whose refusal the callers model by enqueueing less.
Enqueue(S) ==
  /\ IF Lead > 0
     THEN deferred' = With(deferred, S, Lead) /\ UNCHANGED submitted
     ELSE submitted' = submitted \cup S /\ UNCHANGED deferred
  /\ outstanding' = outstanding + Cardinality(S)

\* submit() counts a request in when Ramulator takes it.
Submit(S) == submitted' = submitted \cup S

Due == {k \in DOMAIN deferred : deferred[k] <= 1}

\* Mutant: The count that submit() takes again is not given back.
ReleaseCountsTwice(S) ==
  /\ pc = "release"
  /\ S \subseteq Due
  /\ Submit(S)
  /\ outstanding' = outstanding + Cardinality(S)
  /\ deferred' = [k \in DOMAIN deferred \ S |->
                    IF deferred[k] = 0 THEN 0 ELSE deferred[k] - 1]
  /\ pc' = "serve"
  /\ UNCHANGED <<caller, hop, toVisit, engineVars, waiting>>

\* tick(): time passes, and Ramulator takes the requests S of those due.
Release(S) ==
  /\ pc = "release"
  /\ S \subseteq Due
  /\ Submit(S)
  /\ outstanding' = (outstanding + Cardinality(S)) - Cardinality(S)
  /\ deferred' = [k \in DOMAIN deferred \ S |->
                    IF deferred[k] = 0 THEN 0 ELSE deferred[k] - 1]
  /\ pc' = "serve"
  /\ UNCHANGED <<caller, hop, toVisit, engineVars, waiting>>

\* The callback of submit(), up to the completion handler.
Complete(k) ==
  /\ pc = "serve"
  /\ k \in submitted
  /\ submitted' = submitted \ {k}
  /\ outstanding' = IF outstanding > 0 THEN outstanding - 1 ELSE 0
  /\ UNCHANGED <<walkVars, deferred, nextFill>>

ServeDone ==
  /\ pc = "serve"
  /\ pc' = "push"
  /\ UNCHANGED <<caller, hop, toVisit, engineVars, deviceVars, waiting>>
-----------------------------------------------------------------------------
(* The fill engine.                                                         *)

\* The batches issue_pending() may get out for a job: the device has room, and
\* a request it does not defer may be refused, which ends the loop.
Batches(job) ==
  LET todo == job.total - job.issued
      most == IF todo < Free THEN todo ELSE Free
  IN  {Least(Sectors \ DOMAIN owner, n) :
         n \in IF Lead > 0 THEN {most} ELSE 0 .. most}

\* Mutant: The sector that was refused keeps its owner.
IssuePendingKeepsOwner(f, job, S) ==
  LET refused == Lead = 0 /\ Cardinality(S) < job.total - job.issued
                 /\ Cardinality(S) < Free
      next == IF refused THEN Least(Sectors \ (DOMAIN owner \cup S), 1) ELSE {}
  IN  /\ jobs' = With(jobs, {f}, [job EXCEPT !.issued = @ + Cardinality(S)])
      /\ owner' = With(owner, S \cup next, f)
      /\ Enqueue(S)

IssuePending(f, job, S) ==
  /\ jobs' = With(jobs, {f}, [job EXCEPT !.issued = @ + Cardinality(S)])
  /\ owner' = With(owner, S, f)
  /\ Enqueue(S)

\* Mutant: What did not fit at the start of a fill is never issued.
VisitFillIssuesNothing(f) ==
  /\ pc = "engine"
  /\ f \in toVisit
  /\ toVisit' = toVisit \ {f}
  /\ UNCHANGED <<pc, caller, hop, engineVars, deviceVars, waiting>>

\* tick(): every fill is visited, in the order the hash table has them.
VisitFill(f) ==
  /\ pc = "engine"
  /\ f \in toVisit
  /\ \E S \in Batches(jobs[f]) : IssuePending(f, jobs[f], S)
  /\ toVisit' = toVisit \ {f}
  /\ UNCHANGED <<pc, caller, hop, nextFill, waiting>>

EngineDone ==
  /\ pc = "engine"
  /\ toVisit = {}
  /\ pc' = "launch"
  /\ UNCHANGED <<caller, hop, toVisit, engineVars, deviceVars, waiting>>

\* Mutant: One of the two roundings to sectors rounds a whole number up.
NewFillRoundsUp(size) == [total |-> size, issued |-> 0, remaining |-> size + 1]

NewFill(size) == [total |-> size, issued |-> 0, remaining |-> size]

\* start_fill_async(), called by launch_fills() for a half it could get.
StartFill(size) ==
  /\ pc = "launch"
  /\ nextFill \in Fills
  /\ Cardinality(DOMAIN jobs) < FillCap
  /\ \E S \in Batches(NewFill(size)) : IssuePending(nextFill, NewFill(size), S)
  /\ nextFill' = nextFill + 1
  /\ UNCHANGED <<walkVars, waiting>>

LaunchDone ==
  /\ pc = "launch"
  /\ pc' = IF caller = "cycle" THEN "release" ELSE "demand"
  /\ UNCHANGED <<caller, hop, toVisit, engineVars, deviceVars, waiting>>

\* on_sector_done() for a sector: the fill's last one ends the fill.
Landed(f) ==
  IF f \notin DOMAIN jobs THEN jobs
  ELSE IF jobs[f].remaining = 1 THEN Without(jobs, {f})
  ELSE [jobs EXCEPT ![f].remaining = @ - 1]

SectorDone(k) ==
  /\ Complete(k)
  /\ k \in DOMAIN owner
  /\ owner' = Without(owner, {k})
  /\ jobs' = Landed(owner[k])
  /\ UNCHANGED waiting

\* on_sector_done() for any other token hands it to the backend.
DemandDone(k) ==
  /\ Complete(k)
  /\ k \notin DOMAIN owner
  /\ waiting' = waiting \ {k}
  /\ UNCHANGED <<jobs, owner>>
-----------------------------------------------------------------------------
(* The backend.                                                             *)

\* push() of an HBF request, after full() and the router found room; access()
\* then ticks the buffer.
Push ==
  /\ pc = "push"
  /\ CanAccept
  /\ Cardinality(waiting) < MaxDemands
  /\ pc' = "engine"
  /\ caller' = "push"
  /\ toVisit' = DOMAIN jobs
  /\ UNCHANGED <<hop, engineVars, deviceVars, waiting>>

\* Nothing is pushed, or nothing that concerns HBF: the next period.
NextCycle ==
  /\ pc = "push"
  /\ pc' = "engine"
  /\ toVisit' = DOMAIN jobs
  /\ UNCHANGED <<caller, hop, engineVars, deviceVars, waiting>>

\* The access missed the buffer and goes to the device, which is not asked
\* again whether it has room.
Demand ==
  /\ pc = "demand"
  /\ \E d \in Least(Demands \ waiting, 1) :
       waiting' = waiting \cup {d} /\ Enqueue({d})
  /\ pc' = "engine"
  /\ caller' = "cycle"
  /\ toVisit' = DOMAIN jobs
  /\ UNCHANGED <<hop, engineVars>>

\* The access was a hit, is parked on a fill, or was refused by Ramulator and
\* gets a completion time at once.
NoDemand ==
  /\ pc = "demand"
  /\ pc' = "engine"
  /\ caller' = "cycle"
  /\ toVisit' = DOMAIN jobs
  /\ UNCHANGED <<hop, engineVars, deviceVars, waiting>>
-----------------------------------------------------------------------------
\* Mutant: Fill tokens from 0, the value of a half that has none.
InitTokenZero ==
  /\ pc = "engine" /\ caller = "cycle" /\ toVisit = {}
  /\ hop \in Hops
  /\ jobs = [f \in {} |-> 0] /\ owner = [k \in {} |-> 0]
  /\ nextFill = 0
  /\ deferred = [k \in {} |-> 0] /\ submitted = {} /\ outstanding = 0
  /\ waiting = {}

Init ==
  /\ pc = "engine" /\ caller = "cycle" /\ toVisit = {}
  /\ hop \in Hops
  /\ jobs = [f \in {} |-> 0] /\ owner = [k \in {} |-> 0]
  /\ nextFill = 1
  /\ deferred = [k \in {} |-> 0] /\ submitted = {} /\ outstanding = 0
  /\ waiting = {}

Walk ==
  \/ \E f \in Fills : VisitFill(f)
  \/ EngineDone \/ LaunchDone \/ \E S \in SUBSET Due : Release(S)
  \/ ServeDone \/ Push \/ NextCycle \/ Demand \/ NoDemand

Next ==
  \/ Walk
  \/ \E size \in FillSizes : StartFill(size)
  \/ \E k \in Sectors : SectorDone(k)
  \/ \E k \in Demands : DemandDone(k)

Spec == Init /\ [][Next]_vars

\* GPGPU-Sim keeps cycling; Ramulator does not refuse a request for ever, nor
\* keep one for ever.  A sector refused on the way in needs no such promise: the
\* next tick defers it.
FairSpec ==
  /\ Spec
  /\ WF_vars(Walk)
  /\ \A k \in Sectors \cup Demands :
       SF_vars(\E S \in SUBSET Due : k \in S /\ Release(S))
  /\ \A k \in Sectors : SF_vars(SectorDone(k))
  /\ \A k \in Demands : SF_vars(DemandDone(k))
-----------------------------------------------------------------------------
(* Properties.                                                              *)

Job == [total : FillSizes, issued : Nat, remaining : Nat]

\* Every variable keeps the type its declaration gives it.
TypeOK ==
  /\ pc \in {"engine", "launch", "release", "serve", "push", "demand"}
  /\ caller \in {"cycle", "push"}
  /\ hop \in Hops
  /\ toVisit \subseteq DOMAIN jobs
  /\ DOMAIN jobs \subseteq Fills /\ Range(jobs) \subseteq Job
  /\ DOMAIN owner \subseteq Sectors /\ Range(owner) \subseteq Fills
  /\ nextFill \in 1 .. MaxFills + 1
  /\ DOMAIN deferred \subseteq Sectors \cup Demands
  /\ Range(deferred) \subseteq Nat
  /\ submitted \subseteq Sectors \cup Demands
  /\ outstanding \in Nat
  /\ waiting \subseteq Demands

\* m_outstanding counts each request once, deferred or submitted: it is the
\* only thing full() knows of the device, and a leak of one would never heal.
OccupancyExact ==
  outstanding = Cardinality(DOMAIN deferred) + Cardinality(submitted)

\* The device exceeds kMaxOutstanding by one request at most, although a push
\* that found room may first start fills that take all of it.
OccupancyBound == outstanding <= Capacity + 1

Owned(f) == {k \in DOMAIN owner : owner[k] = f}

\* A fill waits for the sectors it has not issued and for those of its own that
\* the device has: the buffer is told once the last one is in and not before.
FillAccounting ==
  \A f \in DOMAIN jobs :
    /\ jobs[f].remaining > 0
    /\ jobs[f].remaining = (jobs[f].total - jobs[f].issued) + Cardinality(Owned(f))

\* The two tables of callbacks hold what is inside the device and nothing else,
\* so every completion finds its addressee, and only live fills are addressed.
CallbacksMatch ==
  /\ DOMAIN owner \cup waiting = InDevice
  /\ DOMAIN owner \cap waiting = {}
  /\ DOMAIN deferred \cap submitted = {}
  /\ Range(owner) \subseteq DOMAIN jobs

\* The engine and the device as the buffer and the backend see them.
Service == INSTANCE FillService
             WITH Sizes <- FillSizes,
                  left <- [f \in DOMAIN jobs |->
                             (jobs[f].total - jobs[f].issued) + Cardinality(Owned(f))],
                  asked <- waiting

\* Every sector of a fill is read once and the fill is reported when the last
\* one arrives; fills and demands all come to their end although they compete
\* for the device, are deferred, and are refused.
IsFillService == Service!FairSpec

\* The partition is not locked out for good by the fills.
RoomAgain == []<>(pc = "push" /\ CanAccept)
=============================================================================
