# H3: verification of the hybrid HBM + HBF memory simulator

H3 replaces the DRAM model of one GPGPU-Sim memory partition by a backend with
two memories: HBM, and High Bandwidth Flash (HBF), which is large, read-only and
slow (about 20 us per read). A Latency Hiding Buffer (LHB), an SRAM on the HBM
base die, prefetches LLM weights and KV tensors from HBF before they are read.
The modules here are a model of `src/h3-components/`, of the GPGPU-Sim patch
that drives it and of the two tools that decide where the data of a trace lives,
checked with TLC. The safety of every component - buffer, backend, fill engine, router,
scheduler and classifier - is proved with TLAPS for all values of the constants.

## The system

| Component | Code | State | Operations |
|---|---|---|---|
| Latency Hiding Buffer | `latency_hiding_buffer.{h,cpp}` | halves (`m_halves`), queued tensors (`m_stream_queue`), `m_next_fill_token`, statistics | `issue_hint`, `tick`, `access`, `on_fill_complete` |
| Fill engines | `AnalyticFillEngine`; `RamulatorFillEngine` in `h3_ramulator_device.cpp` | none; fills and sectors in flight | `start_fill`, `demand_latency_ps`, `tick`, callback |
| Memory backend | `h3_memory_backend.{h,cpp}` | `m_pending`, `m_async_pending`, `m_fill_waiters`, `m_async_done`, `m_return_queue`, `m_cycle` | `full`, `push`, `cycle`, `return_queue_pop`, two callbacks |
| Memory devices | `AnalyticMemoryDevice`; `RamulatorMemoryDevice` | bus and completions; deferred and outstanding requests | `enqueue`, `enqueue_async`, `can_accept`, `tick` |
| Address router | `h3_address_router.{h,cpp}` | allocation map, backends, counters, warnings given | `validate`, `load_allocation_map`, `decode`, `to_local_addr`, `inspect`, `route`, `set_backends`, `reset_stats` |
| Prefetch scheduler | `llm_prefetch_scheduler.{h,cpp}` | tensors, hint order, `m_next_hint`, counters | `build_schedule`, `tick`, `rewind`, `tensor_at` |
| Trace classifier | `tools/classify_trace.py` | none; writes the allocation map | `merge_pages`, placement |
| Trace generator | `tools/generate_llm_trace.py` | none; writes a trace | `build_layout`, output |
| Driver | `patches/gpgpu-sim-h3-backend.patch`, `h3_dram_cycle()` | the L2-to-DRAM queue, the return path | one cycle: drain, `cycle()`, push |
| Other tools, scripts, DRAM tables | `tools/`, `scripts/`, `configs/`, `ramulator_hbf/` | none at run time | |

Everything runs in one thread. Concurrency is between *transactions*: requests,
fills and callbacks overlap for thousands of cycles. In one cycle the driver takes
one answer from the return queue, calls `cycle()` - the scheduler issues due
hints to the LHB, the LHB retires and launches fills, the devices tick and call
back, finished requests move to the return queue - and then pushes one request
if `full()` lets it. A push to HBF first asks the LHB: it is answered from a
half (*hit*), parked until the fill of its half completes or delayed until it
lands (*late miss*), or sent to the HBF device (*absent miss*).

What is hard to test here:

* a half is filled, read, drained and refilled by calls at different times, one
  of them (`access`) stamped ahead of the clock by the die-to-die hop;
* with Ramulator, completions arrive in any order, and a fill, the buffer and the
  requests parked on it must all agree on which fill it was;
* a request has five ways through `push()` and crosses up to three queues;
* backpressure is asked for before a push, while completions arrive after it;
* four parts compute addresses - scheduler, router, classifier and trace generator -
  from one set of base addresses and by formulas written four times; none of them
  can notice that another one disagrees, except as a hit rate of zero.

`PROJECT.json` lists each hazard at its line with the properties aimed at it.

What makes each component correct:

* **LHB**: a hit is answered only from data that is there; halves and fills
  correspond; nothing started is lost or counted twice; a half in use does not
  change under its reader; the cap on fills holds; fills land, drained halves go
  back.
* **Backend**: each accepted request is answered exactly once and eventually;
  queues are bounded; nothing is answered for free or out of ready order.
* **Devices and fill engine**: no sector lost or read twice, a fill reported when its last
  sector is in, the occupancy counter exact, no party starved.
* **Router**: the decode is unambiguous; every request is counted once, under the
  answer its caller got; no write reaches read-only HBF.
* **Scheduler**: tensors do not overlap and are the whole model; hints go out in
  the order of reading, a lead ahead of need, within the throttle, and none is held back
  while the buffer has room.
* **Tools**: the map places every byte a trace touches, stores in HBM; the trace
  accesses tensors where the scheduler hints them.

## Modules

`LatencyHidingBuffer` models the whole buffer. A half is a record with the code's
fields; `streams` is `m_stream_queue` with each cursor cut into the chunks it
will yield, which is exact because a cursor always yields `ChunkSpan` lines
until the last chunk. The methods are operators on a buffer *value*
(`RetireFills`, `LaunchFills`, `Ticked`, `AfterAccess`), composed in the code's
order: `Access` is tick-at-the-stamp, lookup, charge, release and refill in one
step, as in the code. The loop of `launch_fills` is given in closed form: it runs
`LaunchCount` times and iteration *r* takes the *r*-th idle half (`Rank`) and the
*r*-th queued chunk. Each time is stored relative to the clock, since the code
compares times with the current one only, so the clock needs no bound.
`CONSTANT Async` chooses the engine: `FALSE` lands fills by time, `TRUE` by the
callback `FillComplete`. `fills` (what the engine holds) and `last` (what the
latest access returned, with the truth about its half) exist for the properties.

`MemoryBackend` instantiates `LatencyHidingBuffer` on its own variables and adds
the queues, the analytic devices, the routing decision and the scheduler's tick.
`pc` walks through one `h3_dram_cycle()`. The three `retire_ready` and callback
loops are repeated steps at one `pc`. HBM is ticked to its end before HBF (`TickHbm`,
`TickHbf`), so a demand calls back in the phase of its device (`TickOf`) and a fill in that of
HBF; within one phase callbacks come in any order, each at any tick. A request stamped at the
present may be refused.
`away` is the GPU's side: the requests pushed and not yet popped.

`MemoryPort` is what the memory partition is promised: a set of waiting requests
and a bounded queue of answers. `MemoryBackend!IsFairMemoryPort` is the refinement,
with everything not yet in the return queue as `waiting` and
`RequestQueueSize` as its capacity. `full()` also compares `m_async_done` with the
size of the return queue; that test never decides, because `retire_ready()`, which runs
before every push, leaves completions behind only when the return queue is full.

`FillEngine` models the Ramulator side of HBF: the device (`m_deferred`,
`m_outstanding`, refusals, callbacks) and the engine that cuts fills into sector
reads (`m_fills`, `m_sector_owner`). `pc` walks the calls in the order the buffer
and the backend make them: the engine's tick and the launches of a buffer
tick, the device's tick with its callbacks, then at most one push, whose
`access()` ticks the engine again before the demand request is enqueued. The loop
of `issue_pending` is one step over a batch (`Batches`): it stops at the
device's limit or, for requests that are not deferred, at any refusal. The order of
`m_deferred` is left out, as each entry due is offered whatever became of the
ones before it. `FillService` is what the users of the engine expect, and
`FillEngine!IsFillService` the refinement: the sectors still to arrive are those not
issued and those owned. It justifies the abstract engine of the other two modules,
where a fill in flight completes at some tick.

`AddressMap` is the part of the router without state: `Valid` regions, the map as
`load_allocation_map()` leaves it (`Loaded`: any of the orders `std::sort` may put
entries with equal addresses in; `Loadable`), the binary search and the two decodes, on
words that wrap. A line of the map's file is a field of an entry; the order of
`region` and `h3_addr`, which the reader depends on, is the field `h3First`.
`AddressRouter` adds the state: `route()` is one step with a disjunct per exit,
each with all its counters; whether a backend is full or refuses is its choice. `told`
counts the answers callers got, for comparison with `stats`.

`TraceClassifier` turns pages touched by a trace into the map `AddressRouter` loads: the
loops of `merge_pages()` and of the placement are recursive functions of the number of pages
or ranges done. A configuration whose map comes from a trace carries the trace and the
options, and `TraceConstants` says that its map is what the tool makes of them.
`TraceLayout` is `build_layout()` of the trace generator, the second implementation
of the scheduler's layout.

`PrefetchScheduler` models `build_schedule()` as functions of the configuration (`Shapes`,
`CursorAt`, `Tensors`, `HintOrder`) and `tick()` as a step that issues hints up to `Stop`,
the place where the code's loop breaks. `queue` is the stream queue as the throttle
sees it: `issue_hint()` drops empty tensors, and `BufferTakes` removes the first hint
when its last chunk has been launched. `Rewind` stands for `rewind()` and for a second
`build_schedule()`, both of which leave the buffer what it has.

`Placement` composes them: an instance of the scheduler with the router, over
the same base addresses. The parts share no variable, as in the code: a step is
one of either, and the properties relate the addresses they compute.

`MCLatencyHidingBuffer`, `MCMemoryBackend`, `MCFillEngine` and `MCPlacement` hold the
instances. The proofs are in `LatencyHidingBufferProofs` and `LatencyHidingBufferLedger`,
`MemoryBackendProofs`, `FillEngineProofs`, `AddressRouterProofs`, `PrefetchSchedulerProofs`
and `PlacementProofs`; `Induction` has the facts about numbers they share.

Abstractions: addresses and sizes in lines (bytes in the modules about placement), times in clock periods, statistics
left out unless a property speaks of them, requests known by identity. The
operators marked "Mutant" are deliberate bugs; each property is broken by one
of them (`PROJECT.json`, `mutants`), which shows that the instance is large
enough for the property to be at risk.

## Runs

| Run | Instance | Shows |
|---|---|---|
| `LhbAsync` | 3 halves, cap 2, two tensors of 2 chunks each | one-to-one fills and halves, cap, accounting of fills and their chunks, honest hits, halves stable under readers |
| `LhbSync` | 2 halves, interleave 2, chunks of 4, 3 and 2 lines, 3 hints | on the closed-form path: shares of interleaved halves; drained halves released at once; halves stable under readers |
| `BackendAsync` | Ramulator devices, 4 requests, queues of 2 and 1, 3 chunks for 2 halves | requests in exactly one place, parked on the right fill, queues bounded, fair memory port, backpressure of the queues released, fills land |
| `BackendAnalytic` | analytic devices of depth 2, queues of 3 and 1, 5 requests incl. a rejected write and an absent read | fair memory port, ready order, no free access, devices never overrun, backpressure of queues and devices released |
| `FillEngine` | device of 3, fills of 1 and 4 sectors, 2 demands, hop 0 or 2 | occupancy exact and never more than one over the limit; fills and sectors add up; every callback has its addressee |
| `FillEngineFair` | device of 2, fills of 1 and 3 sectors, 1 demand | fair fill service: all fills and demands end; room for a push again and again |
| `Placement` | addresses of 7 bits: 192 pairs of regions, hand-written maps of up to 3 entries, maps from every trace of 4 pages, 2 calls of `route()` under each policy; models of 1 and 2 layers, queue limits 0 to 3 | decode unambiguous, statistics true, HBF read-only, maps sound and complete; layout inside the decoded regions and equal to the model; hints in order, in time, throttled, and all out in the end unless the buffer stays full |
| `LhbSyncFakeHit` | closed form | **violated**: a late access makes the next one a hit on data still in flight (`latency_hiding_buffer.cpp:551`) |
| `LhbAsyncStuckHalf` | asynchronous | **violated**: a half drained while its fill was in flight is never released (`:534`) |
| `BackendAsyncOrder` | Ramulator, one read outside every tensor | **violated**: asynchronous completions are not in ready order, as a comment claims (`h3_memory_backend.cpp:568`): an absent miss completes behind requests released by a fill in the same tick of HBF |
| `BackendAsyncRefused` | Ramulator | **violated**: a request HBM refuses is answered with no latency (`:453`) |
| `TraceBatch` | as `Placement` | **violated**: for a batch over one the generated trace has other tensors than the scheduler hints (`generate_llm_trace.py:160`) |

Bounds. `MaxHints` (or the length of `Schedule`) bounds the hints of a behaviour,
the only unbounded input; clock, tokens and counters are then bounded by the
model itself. There are more chunks than halves, so some chunk waits for a
half to be drained, and in `LhbAsync` more halves than the cap, so that some half waits for
the cap. Accesses fall inside a chunk, span one, and share one. In `BackendAsync` two reads want
the one line of a half, so that they are parked together or, when the first drains the half, the
second misses for good: a callback of each kind is then due in one tick of HBF. In `FillEngine` one fill is larger than the
device and two compete for it. The queues are
smaller than the number of requests, so each of them fills up. `Hop` is 1 where
an access ahead of the clock matters; it is 0 in `BackendAsync`, because a Ramulator
device can refuse only requests that are not deferred.

In `Placement`, `cfg.calls` bounds the calls of `route()` between two resets: two calls
are needed for one counter to make up for another. `passes` bounds `rewind()`; a
second pass starts while hints of the first are queued. Time stands still after
`horizon`, when no hint is due any more. `MaxAddr` = 127: words wrap at 128, the whole
address space is probed by `OneHome`, and regions begin, end and wrap at its edges.
Models have tensors of a few bytes, some of none, with alignments that do and do not
divide them, and ranks and GPUs that do and do not divide the weights. Every architecture is laid out and
hinted at once (`Laid`); four of them, which differ in what the hints depend on, run
through a pass and a rewind under each lead and throttle (`Running`). To keep routing
and scheduling from multiplying, configurations with calls have a model that does
nothing (`Idle`), those with a working model no calls (`ModelsWith`); nothing is lost, as
the two share only constants. `LayoutDecodes` speaks of regions large
enough for the model (`Fits`): the scheduler compares nothing with the capacity.

Fairness. The driver is a simulator loop and keeps cycling: weak fairness of `Walk`,
and of `Tick` for the buffer alone. A Ramulator device completes what it accepted:
strong fairness of `DemandDone` for each request and of `FillDone` (weak for
`FillComplete` in the buffer alone, which is always enabled while fills exist).
Strong, because callbacks are possible only while devices tick. `Collect` is strongly
fair: GPGPU-Sim takes an answer again and again, though not each cycle. In `FillEngine` a deferred request is taken at last (strong, since
Ramulator is offered it at ticks only); a sector refused on the way in needs no
such assumption. `MaxDemands < Capacity` (64 and 4096 in the configuration) is
needed: if demand requests alone could occupy the device, they could
keep the sectors of a fill out for ever; `validate()` does not demand it. Nothing obliges
the GPU to push, access or hint. The scheduler is ticked by every backend cycle, for ever: weak
fairness of `Cycle`. Nothing obliges the buffer to take a hint: it waits for halves to be
drained, which the GPU need not do, and which `LhbAsyncStuckHalf` shows may fail although everything
was read. So `HintsGoOut` is conditional: it promises the hints where the queue has room again and again,
and says nothing where it stays full. `DrainedHalfSwaps` is refuted under this fairness.

Deadlock is checked in every run.

Three divergences have no run of their own. A write counts as redirected by the policy
alone (`h3_address_router.cpp:549`), also when `enforce_hbf_read_only` is off and it goes
to HBF: `StatsAgree` states both cases. The policy `Allow` is to "count it and let it
through" (`h3_address_router.h:128`), but only `writes_hbf` counts it, not
`write_attempts_to_hbf`. A model too large for HBM does not show up as unmapped requests, as
`llm_prefetch_scheduler.h:23` expects: its last tensors are decoded as HBF when the
regions adjoin.

## Proofs

`LatencyHidingBufferProofs` proves, for every value of the constants allowed by
`LhbConstants`:

| Theorem | States |
|---|---|
| `TypeCorrect` | `Spec => []TypeOK` |
| `FillsAlwaysMatch` | `Spec => [](Async => FillsMatchHalves)` |
| `PendingAlwaysInFlight` | `Spec => [](Async => PendingIsInFlight)` |
| `HitsAreComplete` | `Spec => [](Async => HitIsComplete)` |
| `EngineStaysWithinCap` | `Spec => [](Async => EngineWithinCap)` |

*Types.* The methods map typed buffers to typed buffers. The content is in the
divisions and subtractions: a chunk never starts behind the end of its tensor
(`ChunksType`), and no method but `issue_hint` lengthens the queue, so that the number of
fills started never decreases.

*Counting.* `Nth` and `RankOfIdle` show that the loop of `launch_fills` assigns
iterations to idle halves one to one: ranks increase with the index, and an
injection between finite sets of equal size is onto. `FirstHalf` (a set of halves
that is not empty has a first one) falls out of this.

*Tokens.* `FillsMatchHalves` and `HitIsComplete` are not inductive. `AsyncInv` adds
that tokens of halves in use are distinct and older than `m_next_fill_token`,
without which a refill might reuse a token somebody still waits for. The
lemmas `TickedGrows` and `AfterAccessGrows` say that what methods add to the tokens
awaited is exactly the interval of tokens given out; they compose, as `access()` calls
`tick()` before it looks and `launch_fills()` after. A hit is then honest, because
a half that is not filling has a token different from all awaited ones.

*Cap.* `WithinCap` (halves in filling states) is inductive in both modes; together
with `AsyncInv` it bounds the fills in the engine. On the closed-form path only
`WithinCap` holds, since a late access takes the half out of the filling states.

The premise `Async` is essential for these safety theorems: `LhbSyncFakeHit` is
the counterexample without it.

`LatencyHidingBufferLedger` goes on to what single halves hold and to the books:

| Theorem | States |
|---|---|
| `NoHalfStaysDrained` | `Spec => [](~Async => NoDrainedHalfStays)` |
| `HalvesHoldTheirShare` | `Spec => []HalfHoldsItsShare`, in both modes |
| `RangesAreStable` | `Spec => RangeStableWhileInUse`, in both modes |
| `FillsAreAccountedFor` | `Spec => [](Ledger /\ (Async => FillsAccountedFor))` |

The first three follow from `HoldInv`: each half in use is charged with its share of
the chunk it holds and never beyond, and without callbacks it is released before it is charged
in full. That holds for every interleave factor, as the share charged to a half is the
one that releases it. `LhbAsyncStuckHalf` is
the counterexample to the first with `Async`. `RangesAreStable` says of every half in use that its range, token and stored
size are the same after a step, unless the step is an access that found this half, with no callback outstanding,
and read it to the end (`DrainedNow`; `DrainsTheFound` connects it with `access()`). `Ledger` equates fills started
with swaps plus halves in use, and, with an asynchronous engine, with those completed plus those
in flight. It is about the cardinality of sets that `launch_fills()` and `access()` change by
several members at once, so the lemmas on counting are used again.

`MemoryBackendProofs` instantiates those proofs for the buffer inside the backend: each step of
the backend is a step of the buffer or leaves it alone. It proves

| Theorem | States |
|---|---|
| `TypeCorrect` | `Spec => []TypeOK` |
| `PendingStaysOrdered` | `Spec => []PendingOrdered` |
| `RequestsInOnePlace` | `Spec => []ExactlyOnePlace` |
| `QueuesStayBounded` | `Spec => []QueueBounds` |
| `WaitersStayOnFill` | `Spec => []WaitersOnFill` |
| `NeverPushedFull` | `Spec => [](~Async => FullNeverPushed)` |
| `NothingForFree` | `Spec => [](~Async /\ SramLatency <= ReadLatency => NoFreeAccess)` |
| `BackendIsMemoryPort` | `Spec => Port!Spec`, the refinement without its fairness |

`TypeOK` includes the types of the buffer's six variables, which `BufferTypes` takes from the
buffer's own invariant. `BackendInv` is the invariant of the types: `m_pending` is ordered because `push()` inserts in
order and aging is monotonic. `PlacesHeld` counts instead of enumerating: the requests away from the GPU
are those in the five queues, and there are as many of them as entries in all queues together. If
a request were in two places the entries would be more than the requests. Its last part,
that no completion is left over when a push finds room, is what makes the bound
on the return queue hold although `full()` is asked before the callbacks. `NothingForFree` needs that the
SRAM of the buffer is no slower than flash; the configuration has 2 ns against 20 us
(`latency_hiding_buffer.h:205`). With Ramulator devices `NeverPushedFull` and `NothingForFree` fail
(`BackendAsyncRefused`).

`FillEngineProofs` proves, for every capacity, every set of fills and demand requests
and both kinds of device, `TypeCorrect`, `OccupancyIsExact`, `OccupancyIsBounded`,
`FillsAreAccountedFor`, `CompletionsArrive` (`CallbacksMatch`) and
`ImplementsFillService`, `Spec => Service!Spec`: the refinement without its fairness.
The properties are not inductive one by one. `IInv` joins them with the place of `pc` in the
walk of the cycle (`Walking`: a push that found room still has it when its request is enqueued),
and with the fact that the fills in the tables are ones that were started and have issued
no more than they have (`FillsAreOld`). A batch is
the interesting step: how many sectors `issue_pending()` sends is a choice, and
counting them by cardinality, which `PlaceIncreases` and `LeastBounded` make possible
without induction, keeps the occupancy exact.

`AddressRouterProofs` proves, for every address space, configuration, map and request,
`TypeCorrect`, `StatisticsAreTrue` (`StatsAgree`), `HbfIsReadOnly` and
`EveryAddressHasOneHome` (`OneHome`). `StatsAgree` is inductive with
the types of what it adds up and with `HbfStaysReadOnly`: under enforcement no write is told
`RoutedHbf`, which fixes where the redirected ones went. Without a map the decode is one to one
because `validate()` refuses regions that wrap, so that `End` is the true end of both. With one it rests on the
binary search. The entries that do not start behind an address come first (`Cut`); the search, a
recursive function on pairs of bounds, has a closed form, which is proved by taking the least
interval on which it would differ (`SearchEnds`). So it ends at the last such entry, and that is the
only one the address can lie in, since no entry that is loaded reaches into the next and one
whose end wraps holds nothing (`HoldsMeans`).

`PrefetchSchedulerProofs` and `PlacementProofs` prove, for every model with natural
sizes (`PlacementConstants`):

| Theorem | States |
|---|---|
| `SystemTypes` | `SystemSpec => []SystemTypeOK` |
| `ThrottleHolds` | `SystemSpec => []WithinThrottle` |
| `HintsLeadNeed` | `SystemSpec => []HintedALeadAhead` |
| `StreamFollowsLayout` | `SystemSpec => []StreamsInOrder` |
| `LayoutIsDecoded` | `SystemSpec => []LayoutDecodes` |
| `LayoutHoldsTheModel` | `SystemSpec => []LayoutIsTheModel` |
| `TraceIsPlaced` | `SystemSpec => []TraceHasPlaces` |
| `TraceMapLoads` | the map made from a trace can be loaded, and is never refused |

`SystemInv` joins the invariant of the router with that of the scheduler: tensors are laid out one
behind the other, aligned and in the order they are needed (`LaidOut`, from a cursor that only grows),
the hint order is the one of HBF tensors by need and index (`AsLaidOut`),
all hints before `m_next_hint` are due and, after a tick that caught up, none behind it is
(`DueIsOut`). `StreamsInOrder` is not inductive: a tick may issue several hints, and a rewind starts
over while hints of the last pass are queued. `BreaksByRewinds` adds that each break of the order in
the queue belongs to a rewind and that, unless one has just begun, the queue goes on where it ends (`Smooth`).
`LayoutDecodes` then is geometry: tensors that fit lie in the region of
their memory, and the regions are apart.

`LayoutIsTheModel` has no invariant beyond `AsBuilt`, that the layout stays the one `initialize()`
built; the work is in its arithmetic. What tensor each place of the list holds is stated once
(`ShapesAre`, `ShapeNo`). Sums of a memory over the list are then those of its runs: nine weights of a layer add up
to `LayerBytes` (`NineTerms`), and so for every layer (`LayersSum`); a run of equal tensors is a product
(`SumsSteady`). The fold over a set in the property equals such a sum (`FoldIsSum`, by counting the set
down). Nothing is lost to rounding when every division is exact (`ExactShare`), and each rank has
norms of its own (`WeightsOnAll`). The C++ code moves one cursor per memory and aligns it after every tensor,
the Python code skips empty tensors: the cursors agree because an aligned one stays where it is
when nothing is added (`AlignedStays`, `HbfCursor`, `HbmCursor`, `PlacedAt`).

`TraceHasPlaces` depends on two loops. What the first *n* pages are merged to
(`Covered`) is a list of ranges, in order and apart, the last of which ends with page *n*; every page
done lies in a range, which counts as written if the page is. What `bump()` leads to (`Offsets`) never
decreases and passes each range by its size, so that ranges in the same memory get places
apart (`WellPlaced`). The router drops no entry, for none is empty; it may reorder but not refuse
them (`TraceMapLoads`); and the entry an address is in is found by the search of the theorem above.
`TraceConstants` is the only hypothesis: pages and options are numbers, the page size and alignment are
not zero, and pages and places end inside the address space.

Recursive functions (sums, the search, the loops of the classifier) are reasoned about by
the least number for which something fails (`LeastNumber`, `NoFailure`), which the library's
`WFMin` provides without a predicate as a parameter; `RecursionIn` shows that the functions exist.

The hypotheses are the named `ASSUME`s of the modules, which say of which type the constants
are. Safety uses no more of them; `MaxDemands < Capacity` is there for fairness.

Every safety invariant and every action property that a run checks is the property of a theorem. Model-checked
only is liveness, which is out of the prover's reach: the progress of hints, fills
and halves (`HintsGoOut`, `FillsLand`, `AcceptsAgain`, `RoomAgain`), and the fairness of the
refinements (`IsFairMemoryPort`, `IsFillService`).

## Not modelled

* Ramulator itself, which is not in the repository, and the ratio of its clock to the
  GPU's: it may complete what it holds at any tick.
* In `MemoryBackend`, saturation of a Ramulator device by fill sectors: `CanAccept` is `TRUE` for it. The
  only effect on the backend is that the driver does not push, which it may do anyway.
* The occupancy estimates of `ModelConfig` and the bandwidth figures of the reports:
  quotients of doubles nothing depends on. The estimate for HBF divides all
  weights by the number of ranks, although norms are replicated on each.
* The parsing of trace instructions and of configuration files, the validators, the
  synthetic generator, DRAM timing tables, printing, scripts: no state machine;
  see `PROJECT.json`.
* Absolute times and 64-bit overflow of picosecond counters: 2^64 ps is 213 days of
  simulated time.

## Plan

1. The ranking behind the liveness properties, as theorems about steps: that what a fill still owes never grows and each
   completion decreases it, and the same for the bytes a half still waits for to be read.
2. The backend on top of the abstract fill service, so that its theorems hold for any
   engine that implements the service.
