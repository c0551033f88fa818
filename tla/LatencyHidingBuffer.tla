------------------------ MODULE LatencyHidingBuffer ------------------------
(***************************************************************************)
(* The Latency Hiding Buffer (h3-components/latency_hiding_buffer.{h,cpp}):*)
(* an SRAM buffer of NumHalves halves in front of the slow HBF device.     *)
(* Prefetch hints queue tensors; the buffer streams them, chunk by chunk,  *)
(* into idle halves; a GPU access finds its half landed (hit), in flight   *)
(* (late miss) or nowhere (absent miss).                                   *)
(*                                                                         *)
(* Time is kept RELATIVE to the caller's clock: a half stores how long     *)
(* until its fill lands, never an absolute picosecond.  The code only ever *)
(* compares a stored time with the current one, so nothing is lost, and    *)
(* the clock needs no bound.  Calls may carry a time ahead of the clock    *)
(* (an access is stamped with the die-to-die hop): that offset is the      *)
(* argument t below.                                                       *)
(*                                                                         *)
(* Addresses and sizes are counted in lines.  Statistics that no property  *)
(* speaks of are left out.                                                 *)
(***************************************************************************)
EXTENDS Integers, Sequences, FiniteSets

CONSTANTS
  NumHalves,       \* num_buffers
  HalfLines,       \* half_size_bytes(), in lines
  Interleave,      \* address_interleave_factor (0 is read as 1)
  MaxOutstanding,  \* max_outstanding_fills after the constructor's default
  Enabled,         \* FALSE: bypass mode
  Async,           \* is_async() of the fill engine
  ReadLatency,     \* tR of the fill engine, in clock periods
  LineTime,        \* transfer time of one line, in clock periods
  SramLatency,     \* sram_access_latency_ps(), in clock periods
  Hop,             \* how far ahead of the clock an access is stamped
  Tensors,         \* the tensors hints may name: [addr, size]
  Demands,         \* the accesses the GPU may make: [addr, size]
  MaxHints         \* bound: hints accepted in one behaviour

ASSUME LhbConstants ==
  /\ NumHalves \in Nat \ {0}
  /\ HalfLines \in Nat \ {0}
  /\ Interleave \in Nat
  /\ MaxOutstanding \in Nat \ {0}
  /\ Enabled \in BOOLEAN
  /\ Async \in BOOLEAN
  /\ {ReadLatency, LineTime, SramLatency, Hop, MaxHints} \subseteq Nat
  /\ Tensors \subseteq [addr : Nat, size : Nat]
  /\ Demands \subseteq [addr : Nat, size : Nat \ {0}]

VARIABLES
  halves,     \* m_halves
  streams,    \* m_stream_queue, each cursor cut into the chunks it will yield
  nextToken,  \* m_next_fill_token
  fills,      \* tokens the engine has accepted and not yet called back for
  counts,     \* LhbStats: hints_received, fills_started/_completed, swaps
  last        \* what the latest access() returned

vars == <<halves, streams, nextToken, fills, counts, last>>

Halves == 0 .. NumHalves - 1

Least(a, b) == IF a <= b THEN a ELSE b

Greatest(a, b) == IF a >= b THEN a ELSE b

-----------------------------------------------------------------------------
(* Halves.                                                                  *)

States == {"Idle", "PrefetchIssued", "Filling", "Ready", "Serving"}

\* A half: start and done are fill_start_ps and fill_done_ps less the clock.
\* Past times are all alike: start stops at -1 and done at 0.
HalfType ==
  [state : States, base : Nat, span : Nat, stored : Nat, consumed : Nat,
   start : Int, done : Nat, pending : BOOLEAN, token : Nat]

EmptyHalf ==
  [state |-> "Idle", base |-> 0, span |-> 0, stored |-> 0, consumed |-> 0,
   start |-> 0, done |-> 0, pending |-> FALSE, token |-> 0]

InFlight(h) == h.state \in {"PrefetchIssued", "Filling"}

\* Mutant: a Ready half, not read yet, is taken for an idle one.
IdleHalvesOrReady(hs) == {i \in Halves : hs[i].state \in {"Idle", "Ready"}}

IdleHalves(hs) == {i \in Halves : hs[i].state = "Idle"}

Outstanding(hs) == Cardinality({i \in Halves : InFlight(hs[i])})

Covers(h, d) ==
  /\ h.span # 0
  /\ h.base <= d.addr
  /\ d.addr + d.size <= h.base + h.span

Covering(hs, d) == {i \in Halves : hs[i].state # "Idle" /\ Covers(hs[i], d)}

\* The first half, in index order, that covers the access.
FindHalf(hs, d) ==
  CHOOSE i \in Covering(hs, d) : \A j \in Covering(hs, d) : i <= j

-----------------------------------------------------------------------------
(* Streams.  A cursor always yields chunks of ChunkSpan lines and one last  *)
(* shorter chunk, so a queued tensor is the sequence of its chunks.         *)

Factor == IF Interleave = 0 THEN 1 ELSE Interleave

ChunkSpan == HalfLines * Factor

ChunkType == [base : Nat, span : Nat, last : BOOLEAN]

ChunksOf(t) ==
  LET n == (t.size + ChunkSpan - 1) \div ChunkSpan
  IN  [k \in 1 .. n |->
        [base |-> t.addr + (k - 1) * ChunkSpan,
         span |-> Least(ChunkSpan, t.size - (k - 1) * ChunkSpan),
         last |-> k = n]]

\* Tensors still (partly) queued: what the scheduler throttles on.
PendingHints == Cardinality({k \in 1 .. Len(streams) : streams[k].last})

-----------------------------------------------------------------------------
(* The buffer as a value, so that the calls one method makes can be         *)
(* composed in their order.                                                 *)

Buffer == [halves |-> halves, streams |-> streams, token |-> nextToken]

\* Mutant: the clock also lands the fills that wait for a callback.
LandsByClockAlone(h, t) == InFlight(h) /\ h.done <= t

\* Mutant: a fill that has been seen in flight is not retired any more.
LandsIfJustIssued(h, t) ==
  h.state = "PrefetchIssued" /\ ~h.pending /\ h.done <= t

\* retire_fills(): only synchronous fills land by the clock.
LandsBy(h, t) == InFlight(h) /\ ~h.pending /\ h.done <= t

RetireFills(hs, t) ==
  [i \in Halves |->
    IF LandsBy(hs[i], t)
      THEN [hs[i] EXCEPT !.state = "Ready"]
    ELSE IF InFlight(hs[i]) /\ hs[i].start < t
      THEN [hs[i] EXCEPT !.state = "Filling"]
    ELSE hs[i]]

\* Mutant: the cap on outstanding fills is not applied.
LaunchCountUncapped(b) ==
  Least(Len(b.streams), Cardinality(IdleHalves(b.halves)))

\* How many iterations the loop of launch_fills() makes.
LaunchCount(b) ==
  Least(Len(b.streams),
        Least(Cardinality(IdleHalves(b.halves)),
              Greatest(0, MaxOutstanding - Outstanding(b.halves))))

\* The loop fills idle halves in index order: the rank of i is its iteration.
Rank(hs, i) == Cardinality({j \in IdleHalves(hs) : j <= i})

\* Mutant: the half is charged with the global span, not with its share of it.
FilledHalfWithSpan(c, token, t) ==
  [state |-> "PrefetchIssued", base |-> c.base, span |-> c.span,
   stored |-> c.span, consumed |-> 0, start |-> t,
   done |-> t + ReadLatency + c.span * LineTime,
   pending |-> FALSE, token |-> 0]

\* The half after its fill is started on chunk c.  An engine accepts every
\* fill of at least one line, and stored is never less.
FilledHalf(c, token, t) ==
  LET stored == Greatest(1, c.span \div Factor)
  IN  [state |-> "PrefetchIssued", base |-> c.base, span |-> c.span,
       stored |-> stored, consumed |-> 0, start |-> t,
       done |-> IF Async THEN 0 ELSE t + ReadLatency + stored * LineTime,
       pending |-> Async, token |-> IF Async THEN token ELSE 0]

\* Mutant: the fills launched by one call share one token.
LaunchFillsOneToken(b, t) ==
  LET n == LaunchCount(b)
  IN  [halves |->
         [i \in Halves |->
           LET r == Rank(b.halves, i)
           IN  IF i \in IdleHalves(b.halves) /\ r <= n
                 THEN FilledHalf(b.streams[r], b.token, t)
                 ELSE b.halves[i]],
       streams |-> SubSeq(b.streams, n + 1, Len(b.streams)),
       token |-> b.token + IF Async /\ n > 0 THEN 1 ELSE 0]

LaunchFills(b, t) ==
  LET n == LaunchCount(b)
  IN  [halves |->
         [i \in Halves |->
           LET r == Rank(b.halves, i)
           IN  IF i \in IdleHalves(b.halves) /\ r <= n
                 THEN FilledHalf(b.streams[r], b.token + r - 1, t)
                 ELSE b.halves[i]],
       streams |-> SubSeq(b.streams, n + 1, Len(b.streams)),
       token |-> b.token + IF Async THEN n ELSE 0]

\* tick() at offset t.
Ticked(b, t) ==
  IF Enabled
    THEN LaunchFills([b EXCEPT !.halves = RetireFills(b.halves, t)], t)
    ELSE b

\* Fills that tick() counts as completed.
Landing(hs, t) ==
  IF Enabled THEN Cardinality({i \in Halves : LandsBy(hs[i], t)}) ELSE 0

\* The clock advances one period: every stored time comes one period closer.
Aged(b) ==
  [b EXCEPT !.halves =
    [i \in Halves |->
      IF b.halves[i].state = "Idle"
        THEN b.halves[i]
        ELSE [b.halves[i] EXCEPT !.start = Greatest(-1, @ - 1),
                                 !.done = Greatest(0, @ - 1)]]]

\* Take value b as the buffer's next state, with n fills completed and s
\* halves swapped on the way.  Each chunk that left the queue started a fill.
Becomes(b, n, s) ==
  /\ halves' = b.halves
  /\ streams' = b.streams
  /\ nextToken' = b.token
  /\ fills' = fills \cup (nextToken .. b.token - 1)
  /\ counts' = [counts EXCEPT !.started = @ + Len(streams) - Len(b.streams),
                              !.completed = @ + n, !.swaps = @ + s]

-----------------------------------------------------------------------------
(* access().                                                                *)

\* demand_latency_ps()
DemandLatency(d) == ReadLatency + d.size * LineTime

\* Is the fill of half h over, whatever its state says?  Not in the code:
\* the truth that properties compare an answer with.
HasLanded(h) == IF Async THEN h.token \notin fills ELSE h.done <= Hop

Answer(outcome, half, waiting, stall, landed) ==
  [outcome |-> outcome, half |-> half, waiting |-> waiting, stall |-> stall,
   landed |-> landed]

\* The LhbAccess returned from buffer b for access d.
Result(b, d) ==
  LET hs == b.halves
      i  == FindHalf(hs, d)
  IN  IF ~Enabled
        THEN Answer("Bypass", -1, FALSE, DemandLatency(d), TRUE)
      ELSE IF Covering(hs, d) = {}
        THEN Answer("MissAbsent", -1, FALSE, DemandLatency(d), TRUE)
      ELSE IF ~InFlight(hs[i])
        THEN Answer("Hit", i, FALSE, 0, HasLanded(hs[i]))
      ELSE IF hs[i].pending
        THEN Answer("MissLate", i, TRUE, 0, FALSE)
      ELSE Answer("MissLate", i, FALSE, Greatest(0, hs[i].done - Hop), FALSE)

\* LhbAccess::ready_time_ps, from the time the access is stamped with.
ReadyTime(r) ==
  r.stall + IF r.outcome = "Hit" \/ (r.outcome = "MissLate" /\ ~r.waiting)
              THEN SramLatency ELSE 0

Consume(h, d) == [h EXCEPT !.consumed = Least(h.stored, @ + d.size)]

\* Mutant: an access to a half whose fill is pending starts serving it.
AfterAccessServesPending(b, d) ==
  LET i == FindHalf(b.halves, d)
      h == Consume(b.halves[i], d)
      served == [h EXCEPT !.state = "Serving"]
  IN  IF ~Enabled \/ Covering(b.halves, d) = {} THEN b
      ELSE IF ~(InFlight(h) /\ h.pending) /\ h.consumed >= h.stored
        THEN LaunchFills([b EXCEPT !.halves[i] = EmptyHalf], Hop)
      ELSE [b EXCEPT !.halves[i] = served]

\* Mutant: a half is released when its whole span was read, not its share.
AfterAccessDrainsSpan(b, d) ==
  LET i == FindHalf(b.halves, d)
      h == Consume(b.halves[i], d)
      served == [h EXCEPT !.state = "Serving"]
  IN  IF ~Enabled \/ Covering(b.halves, d) = {} THEN b
      ELSE IF InFlight(h) /\ h.pending
        THEN [b EXCEPT !.halves[i] = h]
      ELSE IF h.consumed >= h.span
        THEN LaunchFills([b EXCEPT !.halves[i] = EmptyHalf], Hop)
      ELSE [b EXCEPT !.halves[i] = served]

\* Mutant: the access releases the first half, whichever it found.
AfterAccessReleasesFirst(b, d) ==
  LET i == FindHalf(b.halves, d)
      h == Consume(b.halves[i], d)
      served == [h EXCEPT !.state = "Serving"]
  IN  IF ~Enabled \/ Covering(b.halves, d) = {} THEN b
      ELSE IF InFlight(h) /\ h.pending
        THEN [b EXCEPT !.halves[i] = h]
      ELSE IF h.consumed >= h.stored
        THEN LaunchFills([b EXCEPT !.halves[0] = EmptyHalf], Hop)
      ELSE [b EXCEPT !.halves[i] = served]

\* A pending half is charged and left alone; any other starts serving, and is
\* released and refilled at once when the charge drains it.
AfterAccess(b, d) ==
  LET i == FindHalf(b.halves, d)
      h == Consume(b.halves[i], d)
      served == [h EXCEPT !.state = "Serving"]
  IN  IF ~Enabled \/ Covering(b.halves, d) = {} THEN b
      ELSE IF InFlight(h) /\ h.pending
        THEN [b EXCEPT !.halves[i] = h]
      ELSE IF h.consumed >= h.stored
        THEN LaunchFills([b EXCEPT !.halves[i] = EmptyHalf], Hop)
      ELSE [b EXCEPT !.halves[i] = served]

\* Does the access release the half it found?
Drains(b, d) ==
  LET h == Consume(b.halves[FindHalf(b.halves, d)], d)
  IN  /\ Enabled
      /\ Covering(b.halves, d) # {}
      /\ ~(InFlight(h) /\ h.pending)
      /\ h.consumed >= h.stored

-----------------------------------------------------------------------------
(* The operations.                                                          *)

\* Mutant: the first token is the one that means "no fill".
InitTokenZero ==
  /\ halves = [i \in Halves |-> EmptyHalf]
  /\ streams = <<>>
  /\ nextToken = 0
  /\ fills = {}
  /\ counts = [hints |-> 0, started |-> 0, completed |-> 0, swaps |-> 0]
  /\ last = Answer("None", -1, FALSE, 0, TRUE)

Init ==
  /\ halves = [i \in Halves |-> EmptyHalf]
  /\ streams = <<>>
  /\ nextToken = 1
  /\ fills = {}
  /\ counts = [hints |-> 0, started |-> 0, completed |-> 0, swaps |-> 0]
  /\ last = Answer("None", -1, FALSE, 0, TRUE)

IssueHint(t) ==
  /\ counts.hints < MaxHints
  /\ counts' = [counts EXCEPT !.hints = @ + 1]
  /\ streams' = IF Enabled THEN streams \o ChunksOf(t) ELSE streams
  /\ UNCHANGED <<halves, nextToken, fills, last>>

\* tick(), called once per clock period by the memory backend.
Tick ==
  LET b == Aged(Buffer)
  IN  /\ Becomes(Ticked(b, 0), Landing(b.halves, 0), 0)
      /\ UNCHANGED last

\* access() first advances the buffer to the time the access is stamped with.
Access(d) ==
  LET b == Ticked(Buffer, Hop)
  IN  /\ last' = Result(b, d)
      /\ Becomes(AfterAccess(b, d), Landing(halves, Hop),
                 IF Drains(b, d) THEN 1 ELSE 0)

\* The engine's callback: on_fill_complete().
FillComplete(token) ==
  /\ token \in fills
  /\ fills' = fills \ {token}
  /\ LET mine == {i \in Halves : halves[i].pending /\ halves[i].token = token}
     IN  IF mine = {} THEN UNCHANGED <<halves, counts>>
         ELSE LET i == CHOOSE i \in mine : \A j \in mine : i <= j
              IN  /\ halves' = [halves EXCEPT ![i].pending = FALSE,
                                              ![i].done = 0,
                                              ![i].state = "Ready"]
                  /\ counts' = [counts EXCEPT !.completed = @ + 1]
  /\ UNCHANGED <<streams, nextToken, last>>

Next ==
  \/ \E t \in Tensors : IssueHint(t)
  \/ Tick
  \/ \E d \in Demands : Access(d)
  \/ \E token \in fills : FillComplete(token)

\* The backend ticks the buffer every clock period, and the engine finishes
\* every fill it accepted.  Nothing obliges the GPU to access or to hint.
Fairness ==
  /\ WF_vars(Tick)
  /\ WF_vars(\E token \in fills : FillComplete(token))

Spec == Init /\ [][Next]_vars

FairSpec == Spec /\ Fairness
-----------------------------------------------------------------------------
(* Properties.                                                              *)

Outcomes == {"None", "Hit", "MissLate", "MissAbsent", "Bypass"}

\* Every variable keeps the type its declaration gives it.
TypeOK ==
  /\ halves \in [Halves -> HalfType]
  /\ streams \in Seq(ChunkType)
  /\ nextToken \in Nat \ {0}
  /\ fills \subseteq Nat
  /\ counts \in [hints : Nat, started : Nat, completed : Nat, swaps : Nat]
  /\ last \in [outcome : Outcomes, half : Int, waiting : BOOLEAN, stall : Nat,
               landed : BOOLEAN]

\* access() answers Hit only when the data of the half is really there: the
\* enum says "resident and complete: only SRAM latency is paid".
HitIsComplete == last.outcome = "Hit" => last.landed

\* With an asynchronous engine the halves waiting for a fill and the fills in
\* the engine are the same: every callback finds its half, no half waits for a
\* callback that will not come, and no two halves wait for the same one.
PendingHalves == {i \in Halves : halves[i].pending}

FillsMatchHalves ==
  /\ fills = {halves[i].token : i \in PendingHalves}
  /\ \A i, j \in PendingHalves : halves[i].token = halves[j].token => i = j

\* A half whose fill is pending is in a filling state and the other way round,
\* so accesses to it are parked and it can be neither hit, drained nor reused.
PendingIsInFlight == \A i \in Halves : halves[i].pending <=> InFlight(halves[i])

\* At most max_outstanding_fills fills are in flight in the engine at once
\* ("Fills allowed in flight at once").
EngineWithinCap ==
  Cardinality(IF Async THEN fills ELSE {i \in Halves : halves[i].done > 0})
    <= MaxOutstanding

\* No fill is overwritten, abandoned or released twice: every fill started is
\* held by a half or was swapped out after the GPU drained it, and the engine is
\* through with all but those in flight.
FillsAccountedFor ==
  /\ counts.started = counts.swaps + Cardinality(Halves \ IdleHalves(halves))
  /\ counts.started =
       counts.completed + Cardinality({i \in Halves : InFlight(halves[i])})

\* A half whose data has landed and was consumed to the last stored line does
\* not stay: the access that drains it releases it in the same call.
NoDrainedHalfStays ==
  \A i \in Halves :
    halves[i].state \in {"Ready", "Serving"} =>
      halves[i].consumed < halves[i].stored

\* A half never holds more than its SRAM, and what it holds is this
\* partition's share of the address range it answers for (length / factor).
HalfHoldsItsShare ==
  \A i \in Halves \ IdleHalves(halves) :
    /\ halves[i].stored <= HalfLines
    /\ halves[i].span \in (halves[i].stored * Factor) - (Factor - 1)
                          .. (halves[i].stored * Factor) + (Factor - 1)

\* In this very step access() found half i, whose callback had come, and drained
\* it with a read of lines it covers.
DrainedNow(i) ==
  /\ last'.half = i
  /\ counts'.swaps = counts.swaps + 1
  /\ ~halves[i].pending
  /\ \E d \in Demands : /\ Covers(halves[i], d)
                       /\ halves[i].consumed + d.size >= halves[i].stored

\* The range, token and stored size of a half in use never change under a
\* reader: of all halves only the one the GPU drains in this very step is
\* released and refilled.
RangeStableWhileInUse ==
  [][\A i \in Halves :
       halves[i].state # "Idle" =>
         \/ /\ halves'[i].base = halves[i].base
            /\ halves'[i].span = halves[i].span
            /\ halves'[i].stored = halves[i].stored
            /\ halves'[i].token = halves[i].token
            /\ halves'[i].consumed >= halves[i].consumed
         \/ DrainedNow(i)]_vars

\* Every fill lands: no half stays in flight for ever.
FillsLand == \A i \in Halves : InFlight(halves[i]) ~> ~InFlight(halves[i])

\* "Consumption is tracked now, so the half still drains and swaps correctly
\* once it is" [Ready]: a half consumed to the end while its fill was in flight
\* is eventually handed back.
DrainedHalfSwaps ==
  \A i \in Halves :
    halves[i].state # "Idle" /\ halves[i].consumed >= halves[i].stored
      ~> halves[i].state = "Idle" \/ halves[i].consumed < halves[i].stored
=============================================================================
