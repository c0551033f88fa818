------------------------- MODULE PrefetchScheduler -------------------------
(***************************************************************************)
(* LLMPrefetchScheduler (h3-components/llm_prefetch_scheduler.{h,cpp}): it  *)
(* lays the tensors of a model out in HBM and HBF, derives when each is     *)
(* needed, and hands the Latency Hiding Buffer a hint for every HBF tensor  *)
(* a lead time before.                                                      *)
(*                                                                         *)
(* A configuration c is a ModelConfig together with what it runs against:   *)
(*   layers, hidden, heads, kvHeads, mlp, vocab, headDim, dtype             *)
(*   cacheHeads, kvDtype, inLen, outLen, batch, seqLen, gpus, tp            *)
(*   bandwidth      bytes read in a unit of time                            *)
(*   align, lead    tensor_alignment_bytes, lead_time_ps()                  *)
(*   maxHints       max_outstanding_hints                                   *)
(*   hbmBase, hbfBase   hbm_base_addr and hbf_base_addr                     *)
(*   buffer         "On", "Bypassed" (enabled is false) or "None" (null)    *)
(*   cycle          the time between two ticks                              *)
(* and, as bounds on behaviours, horizon, after which time stands still,    *)
(* and passes, the number of calls of rewind().                             *)
(* Times are rounded down as in the code, from an exact quotient where the  *)
(* code has one of doubles.                                                 *)
(***************************************************************************)
EXTENDS Integers, Sequences, FiniteSets

CONSTANT
  Models     \* configurations to consider; those validate() refuses do not run

VARIABLES
  cfg,       \* m_config and what it runs against
  tensors,   \* m_tensors
  order,     \* m_hint_order
  next,      \* m_next_hint, from 1
  issued,    \* m_stats.hints_issued
  queue,     \* the buffer's stream queue: tensors hinted and not yet read
  now,       \* time of the last tick
  passes,    \* calls of rewind() so far
  caughtUp   \* for checking: has a tick come since the last rewind(), and was
             \* the last one not ended by the throttle?

vars == <<cfg, tensors, order, next, issued, queue, now, passes, caughtUp>>

\* The sum of f over 1 .. n, for every n up to N.
Sums(f, N) == LET s[n \in 0 .. N] == IF n = 0 THEN 0 ELSE s[n - 1] + f[n] IN s

\* The members of S by their key, those with one key by their number.
Ranked(S, key) ==
  LET Before(j, k) == key[j] < key[k] \/ (key[j] = key[k] /\ j < k)
  IN  [i \in 1 .. Cardinality(S) |->
         CHOOSE k \in S : Cardinality({j \in S : Before(j, k)}) = i - 1]

-----------------------------------------------------------------------------
(* ModelConfig: what is accepted, and the sizes of a model.                 *)

ValidModel(c) ==
  /\ 0 \notin {c.layers, c.hidden, c.heads, c.dtype, c.kvDtype, c.tp, c.gpus,
               c.bandwidth, c.align}
  /\ c.headDim * c.heads = c.hidden
  /\ c.seqLen >= c.inLen + c.outLen

WeightBytesPerLayer(c) ==
  LET q == c.hidden * c.heads * c.headDim
      kv == c.hidden * c.kvHeads * c.headDim
  IN  (2 * q + 2 * kv + 3 * c.hidden * c.mlp + 2 * c.hidden) * c.dtype

\* The token embedding and lm_head.
EmbeddingBytes(c) == 2 * c.vocab * c.hidden * c.dtype

TotalWeightBytes(c) == WeightBytesPerLayer(c) * c.layers + EmbeddingBytes(c)

KvBytesPerToken(c) == 2 * c.layers * c.cacheHeads * c.headDim * c.kvDtype

GeneratedTokens(c) == (c.inLen + c.outLen) * c.batch

SharedTokens(c) ==
  IF c.seqLen > GeneratedTokens(c) THEN c.seqLen - GeneratedTokens(c) ELSE 0

SharedKvBytes(c) == (KvBytesPerToken(c) * SharedTokens(c)) \div c.gpus

GeneratedKvBytes(c) == (KvBytesPerToken(c) * GeneratedTokens(c)) \div c.gpus

ActivationBytes(c) == (c.hidden + c.mlp) * 2 * c.kvDtype * c.batch * 2

-----------------------------------------------------------------------------
(* build_schedule()                                                         *)

InHbf(size) == [region |-> "Hbf", size |-> size]
InHbm(size) == [region |-> "Hbm", size |-> size]

\* Mutant: The key and value projections have as many heads as the queries.
LayerWeightsAllHeads(c) ==
  LET norm == InHbf(c.hidden * c.dtype)
      qkvo == InHbf((c.hidden * c.heads * c.headDim * c.dtype) \div c.tp)
      mlp == InHbf((c.hidden * c.mlp * c.dtype) \div c.tp)
  IN  <<norm, qkvo, qkvo, qkvo, qkvo, norm, mlp, mlp, mlp>>

\* The weights of a layer as they are read; the norms are not sharded.
LayerWeights(c) ==
  LET norm == InHbf(c.hidden * c.dtype)
      qo == InHbf((c.hidden * c.heads * c.headDim * c.dtype) \div c.tp)
      kv == InHbf((c.hidden * c.kvHeads * c.headDim * c.dtype) \div c.tp)
      mlp == InHbf((c.hidden * c.mlp * c.dtype) \div c.tp)
  IN  <<norm, qo, kv, kv, qo, norm, mlp, mlp, mlp>>

\* The tensors in the order they are laid out.
Shapes(c) ==
  LET embed == InHbf((c.vocab * c.hidden * c.dtype) \div c.tp)
      weights == LayerWeights(c)
      perLayer(shape) == [l \in 1 .. c.layers |-> shape]
  IN  <<embed>>
        \o [k \in 1 .. 9 * c.layers |-> weights[((k - 1) % 9) + 1]]
        \o <<embed>>
        \o perLayer(InHbf(SharedKvBytes(c) \div c.layers))
        \o perLayer(InHbm(GeneratedKvBytes(c) \div c.layers))
        \o <<InHbm(ActivationBytes(c))>>

\* Mutant: A tensor starts at the alignment below the end of the last one.
AlignUpDown(c, v) == (v \div c.align) * c.align

AlignUp(c, v) == ((v + c.align - 1) \div c.align) * c.align

\* add_tensor(): the cursor of a memory before the tensor k.
CursorAt(c, shapes, region) ==
  LET cursor[k \in 1 .. Len(shapes)] ==
        IF k = 1 THEN 0
        ELSE IF shapes[k - 1].region = region
             THEN AlignUp(c, cursor[k - 1] + shapes[k - 1].size)
             ELSE cursor[k - 1]
  IN  cursor

\* Bytes streamed in when the tensors up to k have been read.
Streamed(shapes) ==
  Sums([k \in DOMAIN shapes |->
          IF shapes[k].region = "Hbf" THEN shapes[k].size ELSE 0], Len(shapes))

\* Mutant: The lead is not clamped away from the start but cut in half.
HintAtHalved(c, needed) == IF needed > c.lead THEN needed - c.lead ELSE needed \div 2

HintAt(c, needed) == IF needed > c.lead THEN needed - c.lead ELSE 0

Tensors(c) ==
  LET shapes == Shapes(c)
      hbm == CursorAt(c, shapes, "Hbm")
      hbf == CursorAt(c, shapes, "Hbf")
      read == Streamed(shapes)
  IN  [k \in DOMAIN shapes |->
         LET local == IF shapes[k].region = "Hbf" THEN hbf[k] ELSE hbm[k]
             base == IF shapes[k].region = "Hbf" THEN c.hbfBase ELSE c.hbmBase
             needed == read[k - 1] \div c.bandwidth
         IN  [region |-> shapes[k].region, size |-> shapes[k].size,
              local |-> local, global |-> base + local,
              needed |-> needed, hint |-> HintAt(c, needed)]]

OfHbf(ts) == {k \in DOMAIN ts : ts[k].region = "Hbf"}

\* Mutant: The sort is not stable.
HintOrderUnstable(ts) ==
  Ranked(OfHbf(ts), [k \in OfHbf(ts) |-> ts[k].hint * Len(ts) - k])

\* m_hint_order: a stable sort by hint time.
HintOrder(ts) == Ranked(OfHbf(ts), [k \in OfHbf(ts) |-> ts[k].hint])

\* forward_pass_duration_ps()
ForwardDuration(c) == Streamed(Shapes(c))[Len(Shapes(c))] \div c.bandwidth

-----------------------------------------------------------------------------
(* tick()                                                                   *)

\* issue_hint() takes no empty tensor, and none at all when bypassed.
Queued(k) == cfg.buffer = "On" /\ tensors[order[k]].size # 0

Due(k, t) == tensors[order[k]].hint <= t

\* Mutant: The throttle is applied once, before the loop.
ThrottledOnce(k) == cfg.buffer # "None" /\ Len(queue) >= cfg.maxHints

\* Mutant: The throttle counts the hints issued, not those still queued.
ThrottledByIssued(k) == cfg.buffer # "None" /\ k - 1 >= cfg.maxHints

\* Has the buffer enough hints when the loop comes to hint k?
Throttled(k) ==
  /\ cfg.buffer # "None"
  /\ Len(queue) + Cardinality({j \in next .. k - 1 : Queued(j)}) >= cfg.maxHints

\* The hint the loop ends at.
Stop(t) ==
  CHOOSE k \in next .. Len(order) + 1 :
    /\ k = Len(order) + 1 \/ ~Due(k, t) \/ Throttled(k)
    /\ \A j \in next .. k - 1 : Due(j, t) /\ ~Throttled(j)

\* What the buffer takes of the hints from one place in the order to another.
Hints(from, to) ==
  LET S == {k \in from .. to - 1 : Queued(k)}
      places == Ranked(S, [k \in S |-> 0])
  IN  [i \in DOMAIN places |-> order[places[i]]]

Tick(t) ==
  LET stop == Stop(t)
  IN  /\ now' = t
      /\ next' = stop
      /\ issued' = issued + (stop - next)
      /\ queue' = queue \o Hints(next, stop)
      /\ caughtUp' = (stop = Len(order) + 1 \/ ~Due(stop, t))
      /\ UNCHANGED <<cfg, tensors, order, passes>>

\* The backend ticks every cycle; nothing is due any more after the horizon.
Cycle == Tick(IF now < cfg.horizon THEN now + cfg.cycle ELSE now)

\* Mutant: The hints already issued are not forgotten.
RewindKeepsCount ==
  /\ passes < cfg.passes
  /\ next' = 1
  /\ passes' = passes + 1
  /\ caughtUp' = FALSE
  /\ UNCHANGED <<cfg, tensors, order, issued, queue, now>>

\* rewind(), and build_schedule() called again: both leave the buffer its
\* hints.
Rewind ==
  /\ passes < cfg.passes
  /\ next' = 1
  /\ issued' = 0
  /\ passes' = passes + 1
  /\ caughtUp' = FALSE
  /\ UNCHANGED <<cfg, tensors, order, queue, now>>

\* The buffer has launched fills for the last chunk of its first hint.
BufferTakes ==
  /\ queue # <<>>
  /\ queue' = Tail(queue)
  /\ UNCHANGED <<cfg, tensors, order, next, issued, now, passes, caughtUp>>

\* tensor_at(): the first tensor that has the address, if any, as a set.
TensorAt(addr) ==
  LET Owns(k) == /\ tensors[k].global <= addr
                 /\ addr < tensors[k].global + tensors[k].size
  IN  {k \in DOMAIN tensors : Owns(k) /\ \A j \in 1 .. k - 1 : ~Owns(j)}

Init ==
  /\ cfg \in {c \in Models : ValidModel(c)}
  /\ tensors = Tensors(cfg)
  /\ order = HintOrder(tensors)
  /\ next = 1
  /\ issued = 0
  /\ queue = <<>>
  /\ now = 0
  /\ passes = 0
  /\ caughtUp = FALSE

Next == Cycle \/ Rewind \/ BufferTakes

\* The backend ticks for ever.  Nothing obliges the buffer to take a hint: it
\* waits for the GPU to drain a half.
Fairness == WF_vars(Cycle)

Spec == Init /\ [][Next]_vars /\ Fairness
-----------------------------------------------------------------------------
(* Properties.                                                              *)

\* Every variable keeps its type, and hints_issued is the place in the order.
TypeOK ==
  /\ ValidModel(cfg)
  /\ next \in 1 .. Len(order) + 1
  /\ issued = next - 1
  /\ queue \in Seq(DOMAIN tensors)
  /\ now \in 0 .. cfg.horizon + cfg.cycle
  /\ passes \in 0 .. cfg.passes
  /\ caughtUp \in BOOLEAN

\* The buffer's queue never holds more hints than max_outstanding_hints, however
\* many come due in one tick and whatever it still holds when a pass is rewound.
WithinThrottle == Len(queue) <= cfg.maxHints

\* "hint_issue_time = tensor_needed_time - lead_time": no hint is out before its
\* tensor is needed within the lead, and all those are out after a tick that the
\* throttle did not end.
HintedALeadAhead ==
  LET out == {order[j] : j \in 1 .. next - 1}
      near == {k \in DOMAIN tensors : /\ tensors[k].region = "Hbf"
                                      /\ tensors[k].needed <= now + cfg.lead}
  IN  /\ out \subseteq near
      /\ caughtUp => out = near

\* "Sequential layout matters": the hints in the buffer follow one another as the
\* tensors do in HBF, none left out but empty ones, save where a rewind cut in.
StreamsInOrder ==
  LET Follows(j, k) ==
        /\ tensors[j].local < tensors[k].local
        /\ \A i \in j + 1 .. k - 1 : tensors[i].size = 0
  IN  /\ Cardinality({i \in 1 .. Len(queue) - 1 : ~Follows(queue[i], queue[i + 1])}) <= passes
      /\ passes = 0 /\ queue # <<>> /\ next <= Len(order) =>
           \A i \in queue[Len(queue)] + 1 .. order[next] - 1 : tensors[i].size = 0

\* The scheduler itself holds no hint back: unless the queue is full from some
\* time on, as it may be when the GPU no longer drains halves, every hint goes out
\* in the end, in a pass that is not rewound.
HintsGoOut ==
  []<>(cfg.buffer = "None" \/ Len(queue) < cfg.maxHints)
    => <>[](next = Len(order) + 1)
=============================================================================
