---------------------------- MODULE MCPlacement ----------------------------
(* Instances for TLC, in an address space of 128 bytes.  For the router:     *)
(* every way two regions can lie in it, maps written by hand and maps made   *)
(* from traces.  For the scheduler: models of one and two layers with        *)
(* tensors of a few bytes, empty ones among them.                            *)
EXTENDS Placement

\* For a map no tool made.
FixedOptions ==
  [page |-> 2, gap |-> 0, split |-> FALSE, min |-> 4, align |-> 4, target |-> None]

Plain ==
  [hbm |-> [base |-> 0, size |-> 4], hbf |-> [base |-> 4, size |-> 8],
   mapped |-> FALSE, map |-> <<>>, toHbm |-> TRUE, hops |-> 2, hopTime |-> 3,
   enforce |-> TRUE, policy |-> "Reject", warn |-> TRUE, maxWarnings |-> 2,
   calls |-> 0, pages |-> [pg \in {} |-> 0], options |-> FixedOptions]

\* Regions that touch, overlap, contain each other, wrap, or are empty.
Layouts ==
  {[Plain EXCEPT !.hbm = [base |-> b, size |-> s], !.hbf = [base |-> f, size |-> t]] :
     b \in {0, 4, 124}, s \in {0, 3, 4, 127}, f \in {0, 3, 4, 8}, t \in {0, 4, 123, 124}}

Entry(a, s, r, h, first) ==
  [orig |-> a, size |-> s, region |-> r, h3 |-> h, h3First |-> first]

\* Files no tool wrote: in any order, with empty entries, overlaps, a buffer
\* that ends at the end of the address space, and fields in another order.
Entries ==
  {Entry(a, s, "Hbf", h, FALSE) : a \in {2, 6, 125}, s \in {0, 3, 4}, h \in {4, 8}}
  \cup {Entry(9, 3, r, 8, f) : r \in Memories, f \in BOOLEAN}

HandWritten ==
  {[Plain EXCEPT !.mapped = TRUE, !.toHbm = h, !.map = m] :
     h \in BOOLEAN,
     m \in {<<>>} \cup [1 .. 1 -> Entries] \cup [1 .. 2 -> Entries]
             \cup {<<e, Entry(9, 3, "Hbm", 0, FALSE), Entry(0, 2, "Hbf", 6, FALSE)>> :
                     e \in Entries}}

\* Four pages of two bytes, each untouched, read, written or both.
Traces == UNION {[S -> {[read |-> 2, write |-> 0], [read |-> 0, write |-> 1],
                        [read |-> 3, write |-> 1]}] :
                   S \in SUBSET (2 .. 5) \ {{}}}

Options ==
  {[FixedOptions EXCEPT !.gap = g, !.split = s] : g \in {0, 2}, s \in BOOLEAN}
  \cup {[FixedOptions EXCEPT !.target = t] : t \in {0, 50}}

\* Requests are routed under every write policy with the regions alone, and
\* through a map: one with holes, and one made from a trace.
Busy(cs) ==
  {[c EXCEPT !.enforce = e, !.policy = p, !.calls = 2] :
     c \in cs, e \in BOOLEAN, p \in Policies}

\* Regions for the models: ample, too small for some, and as small as can be.
Roomy == [Plain EXCEPT !.hbm.size = 32, !.hbf = [base |-> 32, size |-> 94]]
Tight == [Plain EXCEPT !.hbm.size = 24, !.hbf = [base |-> 24, size |-> 40]]

MCConfigs ==
  LET holes == [Plain EXCEPT !.mapped = TRUE,
                  !.map = <<Entry(8, 3, "Hbf", 8, FALSE), Entry(3, 2, "Hbm", 0, FALSE)>>]
      trace == [pg \in {1, 2, 4} |-> [read |-> 2, write |-> IF pg = 1 THEN 1 ELSE 0]]
  IN  Layouts \cup HandWritten \cup {Roomy, Tight}
        \cup {Traced(Plain, t, o) : t \in Traces, o \in Options}
        \cup Busy({Plain, holes, [holes EXCEPT !.toHbm = FALSE, !.warn = FALSE],
                   Traced(Plain, trace, FixedOptions)})

\* Probes in either region, in no region, and in the buffers.
MCRequests ==
  {[addr |-> a, write |-> w, size |-> 1 + (a % 2), time |-> (7 * a) % 4] :
     a \in {3, 9, 127}, w \in BOOLEAN}

-----------------------------------------------------------------------------
\* All tensors have a size; the forward pass takes nine units of time.
Tiny ==
  [layers |-> 1, hidden |-> 2, heads |-> 1, kvHeads |-> 1, mlp |-> 1, vocab |-> 2,
   headDim |-> 2, dtype |-> 1, cacheHeads |-> 1, kvDtype |-> 1, inLen |-> 1,
   outLen |-> 1, batch |-> 1, seqLen |-> 3, gpus |-> 1, tp |-> 1, bandwidth |-> 4,
   align |-> 4, lead |-> 3, maxHints |-> 2, hbmBase |-> 0, hbfBase |-> 32,
   buffer |-> "On", cycle |-> 1, horizon |-> 10, passes |-> 1]

\* Sharding that divides and that does not, no shared KV cache, no key and value
\* heads, no vocabulary, a batch, and a model that validate() refuses.
Architectures ==
  {Tiny,
   [Tiny EXCEPT !.seqLen = 2],
   [Tiny EXCEPT !.hidden = 4, !.heads = 2, !.kvHeads = 2, !.mlp = 2, !.tp = 2,
                !.bandwidth = 8],
   [Tiny EXCEPT !.layers = 2, !.bandwidth = 8],
   [Tiny EXCEPT !.heads = 2, !.headDim = 1, !.tp = 3, !.gpus = 2],
   [Tiny EXCEPT !.kvHeads = 0, !.mlp = 0, !.vocab = 0, !.bandwidth = 2],
   [Tiny EXCEPT !.batch = 2, !.seqLen = 5],
   [Tiny EXCEPT !.headDim = 3]}

\* A model that does nothing: no hint passes its throttle.
Idle == [Tiny EXCEPT !.hbmBase = 0, !.maxHints = 0, !.horizon = 0, !.passes = 0]

\* Models that are laid out and have all their hints due at the start; and models
\* that run, with no empty tensor, one, many, and a second layer, each under leads
\* shorter and longer than the pass and throttles that admit no hint, one, and three.
Laid ==
  {[a EXCEPT !.align = g, !.lead = 40, !.horizon = 0, !.passes = 0] :
     a \in Architectures, g \in {2, 4}}

Streaming ==
  {Tiny, [Tiny EXCEPT !.seqLen = 2], [Tiny EXCEPT !.layers = 2, !.bandwidth = 8],
   [Tiny EXCEPT !.kvHeads = 0, !.mlp = 0, !.vocab = 0, !.bandwidth = 2]}

Running ==
  {[a EXCEPT !.lead = t[1], !.align = t[2], !.cycle = t[3], !.maxHints = h] :
     a \in Streaming, t \in {<<0, 4, 3>>, <<3, 2, 3>>, <<3, 4, 1>>, <<20, 2, 1>>},
     h \in {0, 1, 3}}
  \cup {[a EXCEPT !.buffer = b, !.maxHints = h] :
          a \in Streaming, b \in {"Bypassed", "None"}, h \in {0, 2}}

Working(hbfBase) == {[a EXCEPT !.hbfBase = hbfBase] : a \in Laid \cup Running}

Still(c) == [Idle EXCEPT !.hbmBase = c.hbm.base, !.hbfBase = c.hbf.base]

MCModels ==
  Working(32) \cup Working(24)
    \cup {[Idle EXCEPT !.hbmBase = b, !.hbfBase = f] : b \in {0, 4, 124}, f \in {0, 3, 4, 8}}

MCModelsWith(c) ==
  IF c = Roomy THEN Working(32)
  ELSE IF c = Tight THEN {m \in Working(24) : m.lead = 40 \/ (m.lead = 3 /\ m.maxHints = 1)}
  ELSE {Still(c)}
=============================================================================
