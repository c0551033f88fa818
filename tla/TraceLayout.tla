---------------------------- MODULE TraceLayout ----------------------------
(***************************************************************************)
(* build_layout() of tools/generate_llm_trace.py: where the generated trace *)
(* expects the tensors of a model.  It is a second implementation of what   *)
(* PrefetchScheduler lays out, for the same configurations c.               *)
(***************************************************************************)
EXTENDS Integers, Sequences

\* Mutant: The key and value projections are not divided among the GPUs.
SizesUnsharded(c) ==
  LET embed == (c.vocab * c.hidden * c.dtype) \div c.tp
      norm == c.hidden * c.dtype
      qo == (c.hidden * c.heads * c.headDim * c.dtype) \div c.tp
      kv == c.hidden * c.kvHeads * c.headDim * c.dtype
      mlp == (c.hidden * c.mlp * c.dtype) \div c.tp
      layer == <<norm, qo, kv, kv, qo, norm, mlp, mlp, mlp>>
      token == 2 * c.layers * c.cacheHeads * c.headDim * c.kvDtype
      shared == IF c.seqLen > c.inLen + c.outLen THEN c.seqLen - (c.inLen + c.outLen)
                ELSE 0
      slice(tokens) == ((token * tokens) \div c.gpus) \div c.layers
  IN  [weights |-> <<embed>> \o [k \in 1 .. 9 * c.layers |-> layer[((k - 1) % 9) + 1]]
                     \o <<embed>>,
       shared |-> slice(shared), generated |-> slice(c.inLen + c.outLen),
       activations |-> (c.hidden + c.mlp) * 2 * c.kvDtype * 2]

\* The sizes in the order of add().
Sizes(c) ==
  LET embed == (c.vocab * c.hidden * c.dtype) \div c.tp
      norm == c.hidden * c.dtype
      qo == (c.hidden * c.heads * c.headDim * c.dtype) \div c.tp
      kv == (c.hidden * c.kvHeads * c.headDim * c.dtype) \div c.tp
      mlp == (c.hidden * c.mlp * c.dtype) \div c.tp
      layer == <<norm, qo, kv, kv, qo, norm, mlp, mlp, mlp>>
      token == 2 * c.layers * c.cacheHeads * c.headDim * c.kvDtype
      shared == IF c.seqLen > c.inLen + c.outLen THEN c.seqLen - (c.inLen + c.outLen)
                ELSE 0
      slice(tokens) == ((token * tokens) \div c.gpus) \div c.layers
  IN  [weights |-> <<embed>> \o [k \in 1 .. 9 * c.layers |-> layer[((k - 1) % 9) + 1]]
                     \o <<embed>>,
       shared |-> slice(shared), generated |-> slice(c.inLen + c.outLen),
       activations |-> (c.hidden + c.mlp) * 2 * c.kvDtype * 2]

\* add() for the tensors of one memory: each starts where cur[region] is, which
\* an empty one, left out, does not move.
Placed(c, region, base, sizes) ==
  LET cur[k \in DOMAIN sizes] ==
        IF k = 1 THEN 0
        ELSE IF sizes[k - 1] <= 0 THEN cur[k - 1]
        ELSE ((cur[k - 1] + sizes[k - 1] + c.align - 1) \div c.align) * c.align
  IN  {[region |-> region, addr |-> base + cur[k], size |-> sizes[k]] :
         k \in {k \in DOMAIN sizes : sizes[k] > 0}}

\* build_layout()
BuildLayout(c) ==
  LET sizes == Sizes(c)
      perLayer(size) == [l \in 1 .. c.layers |-> size]
  IN  Placed(c, "Hbf", c.hbfBase, sizes.weights \o perLayer(sizes.shared))
        \cup Placed(c, "Hbm", c.hbmBase,
                    perLayer(sizes.generated) \o <<sizes.activations>>)
=============================================================================
