----------------------------- MODULE Placement -----------------------------
(***************************************************************************)
(* Where data lives, as the three parts that have a say in it see it: the   *)
(* prefetch scheduler, which lays the tensors of a model out and hints them *)
(* by their place in HBF, the address router, which decodes the address of  *)
(* every access, with or without a map made from a trace, and the generated *)
(* trace, which accesses the tensors.  They share base addresses and no     *)
(* state: a step is one of the scheduler or one of the router.              *)
(***************************************************************************)
EXTENDS TraceClassifier, TraceLayout

CONSTANTS
  Models,        \* models to consider, as in PrefetchScheduler
  ModelsWith(_)  \* those to lay out in the regions of a router's configuration

\* The fields of a ModelConfig are unsigned, or sizes and times that are.
ASSUME PlacementConstants ==
  \A m \in Models :
    {m.layers, m.hidden, m.heads, m.kvHeads, m.mlp, m.vocab, m.headDim, m.dtype,
     m.cacheHeads, m.kvDtype, m.inLen, m.outLen, m.batch, m.seqLen, m.gpus, m.tp,
     m.bandwidth, m.align, m.lead, m.maxHints, m.hbmBase, m.hbfBase, m.cycle,
     m.horizon, m.passes} \subseteq Nat

VARIABLES model, tensors, order, next, issued, queue, now, passes, caughtUp

Scheduler == INSTANCE PrefetchScheduler WITH cfg <- model

schedulerVars == <<model, tensors, order, next, issued, queue, now, passes, caughtUp>>

systemVars == <<vars, schedulerVars>>

\* "both read the same base addresses".
SameBases == model.hbmBase = cfg.hbm.base /\ model.hbfBase = cfg.hbf.base

\* Where no request is to be routed the router is only asked to decode.
SystemInit ==
  /\ Init
  /\ cfg.calls = 0 => attached = {}
  /\ model \in ModelsWith(cfg)
  /\ SameBases
  /\ Scheduler!Init

SystemNext ==
  \/ cfg.calls > 0 /\ Next /\ UNCHANGED schedulerVars
  \/ Scheduler!Next /\ UNCHANGED vars

SystemSpec == SystemInit /\ [][SystemNext]_systemVars /\ Scheduler!Fairness
-----------------------------------------------------------------------------
(* Properties of the parts, those of the scheduler under their names there. *)

\* Router and scheduler keep their types; hints_issued is the scheduler's place
\* in its order, in whichever pass it is.
SystemTypeOK == TypeOK /\ Scheduler!TypeOK

\* The buffer's queue stays within the throttle.
WithinThrottle == Scheduler!WithinThrottle

\* Hints go out a lead ahead of need, no earlier and, unthrottled, no later.
HintedALeadAhead == Scheduler!HintedALeadAhead

\* The buffer gets the tensors in the order they are read.
StreamsInOrder == Scheduler!StreamsInOrder

\* Every hint goes out in the end, unless the buffer stays full for ever.
HintsGoOut == Scheduler!HintsGoOut
-----------------------------------------------------------------------------
(* Properties of the parts together.                                        *)

\* Does the memory hold all the tensors laid out in it?
Fits(region) ==
  LET size == IF region = "Hbf" THEN cfg.hbf.size ELSE cfg.hbm.size
  IN  \A k \in DOMAIN tensors :
        tensors[k].region = region => tensors[k].local + tensors[k].size <= size

\* "the addresses produced here must fall in the regions that router decodes":
\* when the model fits, every byte of a tensor is decoded to the memory the
\* tensor was placed in, at the local address the hint names to the buffer, and
\* is looked up as that tensor's and no other's; tensors start aligned.
LayoutDecodes ==
  ~cfg.mapped /\ Fits("Hbm") /\ Fits("Hbf") =>
    \A k \in DOMAIN tensors :
      LET t == tensors[k]
      IN  /\ t.local % model.align = 0
          /\ \A i \in 0 .. t.size - 1 :
               /\ Scheduler!TensorAt(t.global + i) = {k}
               /\ Decode(cfg, allocs, t.global + i) = t.region
               /\ LocalAddr(cfg, allocs, t.global + i, t.region) = t.local + i

\* The tensors with a size, as the trace generator describes them.
Extents ==
  {[region |-> tensors[k].region, addr |-> tensors[k].global, size |-> tensors[k].size] :
     k \in {k \in DOMAIN tensors : tensors[k].size > 0}}

Total(S) == FoldFunctionOnSet(LAMBDA x, y : x + y, 0,
                              [k \in DOMAIN tensors |-> tensors[k].size], S)

\* What is laid out is the model.  When nothing is lost to rounding, the GPUs
\* hold it as its size formulas have it, once, and the norms once more on every
\* further GPU; the forward pass takes as long as reading all of that does; and
\* the trace of a batch of one has the same layout.
LayoutIsTheModel ==
  LET hbf == {k \in DOMAIN tensors : tensors[k].region = "Hbf"}
      kvShared == Scheduler!SharedKvBytes(model)
      kvGenerated == Scheduler!GeneratedKvBytes(model)
      norms == 2 * model.layers * model.hidden * model.dtype
      exact == /\ \A n \in {model.vocab, model.heads, model.mlp, model.kvHeads} :
                    n % model.tp = 0
               /\ kvShared % model.layers = 0 /\ kvGenerated % model.layers = 0
  IN  /\ exact =>
           /\ model.tp * (Total(hbf) - kvShared) =
                Scheduler!TotalWeightBytes(model) + (model.tp - 1) * norms
           /\ Total(DOMAIN tensors \ hbf) =
                kvGenerated + Scheduler!ActivationBytes(model)
      /\ Scheduler!ForwardDuration(model) = Total(hbf) \div model.bandwidth
      /\ model.batch = 1 => Extents = BuildLayout(model)

\* "Same order, same formulas and same 4 KiB alignment as the C++ scheduler": the
\* generated trace accesses the tensors where the scheduler hints them.
TraceMatchesHints == Extents = BuildLayout(model)
=============================================================================
