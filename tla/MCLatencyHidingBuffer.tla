----------------------- MODULE MCLatencyHidingBuffer -----------------------
(* Instances of the Latency Hiding Buffer for TLC: a tensor that needs two   *)
(* chunks and one that needs a single chunk, and accesses that fall inside a *)
(* chunk, span it whole, or straddle two chunks.                             *)
EXTENDS LatencyHidingBuffer

MCTensors == {[addr |-> 0, size |-> 3], [addr |-> 4, size |-> 1]}

MCDemands ==
  {[addr |-> 0, size |-> 1], [addr |-> 1, size |-> 2], [addr |-> 2, size |-> 1],
   [addr |-> 4, size |-> 1]}

\* Two accesses are enough for the liveness instances: one shares a half with
\* other lines, one drains its half alone.
MCFewDemands == {[addr |-> 0, size |-> 1], [addr |-> 4, size |-> 1]}

\* More chunks than halves, so that a half must be drained before the last
\* chunk of the second tensor can be fetched.
MCLongTensors == {[addr |-> 0, size |-> 3], [addr |-> 4, size |-> 4]}

MCLongDemands ==
  {[addr |-> 0, size |-> 1], [addr |-> 1, size |-> 2],
   [addr |-> 4, size |-> 2], [addr |-> 6, size |-> 1]}

\* The range of the interleaved instance: one chunk spans four addresses.
MCWideTensors == {[addr |-> 0, size |-> 7], [addr |-> 8, size |-> 2]}

MCWideDemands ==
  {[addr |-> 0, size |-> 1], [addr |-> 3, size |-> 1], [addr |-> 4, size |-> 1],
   [addr |-> 6, size |-> 1], [addr |-> 8, size |-> 1]}
=============================================================================
