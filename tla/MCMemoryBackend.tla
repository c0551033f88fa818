-------------------------- MODULE MCMemoryBackend --------------------------
(* Instances of the memory backend for TLC: a tensor of two chunks and one   *)
(* of a single chunk are streamed, and the GPU reads inside them, next to    *)
(* them, and in HBM.                                                         *)
EXTENDS MemoryBackend

Read(id, region, addr) ==
  [id |-> id, region |-> region, write |-> FALSE, addr |-> addr, size |-> 1]

Write(id, region, addr) ==
  [id |-> id, region |-> region, write |-> TRUE, addr |-> addr, size |-> 1]

\* Three chunks for two halves: the last fetch waits for a half to be drained,
\* and the second hint is due before the first tensor is through.
MCSchedule ==
  <<[tensor |-> [addr |-> 0, size |-> 3], at |-> 1],
    [tensor |-> [addr |-> 4, size |-> 2], at |-> 2]>>

\* Two reads of one line that is a half by itself, a read of another half, and
\* one of HBM: requests are parked on both halves and together on one, and where
\* the first read of the line drains its half, the second misses for good, so
\* that its callback and those of the fills mix in one tick of the HBF device.
MCReads ==
  {Read(1, "Hbf", 0), Read(2, "Hbf", 2), Read(3, "Hbf", 2), Read(4, "Hbm", 0)}

\* With a read outside every tensor and a write the router rejects.
MCMixed ==
  {Read(1, "Hbf", 0), Read(2, "Hbf", 2), Read(3, "Hbm", 0), Read(4, "Hbf", 8),
   Write(5, "Hbf", 0)}

=============================================================================
