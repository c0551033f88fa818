----------------------------- MODULE MemoryPort -----------------------------
(* What the H3 memory backend promises the GPU's memory partition, which    *)
(* drives it as it drives dram_t: push a request, later pop it from the     *)
(* return queue.  Every request accepted comes back exactly once, in any    *)
(* order; a bounded number is inside at a time; none stays for ever.        *)
EXTENDS Naturals, Sequences, FiniteSets, Functions

CONSTANTS
  Requests,   \* the requests the GPU may have under way
  Capacity,   \* how many may wait for their answer
  ReturnSize  \* how many answers may wait to be collected

VARIABLES
  waiting,    \* accepted, not yet answered
  answers     \* answered, not yet collected, in the order they are offered

vars == <<waiting, answers>>

Init == waiting = {} /\ answers = <<>>

Accept(r) ==
  /\ r \notin waiting \cup Range(answers)
  /\ Cardinality(waiting) < Capacity
  /\ waiting' = waiting \cup {r}
  /\ UNCHANGED answers

\* A rejected request is answered by the port like any other.
Answer(r) ==
  /\ r \in waiting
  /\ Len(answers) < ReturnSize
  /\ waiting' = waiting \ {r}
  /\ answers' = Append(answers, r)

Collect ==
  /\ answers # <<>>
  /\ answers' = Tail(answers)
  /\ UNCHANGED waiting

Next ==
  \/ \E r \in Requests : Accept(r) \/ Answer(r)
  \/ Collect

Spec == Init /\ [][Next]_vars

FairSpec ==
  /\ Spec
  /\ WF_vars(Collect)
  /\ \A r \in Requests : SF_vars(Answer(r))
=============================================================================
