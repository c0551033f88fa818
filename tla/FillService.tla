---------------------------- MODULE FillService ----------------------------
(* What the Latency Hiding Buffer and the backend expect of a memory that   *)
(* calls back: a fill is so many sectors that arrive one by one and is over *)
(* when the last one is in; a demand request is answered once.  Neither is  *)
(* forgotten, whatever else the memory is asked to do.                      *)
EXTENDS Naturals, Functions

CONSTANTS
  Fills,    \* tokens of fills
  Sizes,    \* the numbers of sectors a fill may have
  Demands   \* tokens of demand requests

VARIABLES
  left,     \* per fill under way, the sectors still to arrive
  asked     \* demand requests not yet answered

vars == <<left, asked>>

Init == left = [f \in {} |-> 0] /\ asked = {}

Start(f, size) ==
  /\ f \notin DOMAIN left
  /\ left' = [g \in DOMAIN left \cup {f} |-> IF g = f THEN size ELSE left[g]]
  /\ UNCHANGED asked

Arrive(f) ==
  /\ f \in DOMAIN left
  /\ left' = IF left[f] = 1
             THEN Restrict(left, DOMAIN left \ {f})
             ELSE [left EXCEPT ![f] = @ - 1]
  /\ UNCHANGED asked

Ask(d) == d \notin asked /\ asked' = asked \cup {d} /\ UNCHANGED left

Reply(d) == d \in asked /\ asked' = asked \ {d} /\ UNCHANGED left

Next ==
  \/ \E f \in Fills : Arrive(f) \/ \E size \in Sizes : Start(f, size)
  \/ \E d \in Demands : Ask(d) \/ Reply(d)

Spec == Init /\ [][Next]_vars

FairSpec ==
  /\ Spec
  /\ \A f \in Fills : WF_vars(Arrive(f))
  /\ \A d \in Demands : WF_vars(Reply(d))
=============================================================================
