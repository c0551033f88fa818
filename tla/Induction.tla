----------------------------- MODULE Induction -----------------------------
(***************************************************************************)
(* Induction on numbers in the forms the proofs about the scheduler and the *)
(* router need: as the existence of a least number, and of a function that  *)
(* is defined from one number to the next.                                  *)
(***************************************************************************)
EXTENDS Integers, WellFoundedInduction, TLAPS

\* A set of numbers that is not empty has a least member.
LEMMA LeastNumber ==
  ASSUME NEW T \in SUBSET Nat, T # {}
  PROVE  \E x \in T : \A y \in T : x <= y
<1> DEFINE R == {ss \in Nat \X Nat : ss[1] < ss[2]}
<1>1. IsWellFoundedOn(R, Nat)
  BY NatLessThanWellFounded DEF OpToRel
<1>2. PICK x \in T : \A y \in T : ~ (<<y, x>> \in R)
  BY <1>1, WFMin
<1>3. ASSUME NEW y \in T PROVE x <= y
  <2>1. ~ (<<y, x>> \in R) /\ x \in Nat /\ y \in Nat
    BY <1>2
  <2> QED
    BY <2>1
<1> QED
  BY <1>3

\* Induction up to a bound, on the numbers for which something fails.
LEMMA NoFailure ==
  ASSUME NEW N \in Nat, NEW T \in SUBSET (0 .. N), 0 \notin T,
         \A n \in 1 .. N : n - 1 \notin T => n \notin T
  PROVE  T = {}
<1> SUFFICES ASSUME T # {} PROVE FALSE
  OBVIOUS
<1>1. T \in SUBSET Nat
  OBVIOUS
<1>2. PICK n \in T : \A m \in T : n <= m
  BY <1>1, LeastNumber
<1>3. n \in 1 .. N
  BY <1>2
<1>4. n - 1 \notin T
  BY <1>2, <1>3
<1> QED
  BY <1>2, <1>3, <1>4

\* A function may be defined by its value at zero and a step from each value
\* to the next.
Steps(V, N) == [1 .. N -> [V -> V]]

Unfolds(s, V, N, a, G) ==
  /\ s \in [0 .. N -> V]
  /\ s[0] = a
  /\ \A n \in 1 .. N : s[n] = G[n][s[n - 1]]

LEMMA RecursionIn ==
  ASSUME NEW V, NEW N \in Nat, NEW a \in V, NEW G \in Steps(V, N)
  PROVE  \E s : Unfolds(s, V, N, a, G)
<1> DEFINE Solves(s, M) == /\ s \in [0 .. M -> V] /\ s[0] = a
                           /\ \A n \in 1 .. M : s[n] = G[n][s[n - 1]]
           T == {M \in 0 .. N : ~ \E s : Solves(s, M)}
<1>1. \E s : Solves(s, 0)
  <2> DEFINE z == [n \in 0 .. 0 |-> a]
  <2>1. Solves(z, 0)
    OBVIOUS
  <2> QED
    BY <2>1
<1>2. ASSUME NEW M \in 1 .. N, NEW s, Solves(s, M - 1)
      PROVE  \E t : Solves(t, M)
  <2> DEFINE v == G[M][s[M - 1]]
             t == [n \in 0 .. M |-> IF n = M THEN v ELSE s[n]]
  <2>1. s[M - 1] \in V /\ G[M] \in [V -> V]
    BY <1>2 DEF Steps
  <2>2. v \in V
    BY <2>1
  <2>3. ASSUME NEW n \in 0 .. M PROVE t[n] \in V
    BY <1>2, <2>2
  <2>4. t \in [0 .. M -> V]
    BY <2>3
  <2>5. t[0] = a
    BY <1>2
  <2>6. ASSUME NEW n \in 1 .. M PROVE t[n] = G[n][t[n - 1]]
    <3>1. n - 1 \in 0 .. M /\ n - 1 # M /\ t[n - 1] = s[n - 1]
      OBVIOUS
    <3>2. CASE n = M
      BY <3>1, <3>2
    <3>3. CASE n # M
      <4>1. n \in 1 .. M - 1 /\ t[n] = s[n]
        BY <3>3
      <4>2. s[n] = G[n][s[n - 1]]
        BY <1>2, <4>1
      <4> QED
        BY <3>1, <4>1, <4>2
    <3> QED
      BY <3>2, <3>3
  <2> QED
    BY <2>4, <2>5, <2>6
<1> HIDE DEF Solves
<1>3. T \in SUBSET (0 .. N) /\ 0 \notin T
  BY <1>1
<1>4. ASSUME NEW M \in 1 .. N, M - 1 \notin T PROVE M \notin T
  <2>1. M - 1 \in 0 .. N
    OBVIOUS
  <2>2. PICK s : Solves(s, M - 1)
    BY <1>4, <2>1
  <2> QED
    BY <1>2, <2>2
<1> HIDE DEF T
<1>5. T = {}
  BY <1>3, <1>4, NoFailure
<1>6. N \in 0 .. N
  OBVIOUS
<1>7. \E s : Solves(s, N)
  BY <1>5, <1>6, Zenon DEF T
<1> QED
  BY <1>7 DEF Solves, Unfolds

LEMMA Recursion ==
  ASSUME NEW N \in Nat, NEW a \in Nat, NEW G \in [1 .. N -> [Nat -> Nat]]
  PROVE  \E s \in [0 .. N -> Nat] :
           s[0] = a /\ \A n \in 1 .. N : s[n] = G[n][s[n - 1]]
<1>1. G \in Steps(Nat, N)
  BY DEF Steps
<1>2. PICK s : Unfolds(s, Nat, N, a, G)
  BY <1>1, RecursionIn
<1> QED
  BY <1>2 DEF Unfolds
=============================================================================
