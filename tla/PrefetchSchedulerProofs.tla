---------------------- MODULE PrefetchSchedulerProofs ----------------------
(***************************************************************************)
(* Proofs about the prefetch scheduler, for every model that validate()     *)
(* accepts: how its tensors lie in memory, in which order they are hinted,  *)
(* and what tick() and rewind() do to the queue of the buffer.              *)
(***************************************************************************)
EXTENDS PrefetchScheduler, Induction, FiniteSetTheorems, SequenceTheorems, TLAPS

\* What the fields of a configuration are.
ModelType(c) ==
  /\ c.layers \in Nat /\ c.hidden \in Nat /\ c.heads \in Nat /\ c.kvHeads \in Nat
  /\ c.mlp \in Nat /\ c.vocab \in Nat /\ c.headDim \in Nat /\ c.dtype \in Nat
  /\ c.cacheHeads \in Nat /\ c.kvDtype \in Nat /\ c.inLen \in Nat /\ c.outLen \in Nat
  /\ c.batch \in Nat /\ c.seqLen \in Nat /\ c.gpus \in Nat /\ c.tp \in Nat
  /\ c.bandwidth \in Nat /\ c.align \in Nat /\ c.lead \in Nat /\ c.maxHints \in Nat
  /\ c.hbmBase \in Nat /\ c.hbfBase \in Nat /\ c.cycle \in Nat
  /\ c.horizon \in Nat /\ c.passes \in Nat

Shape == [region : {"Hbf", "Hbm"}, size : Nat]

-----------------------------------------------------------------------------
(* Sums, quotients and multiples.                                           *)

\* The sums of a function are what their name says.
LEMMA SumsOf ==
  ASSUME NEW N \in Nat, NEW f \in [1 .. N -> Nat]
  PROVE  /\ Sums(f, N) \in [0 .. N -> Nat]
         /\ Sums(f, N)[0] = 0
         /\ \A n \in 1 .. N : Sums(f, N)[n] = Sums(f, N)[n - 1] + f[n]
<1> DEFINE G == [n \in 1 .. N |-> [v \in Nat |-> v + f[n]]]
           D(s) == s = [n \in 0 .. N |-> IF n = 0 THEN 0 ELSE s[n - 1] + f[n]]
<1>1. G \in [1 .. N -> [Nat -> Nat]]
  OBVIOUS
<1> HIDE DEF G
<1>2. PICK s \in [0 .. N -> Nat] : s[0] = 0 /\ \A n \in 1 .. N : s[n] = G[n][s[n - 1]]
  <2>1. 0 \in Nat
    OBVIOUS
  <2> QED
    BY <1>1, <2>1, Recursion, Zenon
<1>3. ASSUME NEW n \in 0 .. N
      PROVE  s[n] = IF n = 0 THEN 0 ELSE s[n - 1] + f[n]
  <2>1. CASE n # 0
    <3>1. n \in 1 .. N /\ s[n - 1] \in Nat
      BY <2>1, <1>2
    <3> QED
      BY <1>2, <2>1, <3>1 DEF G
  <2> QED
    BY <1>2, <2>1
<1>4. D(s)
  BY <1>2, <1>3
<1> DEFINE t == Sums(f, N)
<1>5. t = CHOOSE u : D(u)
  BY DEF Sums
<1> HIDE DEF t
<1>6. D(t)
  BY <1>4, <1>5
<1>7. DOMAIN t = 0 .. N /\ \A n \in 0 .. N : t[n] = IF n = 0 THEN 0 ELSE t[n - 1] + f[n]
  BY <1>6, Zenon
<1>8. t[0] = 0 /\ \A n \in 1 .. N : t[n] = t[n - 1] + f[n]
  BY <1>7
<1> DEFINE T == {n \in 0 .. N : t[n] \notin Nat}
<1>9. T \in SUBSET (0 .. N) /\ 0 \notin T
  BY <1>8
<1>10. ASSUME NEW n \in 1 .. N, n - 1 \notin T PROVE n \notin T
  <2>1. t[n - 1] \in Nat
    BY <1>10
  <2> QED
    BY <1>8, <2>1
<1>11. T = {}
  <2> HIDE DEF T
  <2> QED
    BY <1>9, <1>10, NoFailure
<1>12. t = [n \in 0 .. N |-> t[n]]
  BY <1>6
<1>13. t \in [0 .. N -> Nat]
  BY <1>11, <1>12
<1> QED
  BY <1>8, <1>13 DEF t

\* The sums of numbers do not decrease.
LEMMA SumsGrow ==
  ASSUME NEW N \in Nat, NEW f \in [1 .. N -> Nat],
         NEW i \in 0 .. N, NEW j \in 0 .. N, i <= j
  PROVE  Sums(f, N)[i] <= Sums(f, N)[j]
<1> DEFINE t == Sums(f, N)
           T == {d \in 0 .. N - i : ~ (t[i] <= t[i + d])}
<1>1. /\ t \in [0 .. N -> Nat]
      /\ \A n \in 1 .. N : t[n] = t[n - 1] + f[n]
  BY SumsOf
<1> HIDE DEF t
<1>2. N - i \in Nat
  OBVIOUS
<1>3. T \in SUBSET (0 .. N - i) /\ 0 \notin T
  BY <1>1
<1>4. ASSUME NEW d \in 1 .. N - i, d - 1 \notin T PROVE d \notin T
  <2>1. d - 1 \in 0 .. N - i /\ i + d \in 1 .. N /\ i + (d - 1) \in 0 .. N
        /\ (i + d) - 1 = i + (d - 1)
    OBVIOUS
  <2>2. t[i] <= t[i + (d - 1)]
    BY <1>4, <2>1
  <2>3. t[i + d] = t[i + (d - 1)] + f[i + d]
    BY <1>1, <2>1
  <2>4. t[i] \in Nat /\ t[i + (d - 1)] \in Nat /\ f[i + d] \in Nat
    BY <1>1, <2>1
  <2>5. t[i] <= t[i + d]
    BY <2>2, <2>3, <2>4
  <2> QED
    BY <2>5
<1>5. T = {}
  <2> HIDE DEF T
  <2> QED
    BY <1>2, <1>3, <1>4, NoFailure
<1>6. j - i \in 0 .. N - i /\ i + (j - i) = j
  OBVIOUS
<1>7. t[i] <= t[i + (j - i)]
  BY <1>5, <1>6
<1> QED
  BY <1>6, <1>7 DEF t

-----------------------------------------------------------------------------
(* Rounding.                                                                *)

LEMMA Divided ==
  ASSUME NEW v \in Nat, NEW d \in Nat, d # 0
  PROVE  /\ v \div d \in Nat /\ v % d \in 0 .. d - 1
         /\ v = d * (v \div d) + (v % d)
  OBVIOUS

\* A quotient does not decrease with its dividend.
LEMMA DividedGrows ==
  ASSUME NEW v \in Nat, NEW w \in Nat, v <= w, NEW d \in Nat, d # 0
  PROVE  v \div d <= w \div d
<1> DEFINE p == v \div d
           q == w \div d
           r == v % d
           t == w % d
<1>1. p \in Nat /\ r \in 0 .. d - 1 /\ v = d * p + r
  BY Divided
<1>2. q \in Nat /\ t \in 0 .. d - 1 /\ w = d * q + t
  BY Divided
<1> HIDE DEF p, q, r, t
<1>3. ASSUME q < p PROVE FALSE
  <2>1. PICK e \in Nat : p = q + 1 + e
    <3>1. p - q - 1 \in Nat /\ p = q + 1 + (p - q - 1)
      BY <1>1, <1>2, <1>3
    <3> QED
      BY <3>1
  <2>2. d * p = d * q + d + d * e /\ d * e \in Nat /\ d * q \in Nat
    BY <1>1, <1>2, <2>1
  <2> QED
    BY <1>1, <1>2, <2>2
<1> QED
  BY <1>1, <1>2, <1>3 DEF p, q

\* A multiple leaves no remainder.
LEMMA Multiple ==
  ASSUME NEW v \in Nat, NEW q \in Nat, NEW d \in Nat, d # 0, v = q * d
  PROVE  v % d = 0
<1> DEFINE p == v \div d
           r == v % d
<1>1. p \in Nat /\ r \in 0 .. d - 1 /\ v = d * p + r
  BY Divided
<1>2. v = d * q
  OBVIOUS
<1> HIDE DEF p, r
<1>3. ASSUME q = p PROVE r = 0
  <2>1. d * p \in Nat /\ d * q = d * p
    BY <1>1, <1>3
  <2> QED
    BY <1>1, <1>2, <2>1
<1>4. ASSUME p < q PROVE FALSE
  <2>1. PICK e \in Nat : q = p + 1 + e
    <3>1. q - p - 1 \in Nat /\ q = p + 1 + (q - p - 1)
      BY <1>1, <1>4
    <3> QED
      BY <3>1
  <2>2. d * q = d * p + d + d * e /\ d * e \in Nat /\ d * p \in Nat
    BY <1>1, <2>1
  <2> QED
    BY <1>1, <1>2, <2>2
<1>5. ASSUME q < p PROVE FALSE
  <2>1. PICK e \in Nat : p = q + 1 + e
    <3>1. p - q - 1 \in Nat /\ p = q + 1 + (p - q - 1)
      BY <1>1, <1>5
    <3> QED
      BY <3>1
  <2>2. d * p = d * q + d + d * e /\ d * e \in Nat /\ d * q \in Nat
    BY <1>1, <2>1
  <2> QED
    BY <1>1, <1>2, <2>2
<1>6. r = 0
  BY <1>1, <1>3, <1>4, <1>5
<1> QED
  BY <1>6 DEF r

\* An aligned offset is not below the end it was made from.
LEMMA Aligned ==
  ASSUME NEW c, c.align \in Nat, c.align # 0, NEW v \in Nat
  PROVE  /\ AlignUp(c, v) \in Nat /\ AlignUp(c, v) >= v
         /\ AlignUp(c, v) % c.align = 0
<1> DEFINE d == c.align
           w == v + d - 1
           q == w \div d
<1>1. d \in Nat /\ d # 0 /\ w \in Nat
  OBVIOUS
<1>2. q \in Nat /\ w % d \in 0 .. d - 1 /\ w = d * q + (w % d)
  BY <1>1, Divided
<1> DEFINE u == q * d
<1>3. AlignUp(c, v) = u
  BY DEF AlignUp
<1> HIDE DEF q, w, d
<1>4. u \in Nat /\ u = d * q
  BY <1>1, <1>2
<1>5. u = q * d
  OBVIOUS
<1> HIDE DEF u
<1>6. u % d = 0
  BY <1>1, <1>2, <1>4, <1>5, Multiple
<1>7. u >= v
  BY <1>1, <1>2, <1>4 DEF w
<1> QED
  BY <1>3, <1>4, <1>6, <1>7 DEF d

-----------------------------------------------------------------------------
(* The layout.                                                              *)

LEMMA ShapeAt ==
  ASSUME NEW shapes \in Seq(Shape), NEW k \in 1 .. Len(shapes)
  PROVE  shapes[k].region \in {"Hbf", "Hbm"} /\ shapes[k].size \in Nat
<1>1. shapes[k] \in Shape
  OBVIOUS
<1> QED
  BY <1>1 DEF Shape

\* The cursor of a memory before each tensor is what add_tensor() makes it.
LEMMA CursorOf ==
  ASSUME NEW c, c.align \in Nat, c.align # 0,
         NEW shapes \in Seq(Shape), shapes # <<>>, NEW region
  PROVE  /\ CursorAt(c, shapes, region) \in [1 .. Len(shapes) -> Nat]
         /\ CursorAt(c, shapes, region)[1] = 0
         /\ \A k \in 1 .. Len(shapes) - 1 :
              CursorAt(c, shapes, region)[k + 1]
                = IF shapes[k].region = region
                  THEN AlignUp(c, CursorAt(c, shapes, region)[k] + shapes[k].size)
                  ELSE CursorAt(c, shapes, region)[k]
<1> DEFINE n == Len(shapes)
           N == n - 1
           Step(k, v) == IF shapes[k].region = region
                         THEN AlignUp(c, v + shapes[k].size) ELSE v
           G == [k \in 1 .. N |-> [v \in Nat |-> Step(k, v)]]
           D(u) == u = [k \in 1 .. n |-> IF k = 1 THEN 0
                                         ELSE IF shapes[k - 1].region = region
                                              THEN AlignUp(c, u[k - 1] + shapes[k - 1].size)
                                              ELSE u[k - 1]]
<1>1. n \in Nat /\ n # 0 /\ N \in Nat
  OBVIOUS
<1>2. ASSUME NEW k \in 1 .. N PROVE shapes[k].size \in Nat
  <2>1. k \in 1 .. n
    BY <1>1
  <2> QED
    BY <2>1, ShapeAt
<1>3. ASSUME NEW k \in 1 .. N, NEW v \in Nat PROVE Step(k, v) \in Nat
  <2> DEFINE w == v + shapes[k].size
  <2>1. w \in Nat
    BY <1>2
  <2> HIDE DEF w
  <2>2. AlignUp(c, w) \in Nat
    BY <2>1, Aligned
  <2> QED
    BY <2>2 DEF w
<1> DEFINE cur == CursorAt(c, shapes, region)
<1>4. cur = CHOOSE u : D(u)
  BY DEF CursorAt
<1> HIDE DEF Step, cur
<1>5. G \in [1 .. N -> [Nat -> Nat]]
  BY <1>3
<1> HIDE DEF G
<1>6. PICK s \in [0 .. N -> Nat] : s[0] = 0 /\ \A k \in 1 .. N : s[k] = G[k][s[k - 1]]
  <2>1. 0 \in Nat
    OBVIOUS
  <2> QED
    BY <1>1, <1>5, <2>1, Recursion, Zenon
<1> DEFINE r == [k \in 1 .. n |-> s[k - 1]]
<1>7. ASSUME NEW k \in 1 .. n
      PROVE  r[k] = IF k = 1 THEN 0 ELSE Step(k - 1, r[k - 1])
  <2>1. CASE k # 1
    <3>1. k - 1 \in 1 .. N /\ s[k - 2] \in Nat /\ r[k - 1] = s[k - 2] /\ r[k] = s[k - 1]
          /\ (k - 1) - 1 = k - 2
      BY <2>1, <1>1, <1>6
    <3>2. s[k - 1] = G[k - 1][s[k - 2]]
      BY <1>6, <3>1
    <3> QED
      BY <2>1, <3>1, <3>2 DEF G
  <2> QED
    BY <1>6, <2>1
<1>8. D(r)
  BY <1>7 DEF Step
<1>9. D(cur)
  BY <1>4, <1>8
<1>10. cur = [k \in 1 .. n |-> cur[k]] /\ cur[1] = 0
  BY <1>1, <1>9
<1>11. ASSUME NEW k \in 1 .. N PROVE cur[k + 1] = Step(k, cur[k])
  <2>1. k + 1 \in 1 .. n /\ k + 1 # 1 /\ (k + 1) - 1 = k
    BY <1>1
  <2>2. cur[k + 1] = Step((k + 1) - 1, cur[(k + 1) - 1])
    BY <1>9, <2>1 DEF Step
  <2> QED
    BY <2>1, <2>2
<1> DEFINE T == {k \in 0 .. N : cur[k + 1] \notin Nat}
<1>12. T \in SUBSET (0 .. N) /\ 0 \notin T
  BY <1>10
<1>13. ASSUME NEW k \in 1 .. N, k - 1 \notin T PROVE k \notin T
  <2>1. k - 1 \in 0 .. N /\ (k - 1) + 1 = k
    BY <1>1
  <2>2. cur[k] \in Nat
    BY <1>13, <2>1
  <2> QED
    BY <1>3, <1>11, <2>2
<1>14. T = {}
  <2> HIDE DEF T
  <2> QED
    BY <1>1, <1>12, <1>13, NoFailure
<1>15. ASSUME NEW k \in 1 .. n PROVE cur[k] \in Nat
  <2>1. k - 1 \in 0 .. N /\ (k - 1) + 1 = k
    BY <1>1
  <2> QED
    BY <1>14, <2>1
<1>16. cur \in [1 .. n -> Nat]
  BY <1>10, <1>15
<1> QED
  BY <1>10, <1>11, <1>16 DEF Step, cur

\* It does not go back, starts each tensor aligned, and leaves every tensor
\* of the memory its room.
LEMMA CursorGrows ==
  ASSUME NEW c, c.align \in Nat, c.align # 0,
         NEW shapes \in Seq(Shape), shapes # <<>>, NEW region,
         NEW i \in 1 .. Len(shapes)
  PROVE  LET cur == CursorAt(c, shapes, region)
         IN  /\ cur[i] % c.align = 0
             /\ \A j \in i .. Len(shapes) : cur[i] <= cur[j]
             /\ shapes[i].region = region =>
                  \A j \in i + 1 .. Len(shapes) : cur[i] + shapes[i].size <= cur[j]
<1> DEFINE n == Len(shapes)
           cur == CursorAt(c, shapes, region)
<1>1. /\ n \in Nat /\ n # 0
      /\ cur \in [1 .. n -> Nat]
      /\ cur[1] = 0
      /\ \A k \in 1 .. n - 1 :
           cur[k + 1] = IF shapes[k].region = region
                        THEN AlignUp(c, cur[k] + shapes[k].size) ELSE cur[k]
  BY CursorOf
<1>2. \A k \in 1 .. n : shapes[k].size \in Nat
  BY ShapeAt
<1> HIDE DEF cur
<1>3. ASSUME NEW k \in 1 .. n - 1
      PROVE  /\ cur[k] <= cur[k + 1]
             /\ shapes[k].region = region => cur[k] + shapes[k].size <= cur[k + 1]
             /\ cur[k] % c.align = 0 => cur[k + 1] % c.align = 0
  <2>1. cur[k] \in Nat /\ shapes[k].size \in Nat /\ cur[k] + shapes[k].size \in Nat
    <3>1. k \in 1 .. n
      BY <1>1
    <3>2. cur[k] \in Nat /\ shapes[k].size \in Nat
      BY <1>1, <1>2, <3>1
    <3> QED
      BY <3>2
  <2>2. CASE shapes[k].region = region
    <3> DEFINE v == cur[k] + shapes[k].size
               u == AlignUp(c, v)
    <3>1. v \in Nat
      BY <2>1
    <3>2. cur[k + 1] = u
      BY <1>1, <2>2
    <3> HIDE DEF v
    <3>3. u \in Nat /\ u >= v /\ u % c.align = 0
      BY <3>1, Aligned
    <3> HIDE DEF u
    <3>4. v >= cur[k]
      BY <2>1 DEF v
    <3> QED
      BY <2>1, <3>1, <3>2, <3>3, <3>4 DEF v
  <2>3. CASE shapes[k].region # region
    BY <1>1, <2>1, <2>3
  <2> QED
    BY <2>2, <2>3
<1>4. cur[i] % c.align = 0
  <2> DEFINE T == {m \in 0 .. n - 1 : cur[m + 1] % c.align # 0}
  <2>1. cur[1] % c.align = 0
    <3>1. 0 = 0 * c.align
      OBVIOUS
    <3> QED
      BY <1>1, <3>1, Multiple
  <2>2. T \in SUBSET (0 .. n - 1) /\ 0 \notin T
    BY <2>1
  <2>3. ASSUME NEW m \in 1 .. n - 1, m - 1 \notin T PROVE m \notin T
    <3>1. m - 1 \in 0 .. n - 1 /\ (m - 1) + 1 = m
      BY <1>1
    <3>2. cur[m] % c.align = 0
      BY <2>3, <3>1
    <3> QED
      BY <1>3, <3>2
  <2>4. T = {}
    <3> HIDE DEF T
    <3>1. n - 1 \in Nat
      BY <1>1
    <3> QED
      BY <2>2, <2>3, <3>1, NoFailure
  <2>5. i - 1 \in 0 .. n - 1 /\ (i - 1) + 1 = i
    BY <1>1
  <2> QED
    BY <2>4, <2>5
<1>5. ASSUME NEW a \in 1 .. n, NEW j \in a .. n PROVE cur[a] <= cur[j]
  <2> DEFINE T == {d \in 0 .. n - a : ~ (cur[a] <= cur[a + d])}
  <2>1. n - a \in Nat
    BY <1>1
  <2>2. T \in SUBSET (0 .. n - a) /\ 0 \notin T
    BY <1>1
  <2>3. ASSUME NEW d \in 1 .. n - a, d - 1 \notin T PROVE d \notin T
    <3>1. d - 1 \in 0 .. n - a /\ a + (d - 1) \in 1 .. n - 1 /\ a + d \in 1 .. n
          /\ (a + (d - 1)) + 1 = a + d
      BY <1>1
    <3>2. cur[a] <= cur[a + (d - 1)]
      BY <2>3, <3>1
    <3>3. cur[a + (d - 1)] <= cur[a + d]
      BY <1>3, <3>1
    <3> DEFINE e == a + (d - 1)
               h == a + d
    <3>4. cur[a] \in Nat /\ cur[e] \in Nat /\ cur[h] \in Nat
      <4>1. e \in 1 .. n /\ h \in 1 .. n
        BY <1>1, <3>1
      <4> HIDE DEF e, h
      <4> QED
        BY <1>1, <4>1
    <3>5. cur[a] <= cur[a + d]
      BY <3>2, <3>3, <3>4
    <3> QED
      BY <3>5
  <2>4. T = {}
    <3> HIDE DEF T
    <3> QED
      BY <2>1, <2>2, <2>3, NoFailure
  <2>5. j - a \in 0 .. n - a /\ a + (j - a) = j
    BY <1>1
  <2>6. cur[a] <= cur[a + (j - a)]
    BY <2>4, <2>5
  <2> QED
    BY <2>5, <2>6
<1>6. ASSUME shapes[i].region = region, NEW j \in i + 1 .. n
      PROVE  cur[i] + shapes[i].size <= cur[j]
  <2>1. i \in 1 .. n - 1 /\ i + 1 \in 1 .. n /\ j \in 1 .. n
    BY <1>1
  <2>2. cur[i] + shapes[i].size <= cur[i + 1]
    BY <1>3, <1>6, <2>1
  <2>3. cur[i + 1] <= cur[j]
    BY <1>5, <2>1
  <2>4. cur[i] \in Nat /\ cur[i + 1] \in Nat /\ cur[j] \in Nat /\ shapes[i].size \in Nat
    BY <1>1, <1>2, <2>1
  <2> QED
    BY <2>2, <2>3, <2>4
<1> QED
  BY <1>4, <1>5, <1>6 DEF cur

\* The sizes of a model are numbers.
LEMMA SizesOf ==
  ASSUME NEW c, ModelType(c), ValidModel(c)
  PROVE  /\ c.bandwidth # 0 /\ c.align # 0 /\ c.layers # 0 /\ c.tp # 0
         /\ SharedKvBytes(c) \div c.layers \in Nat
         /\ GeneratedKvBytes(c) \div c.layers \in Nat
         /\ ActivationBytes(c) \in Nat
         /\ (c.vocab * c.hidden * c.dtype) \div c.tp \in Nat
         /\ \A k \in 1 .. 9 : LayerWeights(c)[k] \in Shape /\ LayerWeights(c)[k].region = "Hbf"
<1>1. /\ c.bandwidth # 0 /\ c.align # 0 /\ c.layers # 0 /\ c.tp # 0 /\ c.gpus # 0
  BY DEF ValidModel
<1>2. ASSUME NEW a \in Nat, NEW b \in Nat PROVE a * b \in Nat
  OBVIOUS
<1>3. ASSUME NEW a \in Nat, NEW d \in Nat, d # 0 PROVE a \div d \in Nat
  BY <1>3, Divided
<1>4. KvBytesPerToken(c) \in Nat
  BY DEF ModelType, KvBytesPerToken
<1>5. GeneratedTokens(c) \in Nat
  BY DEF ModelType, GeneratedTokens
<1>6. SharedTokens(c) \in Nat
  BY <1>5 DEF ModelType, SharedTokens
<1>7. SharedKvBytes(c) \in Nat /\ GeneratedKvBytes(c) \in Nat
  BY <1>1, <1>2, <1>3, <1>4, <1>5, <1>6 DEF ModelType, SharedKvBytes, GeneratedKvBytes
<1>8. ActivationBytes(c) \in Nat
  BY DEF ModelType, ActivationBytes
<1> DEFINE h == c.hidden * c.dtype
           q == c.hidden * c.heads * c.headDim * c.dtype
           kv == c.hidden * c.kvHeads * c.headDim * c.dtype
           m == c.hidden * c.mlp * c.dtype
           e == c.vocab * c.hidden * c.dtype
<1>9. h \in Nat /\ q \in Nat /\ kv \in Nat /\ m \in Nat /\ e \in Nat
  BY DEF ModelType
<1>10. LayerWeights(c) =
         <<InHbf(h), InHbf(q \div c.tp), InHbf(kv \div c.tp), InHbf(kv \div c.tp),
           InHbf(q \div c.tp), InHbf(h), InHbf(m \div c.tp), InHbf(m \div c.tp),
           InHbf(m \div c.tp)>>
  BY DEF LayerWeights
<1> HIDE DEF h, q, kv, m, e
<1>11. c.tp \in Nat /\ c.layers \in Nat
  BY DEF ModelType
<1>12. /\ q \div c.tp \in Nat /\ kv \div c.tp \in Nat /\ m \div c.tp \in Nat
       /\ e \div c.tp \in Nat
  BY <1>1, <1>3, <1>9, <1>11
<1>13. \A z \in Nat : InHbf(z) \in Shape /\ InHbf(z).region = "Hbf"
  BY DEF InHbf, Shape
<1>14. \A k \in 1 .. 9 : LayerWeights(c)[k] \in Shape /\ LayerWeights(c)[k].region = "Hbf"
  <2>1. \A k \in 1 .. 9 : \E z \in Nat : LayerWeights(c)[k] = InHbf(z)
    BY <1>9, <1>10, <1>12
  <2> QED
    BY <1>13, <2>1
<1> QED
  BY <1>1, <1>3, <1>7, <1>8, <1>11, <1>12, <1>14 DEF e

\* A sequence of tensors for one memory, and one with those for HBF in front.
OfOne(s, region) == s \in Seq(Shape) /\ \A k \in 1 .. Len(s) : s[k].region = region

HbfFirst(s) ==
  /\ s \in Seq(Shape)
  /\ \A j, k \in 1 .. Len(s) : j < k /\ s[k].region = "Hbf" => s[j].region = "Hbf"

LEMMA OneAfterOne ==
  ASSUME NEW region, NEW s, OfOne(s, region), NEW t, OfOne(t, region)
  PROVE  OfOne(s \o t, region)
<1>1. s \in Seq(Shape) /\ t \in Seq(Shape)
  BY DEF OfOne
<1>2. /\ s \o t \in Seq(Shape) /\ Len(s \o t) = Len(s) + Len(t)
      /\ \A i \in 1 .. Len(s) + Len(t) :
           (s \o t)[i] = IF i <= Len(s) THEN s[i] ELSE t[i - Len(s)]
  BY <1>1, ConcatProperties, Zenon
<1>3. Len(s) \in Nat /\ Len(t) \in Nat
  BY <1>1
<1>4. ASSUME NEW i \in 1 .. Len(s) + Len(t) PROVE (s \o t)[i].region = region
  <2>1. CASE i <= Len(s)
    <3>1. i \in 1 .. Len(s)
      BY <1>3, <2>1
    <3> QED
      BY <1>2, <2>1, <3>1 DEF OfOne
  <2>2. CASE ~ (i <= Len(s))
    <3>1. i - Len(s) \in 1 .. Len(t)
      BY <1>3, <2>2
    <3> QED
      BY <1>2, <2>2, <3>1 DEF OfOne
  <2> QED
    BY <2>1, <2>2
<1> QED
  BY <1>2, <1>4 DEF OfOne

LEMMA HbmAfterHbf ==
  ASSUME NEW s, HbfFirst(s), NEW t, OfOne(t, "Hbm")
  PROVE  HbfFirst(s \o t)
<1>1. s \in Seq(Shape) /\ t \in Seq(Shape)
  BY DEF OfOne, HbfFirst
<1>2. /\ s \o t \in Seq(Shape) /\ Len(s \o t) = Len(s) + Len(t)
      /\ \A i \in 1 .. Len(s) + Len(t) :
           (s \o t)[i] = IF i <= Len(s) THEN s[i] ELSE t[i - Len(s)]
  BY <1>1, ConcatProperties, Zenon
<1>3. Len(s) \in Nat /\ Len(t) \in Nat
  BY <1>1
<1>4. ASSUME NEW j \in 1 .. Len(s) + Len(t), NEW k \in 1 .. Len(s) + Len(t), j < k,
             (s \o t)[k].region = "Hbf"
      PROVE  (s \o t)[j].region = "Hbf"
  <2>1. k <= Len(s)
    <3>1. ASSUME ~ (k <= Len(s)) PROVE FALSE
      <4>1. k - Len(s) \in 1 .. Len(t)
        BY <1>3, <3>1
      <4>2. (s \o t)[k].region = "Hbm"
        BY <1>2, <3>1, <4>1 DEF OfOne
      <4> QED
        BY <1>4, <4>2
    <3> QED
      BY <3>1
  <2>2. j \in 1 .. Len(s) /\ k \in 1 .. Len(s) /\ j <= Len(s)
    BY <1>3, <1>4, <2>1
  <2>3. (s \o t)[j] = s[j] /\ (s \o t)[k] = s[k]
    BY <1>2, <2>1, <2>2
  <2> QED
    BY <1>4, <2>2, <2>3 DEF HbfFirst
<1> QED
  BY <1>2, <1>4 DEF HbfFirst

\* A function on the first numbers is a sequence.
LEMMA SeqOf ==
  ASSUME NEW T, NEW n \in Nat, NEW f \in [1 .. n -> T]
  PROVE  f \in Seq(T) /\ Len(f) = n
OBVIOUS

\* The tensors for HBF are laid out first.
LEMMA ShapesOf ==
  ASSUME NEW c, ModelType(c), ValidModel(c)
  PROVE  HbfFirst(Shapes(c)) /\ Shapes(c) # <<>>
<1> DEFINE embed == InHbf((c.vocab * c.hidden * c.dtype) \div c.tp)
           weights == [k \in 1 .. 9 * c.layers |-> LayerWeights(c)[((k - 1) % 9) + 1]]
           shared == [l \in 1 .. c.layers |-> InHbf(SharedKvBytes(c) \div c.layers)]
           generated == [l \in 1 .. c.layers |-> InHbm(GeneratedKvBytes(c) \div c.layers)]
           activations == InHbm(ActivationBytes(c))
<1>1. c.layers \in Nat /\ 9 * c.layers \in Nat
  BY DEF ModelType
<1>2. \A z \in Nat : /\ InHbf(z) \in Shape /\ InHbf(z).region = "Hbf"
                     /\ InHbm(z) \in Shape /\ InHbm(z).region = "Hbm"
  BY DEF InHbf, InHbm, Shape
<1>3. /\ embed \in Shape /\ embed.region = "Hbf"
      /\ activations \in Shape /\ activations.region = "Hbm"
  BY <1>2, SizesOf
<1>4. /\ InHbf(SharedKvBytes(c) \div c.layers) \in Shape
      /\ InHbf(SharedKvBytes(c) \div c.layers).region = "Hbf"
      /\ InHbm(GeneratedKvBytes(c) \div c.layers) \in Shape
      /\ InHbm(GeneratedKvBytes(c) \div c.layers).region = "Hbm"
  BY <1>2, SizesOf
<1>5. Shapes(c) = <<embed>> \o weights \o <<embed>> \o shared \o generated \o <<activations>>
  BY DEF Shapes
<1>6. ASSUME NEW k \in 1 .. 9 * c.layers
      PROVE  weights[k] \in Shape /\ weights[k].region = "Hbf"
  <2>1. (k - 1) % 9 \in 0 .. 8
    BY <1>1
  <2>2. ((k - 1) % 9) + 1 \in 1 .. 9
    BY <2>1
  <2> QED
    BY <2>2, SizesOf
<1>7. OfOne(<<embed>>, "Hbf") /\ OfOne(<<activations>>, "Hbm")
  <2>1. ASSUME NEW x \in Shape PROVE OfOne(<<x>>, x.region)
    <3>1. <<x>> \in Seq(Shape) /\ Len(<<x>>) = 1 /\ <<x>>[1] = x
      OBVIOUS
    <3>2. \A k \in 1 .. Len(<<x>>) : k = 1
      BY <3>1
    <3> QED
      BY <3>1, <3>2, Zenon DEF OfOne
  <2> HIDE DEF embed, activations
  <2> QED
    BY <1>3, <2>1, Zenon
<1>8. OfOne(shared, "Hbf") /\ OfOne(generated, "Hbm")
  <2>1. /\ shared \in [1 .. c.layers -> Shape] /\ generated \in [1 .. c.layers -> Shape]
        /\ \A l \in 1 .. c.layers : shared[l].region = "Hbf" /\ generated[l].region = "Hbm"
    BY <1>4
  <2> HIDE DEF shared, generated
  <2>2. shared \in Seq(Shape) /\ Len(shared) = c.layers
    BY <1>1, <2>1, SeqOf
  <2>3. generated \in Seq(Shape) /\ Len(generated) = c.layers
    BY <1>1, <2>1, SeqOf
  <2> QED
    BY <2>1, <2>2, <2>3 DEF OfOne
<1>9. OfOne(weights, "Hbf")
  <2>1. weights = [k \in 1 .. 9 * c.layers |-> weights[k]]
    OBVIOUS
  <2> HIDE DEF weights
  <2>2. weights \in [1 .. 9 * c.layers -> Shape]
    BY <1>6, <2>1
  <2>3. weights \in Seq(Shape) /\ Len(weights) = 9 * c.layers
    BY <1>1, <2>2
  <2> QED
    BY <1>6, <2>3 DEF OfOne
<1> HIDE DEF embed, weights, shared, generated, activations
<1> DEFINE hbf == <<embed>> \o weights \o <<embed>> \o shared
<1>10. OfOne(hbf, "Hbf")
  BY <1>7, <1>8, <1>9, OneAfterOne
<1>11. HbfFirst(hbf)
  BY <1>10 DEF OfOne, HbfFirst
<1> HIDE DEF hbf
<1>12. HbfFirst(hbf \o generated \o <<activations>>)
  BY <1>7, <1>8, <1>11, HbmAfterHbf
<1>13. hbf \o generated \o <<activations>> # <<>>
  <2> DEFINE front == hbf \o generated
  <2>1. front \in Seq(Shape)
    BY <1>8, <1>11, HbmAfterHbf DEF HbfFirst
  <2> HIDE DEF front
  <2>2. Len(front \o <<activations>>) = Len(front) + 1 /\ Len(front) \in Nat
    BY <1>3, <2>1
  <2>3. front \o <<activations>> # <<>>
    BY <2>2
  <2> QED
    BY <2>3 DEF front
<1> QED
  BY <1>5, <1>12, <1>13 DEF hbf

TensorType == [region : {"Hbf", "Hbm"}, size : Nat, local : Nat, global : Nat,
               needed : Nat, hint : Nat]

Base(c, region) == IF region = "Hbf" THEN c.hbfBase ELSE c.hbmBase

\* How the tensors of a model lie: those of HBF come first; each one is
\* aligned, behind all that came before it in its memory, and needed no
\* earlier than those.
LaidOut(c, ts) ==
  /\ ts \in Seq(TensorType)
  /\ \A k \in 1 .. Len(ts) :
       /\ ts[k].global = Base(c, ts[k].region) + ts[k].local
       /\ ts[k].local % c.align = 0
       /\ ts[k].hint = HintAt(c, ts[k].needed)
  /\ \A j, k \in 1 .. Len(ts) : j < k =>
       /\ ts[k].region = "Hbf" => ts[j].region = "Hbf"
       /\ ts[j].region = ts[k].region => ts[j].local + ts[j].size <= ts[k].local
       /\ ts[j].needed <= ts[k].needed

\* build_schedule() lays the tensors of any model out like that.
LEMMA TensorsOf ==
  ASSUME NEW c, ModelType(c), ValidModel(c)
  PROVE  LaidOut(c, Tensors(c))
<1> DEFINE shapes == Shapes(c)
           n == Len(shapes)
           hbm == CursorAt(c, shapes, "Hbm")
           hbf == CursorAt(c, shapes, "Hbf")
           f == [k \in DOMAIN shapes |-> IF shapes[k].region = "Hbf" THEN shapes[k].size
                                         ELSE 0]
           read == Sums(f, n)
           Local(k) == IF shapes[k].region = "Hbf" THEN hbf[k] ELSE hbm[k]
           base(k) == IF shapes[k].region = "Hbf" THEN c.hbfBase ELSE c.hbmBase
           needed(k) == read[k - 1] \div c.bandwidth
           tensor(k) == [region |-> shapes[k].region, size |-> shapes[k].size,
                         local |-> Local(k), global |-> base(k) + Local(k),
                         needed |-> needed(k), hint |-> HintAt(c, needed(k))]
           ts == Tensors(c)
<1>1. ts = [k \in DOMAIN shapes |-> tensor(k)]
  BY DEF Tensors, Streamed
<1>2. HbfFirst(shapes) /\ shapes # <<>>
  BY ShapesOf
<1>3. /\ c.align \in Nat /\ c.align # 0 /\ c.bandwidth \in Nat /\ c.bandwidth # 0
      /\ c.lead \in Nat /\ c.hbfBase \in Nat /\ c.hbmBase \in Nat
  BY SizesOf DEF ModelType
<1> HIDE DEF shapes
<1>4. shapes \in Seq(Shape) /\ DOMAIN shapes = 1 .. n /\ n \in Nat
  BY <1>2 DEF HbfFirst
<1>5. ASSUME NEW k \in 1 .. n
      PROVE  shapes[k].region \in {"Hbf", "Hbm"} /\ shapes[k].size \in Nat
  BY <1>4, ShapeAt
<1>6. f \in [1 .. n -> Nat]
  BY <1>4, <1>5
<1>7. /\ read \in [0 .. n -> Nat]
      /\ \A i, j \in 0 .. n : i <= j => read[i] <= read[j]
  <2> HIDE DEF f
  <2> QED
    BY <1>4, <1>6, SumsOf, SumsGrow
<1>8. hbm \in [1 .. n -> Nat] /\ hbf \in [1 .. n -> Nat]
  BY <1>2, <1>3, <1>4, CursorOf
<1>9. ASSUME NEW k \in 1 .. n
      PROVE  /\ hbm[k] % c.align = 0 /\ hbf[k] % c.align = 0
             /\ \A j \in k + 1 .. n :
                  /\ shapes[k].region = "Hbm" => hbm[k] + shapes[k].size <= hbm[j]
                  /\ shapes[k].region = "Hbf" => hbf[k] + shapes[k].size <= hbf[j]
  BY <1>2, <1>3, <1>4, CursorGrows
<1> HIDE DEF hbm, hbf, read, n
<1>10. ASSUME NEW k \in 1 .. n
       PROVE  needed(k) \in Nat
  <2>1. k - 1 \in 0 .. n
    BY <1>4
  <2>2. read[k - 1] \in Nat
    BY <1>7, <2>1
  <2> QED
    BY <1>3, <2>2, Divided
<1>11. ASSUME NEW j \in 1 .. n, NEW k \in 1 .. n, j < k
       PROVE  needed(j) <= needed(k)
  <2>1. j - 1 \in 0 .. n /\ k - 1 \in 0 .. n /\ j - 1 <= k - 1
    BY <1>4, <1>11
  <2>2. read[j - 1] \in Nat /\ read[k - 1] \in Nat /\ read[j - 1] <= read[k - 1]
    BY <1>7, <2>1
  <2> QED
    BY <1>3, <2>2, DividedGrows
<1> HIDE DEF needed
<1>12. \A m \in Nat : HintAt(c, m) \in Nat
  BY <1>3 DEF HintAt
<1>13. ASSUME NEW k \in 1 .. n PROVE Local(k) \in Nat /\ Local(k) % c.align = 0
  BY <1>5, <1>8, <1>9
<1>14. ASSUME NEW j \in 1 .. n, NEW k \in 1 .. n, j < k, shapes[j].region = shapes[k].region
       PROVE  Local(j) + shapes[j].size <= Local(k)
  <2>1. k \in j + 1 .. n
    BY <1>4, <1>14
  <2> QED
    BY <1>5, <1>9, <1>14, <2>1
<1> HIDE DEF Local
<1>15. ASSUME NEW k \in 1 .. n PROVE tensor(k) \in TensorType
  <2>1. base(k) \in Nat /\ base(k) + Local(k) \in Nat
    BY <1>3, <1>13
  <2> QED
    BY <1>5, <1>10, <1>12, <1>13, <2>1 DEF TensorType
<1>16. \A k \in 1 .. n : ts[k] = tensor(k)
  BY <1>1, <1>4
<1>17. ts \in Seq(TensorType) /\ Len(ts) = n
  <2>1. ts \in [1 .. n -> TensorType]
    BY <1>1, <1>4, <1>15, Zenon
  <2> HIDE DEF ts
  <2> QED
    BY <1>4, <2>1
<1> HIDE DEF ts
<1>18. ASSUME NEW k \in 1 .. n
       PROVE  /\ ts[k].region = shapes[k].region /\ ts[k].size = shapes[k].size
              /\ ts[k].local = Local(k) /\ ts[k].global = base(k) + Local(k)
              /\ ts[k].needed = needed(k) /\ ts[k].hint = HintAt(c, needed(k))
  <2>1. ts[k] = tensor(k)
    BY <1>16
  <2> QED
    BY <2>1
<1>19. ASSUME NEW k \in 1 .. n
       PROVE  /\ ts[k].global = Base(c, ts[k].region) + ts[k].local
              /\ ts[k].local % c.align = 0
              /\ ts[k].hint = HintAt(c, ts[k].needed)
  BY <1>13, <1>18 DEF Base
<1>20. ASSUME NEW j \in 1 .. n, NEW k \in 1 .. n, j < k
       PROVE  /\ ts[k].region = "Hbf" => ts[j].region = "Hbf"
              /\ ts[j].region = ts[k].region => ts[j].local + ts[j].size <= ts[k].local
              /\ ts[j].needed <= ts[k].needed
  <2>1. /\ ts[j].region = shapes[j].region /\ ts[k].region = shapes[k].region
        /\ ts[j].local = Local(j) /\ ts[k].local = Local(k) /\ ts[j].size = shapes[j].size
        /\ ts[j].needed = needed(j) /\ ts[k].needed = needed(k)
    BY <1>18
  <2>2. shapes[k].region = "Hbf" => shapes[j].region = "Hbf"
    BY <1>2, <1>20 DEF HbfFirst, n
  <2> QED
    BY <1>11, <1>14, <1>20, <2>1, <2>2
<1> QED
  BY <1>17, <1>19, <1>20 DEF LaidOut, ts

-----------------------------------------------------------------------------
(* Sorting.                                                                 *)

Earlier(key, j, k) == key[j] < key[k] \/ (key[j] = key[k] /\ j < k)

Rank(S, key, k) == Cardinality({j \in S : Earlier(key, j, k)})

LEMMA RankIncreases ==
  ASSUME NEW S \in SUBSET Nat, IsFiniteSet(S), NEW key, \A k \in S : key[k] \in Int,
         NEW j \in S, NEW k \in S
  PROVE  /\ Rank(S, key, j) \in 0 .. Cardinality(S) - 1
         /\ Earlier(key, j, k) => Rank(S, key, j) < Rank(S, key, k)
         /\ j # k => Earlier(key, j, k) \/ Earlier(key, k, j)
<1> DEFINE Before(m) == {i \in S : Earlier(key, i, m)}
<1>1. ASSUME NEW m \in S
      PROVE  /\ IsFiniteSet(Before(m)) /\ Cardinality(Before(m)) \in Nat
             /\ m \notin Before(m) /\ Before(m) \in SUBSET S
  <2>1. Before(m) \in SUBSET S
    OBVIOUS
  <2>2. m \notin Before(m)
    BY DEF Earlier
  <2> QED
    BY <2>1, <2>2, FS_Subset, FS_CardinalityType
<1>2. Cardinality(Before(j)) < Cardinality(S) /\ Cardinality(S) \in Nat
  <2>1. Before(j) \in SUBSET S /\ Before(j) # S
    BY <1>1
  <2>2. /\ Cardinality(Before(j)) <= Cardinality(S)
        /\ Cardinality(S) = Cardinality(Before(j)) => S = Before(j)
    BY <2>1, FS_Subset
  <2>3. Cardinality(S) \in Nat /\ Cardinality(Before(j)) \in Nat
    BY <1>1, FS_CardinalityType
  <2> HIDE DEF Before
  <2> QED
    BY <2>1, <2>2, <2>3
<1>3. ASSUME Earlier(key, j, k) PROVE Cardinality(Before(j)) < Cardinality(Before(k))
  <2>1. ASSUME NEW i \in Before(j) PROVE i \in Before(k)
    BY <1>3, <2>1 DEF Earlier
  <2>2. Before(j) \in SUBSET Before(k) /\ j \in Before(k) /\ j \notin Before(j)
    BY <1>1, <1>3, <2>1
  <2>3. IsFiniteSet(Before(k)) /\ Cardinality(Before(j)) \in Nat
        /\ Cardinality(Before(k)) \in Nat
    BY <1>1
  <2> HIDE DEF Before
  <2>4. /\ Cardinality(Before(j)) <= Cardinality(Before(k))
        /\ Cardinality(Before(k)) = Cardinality(Before(j)) => Before(k) = Before(j)
    BY <2>2, <2>3, FS_Subset
  <2> QED
    BY <2>2, <2>3, <2>4
<1>4. j # k => Earlier(key, j, k) \/ Earlier(key, k, j)
  BY DEF Earlier
<1>5. Rank(S, key, j) = Cardinality(Before(j)) /\ Rank(S, key, k) = Cardinality(Before(k))
  BY DEF Rank
<1>6. Cardinality(Before(j)) \in Nat
  BY <1>1
<1> HIDE DEF Before
<1>7. Cardinality(Before(j)) \in 0 .. Cardinality(S) - 1
  BY <1>2, <1>6
<1> QED
  BY <1>3, <1>4, <1>5, <1>7

\* Ranked lists the members of a set, all of them, each one once, in order: an
\* injection between finite sets of one size is onto.
LEMMA RankedOf ==
  ASSUME NEW S \in SUBSET Nat, IsFiniteSet(S), NEW key, \A k \in S : key[k] \in Int
  PROVE  /\ Cardinality(S) \in Nat
         /\ Ranked(S, key) \in [1 .. Cardinality(S) -> S]
         /\ \A i, j \in 1 .. Cardinality(S) :
              i < j => Earlier(key, Ranked(S, key)[i], Ranked(S, key)[j])
         /\ \A k \in S : \E i \in 1 .. Cardinality(S) : Ranked(S, key)[i] = k
<1> DEFINE n == Cardinality(S)
           P == 0 .. n - 1
           f == [k \in S |-> Rank(S, key, k)]
           r == Ranked(S, key)
<1>1. n \in Nat
  BY FS_CardinalityType
<1>2. IsFiniteSet(P) /\ Cardinality(P) = n
  <2>1. 0 \in Int /\ n - 1 \in Int /\ (0 <= n - 1 => n - 1 - 0 + 1 = n)
        /\ (~ (0 <= n - 1) => n = 0)
    BY <1>1
  <2> HIDE DEF n
  <2> QED
    BY <2>1, FS_Interval
<1>3. f \in [S -> P]
  BY RankIncreases
<1>4. ASSUME NEW j \in S, NEW k \in S, f[j] = f[k] PROVE j = k
  <2>1. Rank(S, key, j) \in Int /\ Rank(S, key, j) = Rank(S, key, k)
    BY <1>1, <1>4, RankIncreases
  <2> QED
    BY <2>1, RankIncreases
<1>5. f \in Injection(S, P)
  BY <1>3, <1>4 DEF Injection, IsInjective
<1>6. f \in Surjection(S, P)
  BY <1>2, <1>5, FS_Injection
<1>7. ASSUME NEW i \in 1 .. n
      PROVE  r[i] \in S /\ Rank(S, key, r[i]) = i - 1
  <2>1. r[i] = CHOOSE k \in S : Rank(S, key, k) = i - 1
    BY DEF Ranked, Rank, Earlier
  <2>2. i - 1 \in P
    BY <1>1
  <2>3. PICK k \in S : f[k] = i - 1
    <3> HIDE DEF P, f
    <3> QED
      BY <1>6, <2>2 DEF Surjection
  <2>4. Rank(S, key, k) = i - 1
    BY <2>3
  <2> QED
    BY <2>1, <2>4
<1>8. r = [i \in 1 .. n |-> r[i]]
  <2> DEFINE C(i) == CHOOSE k \in S : Rank(S, key, k) = i - 1
  <2>1. r = [i \in 1 .. n |-> C(i)]
    BY DEF Ranked, Rank, Earlier
  <2> HIDE DEF C, r
  <2> QED
    BY <2>1
<1> HIDE DEF r, n, P, f
<1>9. r \in [1 .. n -> S]
  BY <1>7, <1>8
<1>10. ASSUME NEW i \in 1 .. n, NEW j \in 1 .. n, i < j PROVE Earlier(key, r[i], r[j])
  <2>1. /\ r[i] \in S /\ r[j] \in S
        /\ Rank(S, key, r[i]) = i - 1 /\ Rank(S, key, r[j]) = j - 1
    BY <1>7
  <2>2. ~ Earlier(key, r[j], r[i])
    <3>1. ~ (j - 1 < i - 1)
      BY <1>1, <1>10
    <3> QED
      BY <2>1, <3>1, RankIncreases
  <2>3. r[i] # r[j]
    BY <1>1, <1>10, <2>1
  <2> QED
    BY <2>1, <2>2, <2>3, RankIncreases
<1>11. ASSUME NEW k \in S PROVE \E i \in 1 .. n : r[i] = k
  <2>1. Rank(S, key, k) \in 0 .. n - 1
    BY RankIncreases DEF n
  <2> DEFINE i == Rank(S, key, k) + 1
  <2>2. i \in 1 .. n /\ i - 1 = Rank(S, key, k)
    BY <1>1, <2>1
  <2>3. r[i] \in S /\ Rank(S, key, r[i]) = Rank(S, key, k)
    BY <1>7, <2>2
  <2>4. f[r[i]] = f[k]
    BY <2>3 DEF f
  <2>5. r[i] = k
    BY <1>4, <2>3, <2>4
  <2> QED
    BY <2>2, <2>5
<1> QED
  BY <1>1, <1>9, <1>10, <1>11 DEF r, n

\* An order in which each tensor of HBF is hinted once, as they are laid out.
AsLaidOut(ts, ord) ==
  /\ ord \in Seq(OfHbf(ts))
  /\ \A i, j \in 1 .. Len(ord) : i < j => ord[i] < ord[j]
  /\ \A k \in OfHbf(ts) : \E i \in 1 .. Len(ord) : ord[i] = k

LEMMA TensorFields ==
  ASSUME NEW c, NEW ts, LaidOut(c, ts), NEW k \in 1 .. Len(ts)
  PROVE  /\ ts[k].region \in {"Hbf", "Hbm"} /\ ts[k].size \in Nat
         /\ ts[k].local \in Nat /\ ts[k].global \in Nat
         /\ ts[k].needed \in Nat /\ ts[k].hint \in Nat
<1>1. ts \in Seq(TensorType)
  BY DEF LaidOut
<1>2. ts[k] \in TensorType
  BY <1>1
<1> QED
  BY <1>2 DEF TensorType

LEMMA OfHbfIn ==
  ASSUME NEW c, NEW ts, LaidOut(c, ts)
  PROVE  /\ Len(ts) \in Nat /\ DOMAIN ts = 1 .. Len(ts)
         /\ OfHbf(ts) \in SUBSET (1 .. Len(ts))
         /\ \A k \in OfHbf(ts) : ts[k].region = "Hbf"
<1>1. ts \in Seq(TensorType)
  BY DEF LaidOut
<1>2. DOMAIN ts = 1 .. Len(ts) /\ Len(ts) \in Nat
  BY <1>1
<1> QED
  BY <1>2 DEF OfHbf

\* A tensor behind another is not hinted before it.
LEMMA HintsGrow ==
  ASSUME NEW c, c.lead \in Nat, NEW ts, LaidOut(c, ts),
         NEW j \in 1 .. Len(ts), NEW k \in 1 .. Len(ts), j < k
  PROVE  ts[j].hint <= ts[k].hint
<1>1. /\ ts[j].needed <= ts[k].needed
      /\ ts[j].hint = HintAt(c, ts[j].needed) /\ ts[k].hint = HintAt(c, ts[k].needed)
  BY DEF LaidOut
<1>2. ts[j].needed \in Nat /\ ts[k].needed \in Nat
  BY TensorFields
<1> QED
  BY <1>1, <1>2 DEF HintAt

\* The stable sort by hint time leaves the tensors in the order they are in.
LEMMA HintOrderOf ==
  ASSUME NEW c, c.lead \in Nat, NEW ts, LaidOut(c, ts)
  PROVE  AsLaidOut(ts, HintOrder(ts))
<1> DEFINE S == OfHbf(ts)
           key == [k \in S |-> ts[k].hint]
           r == HintOrder(ts)
           n == Cardinality(S)
<1>1. Len(ts) \in Nat /\ S \in SUBSET (1 .. Len(ts))
  BY OfHbfIn
<1>2. IsFiniteSet(S) /\ S \in SUBSET Nat
  <2>1. IsFiniteSet(1 .. Len(ts))
    BY <1>1, FS_Interval
  <2>2. S \in SUBSET Nat
    BY <1>1
  <2> HIDE DEF S
  <2>3. IsFiniteSet(S)
    BY <1>1, <2>1, FS_Subset
  <2> QED
    BY <2>2, <2>3
<1>3. \A k \in S : key[k] = ts[k].hint /\ key[k] \in Int
  BY <1>1, TensorFields
<1>4. r = Ranked(S, key)
  BY DEF HintOrder
<1> HIDE DEF S, key
<1>5. /\ n \in Nat /\ r \in [1 .. n -> S]
      /\ \A i, j \in 1 .. n : i < j => Earlier(key, r[i], r[j])
      /\ \A k \in S : \E i \in 1 .. n : r[i] = k
  BY <1>2, <1>3, <1>4, RankedOf
<1> HIDE DEF r, n
<1>6. r \in Seq(S) /\ Len(r) = n
  BY <1>5
<1>7. ASSUME NEW i \in 1 .. n, NEW j \in 1 .. n, i < j PROVE r[i] < r[j]
  <2>1. r[i] \in 1 .. Len(ts) /\ r[j] \in 1 .. Len(ts) /\ r[i] \in S /\ r[j] \in S
    BY <1>1, <1>5
  <2>2. key[r[i]] = ts[r[i]].hint /\ key[r[j]] = ts[r[j]].hint
    BY <1>3, <2>1
  <2>3. Earlier(key, r[i], r[j])
    BY <1>5, <1>7
  <2>4. ts[r[i]].hint \in Nat /\ ts[r[j]].hint \in Nat
    BY <2>1, TensorFields
  <2>5. r[j] < r[i] => ts[r[j]].hint <= ts[r[i]].hint
    BY <2>1, HintsGrow
  <2> QED
    BY <1>1, <2>1, <2>2, <2>3, <2>4, <2>5 DEF Earlier
<1> QED
  BY <1>5, <1>6, <1>7 DEF AsLaidOut, S, r

-----------------------------------------------------------------------------
(* The invariant of the scheduler.                                          *)

\* The tensors the buffer queues at all.
Streamable == {k \in OfHbf(tensors) : cfg.buffer = "On" /\ tensors[k].size # 0}

\* What build_schedule() made, and where tick() and the buffer are in it.
SchedulerInv ==
  /\ ModelType(cfg) /\ ValidModel(cfg)
  /\ LaidOut(cfg, tensors)
  /\ AsLaidOut(tensors, order)
  /\ next \in 1 .. Len(order) + 1
  /\ issued = next - 1
  /\ queue \in Seq(Streamable)
  /\ now \in 0 .. cfg.horizon + cfg.cycle
  /\ passes \in 0 .. cfg.passes
  /\ caughtUp \in BOOLEAN

LEMMA InvFacts ==
  ASSUME SchedulerInv
  PROVE  /\ Len(order) \in Nat /\ DOMAIN order = 1 .. Len(order)
         /\ Len(tensors) \in Nat /\ DOMAIN tensors = 1 .. Len(tensors)
         /\ Len(queue) \in Nat /\ now \in Nat
         /\ cfg.lead \in Nat /\ cfg.maxHints \in Nat
         /\ \A i \in 1 .. Len(order) :
              order[i] \in OfHbf(tensors) /\ order[i] \in 1 .. Len(tensors)
         /\ \A i \in 1 .. Len(queue) :
              queue[i] \in Streamable /\ queue[i] \in 1 .. Len(tensors)
<1>1. order \in Seq(OfHbf(tensors)) /\ queue \in Seq(Streamable)
  BY DEF SchedulerInv, AsLaidOut
<1>2. /\ Len(tensors) \in Nat /\ DOMAIN tensors = 1 .. Len(tensors)
      /\ OfHbf(tensors) \in SUBSET (1 .. Len(tensors))
  BY OfHbfIn DEF SchedulerInv
<1>3. Streamable \in SUBSET OfHbf(tensors)
  BY DEF Streamable
<1>4. /\ Len(order) \in Nat /\ DOMAIN order = 1 .. Len(order) /\ Len(queue) \in Nat
      /\ \A i \in 1 .. Len(order) : order[i] \in OfHbf(tensors)
      /\ \A i \in 1 .. Len(queue) : queue[i] \in Streamable
  BY <1>1
<1>5. now \in Nat /\ cfg.lead \in Nat /\ cfg.maxHints \in Nat
  BY DEF SchedulerInv, ModelType
<1> QED
  BY <1>2, <1>3, <1>4, <1>5

LEMMA InitInv ==
  ASSUME Init, ModelType(cfg)
  PROVE  SchedulerInv
<1>1. ValidModel(cfg) /\ cfg.lead \in Nat
  BY DEF Init, ModelType
<1>2. LaidOut(cfg, tensors)
  BY <1>1, TensorsOf DEF Init
<1>3. AsLaidOut(tensors, order)
  BY <1>1, <1>2, HintOrderOf DEF Init
<1>4. Len(order) \in Nat
  BY <1>3 DEF AsLaidOut
<1>5. 1 \in 1 .. Len(order) + 1
  BY <1>4
<1>6. queue \in Seq(Streamable)
  BY DEF Init
<1>7. now \in 0 .. cfg.horizon + cfg.cycle /\ passes \in 0 .. cfg.passes
  <2>1. now = 0 /\ passes = 0
    BY DEF Init
  <2>2. cfg.horizon \in Nat /\ cfg.cycle \in Nat /\ cfg.passes \in Nat
    BY DEF ModelType
  <2> QED
    BY <2>1, <2>2
<1>8. next \in 1 .. Len(order) + 1 /\ issued = next - 1
  <2>1. next = 1 /\ issued = 0
    BY DEF Init
  <2> QED
    BY <1>5, <2>1
<1>9. caughtUp \in BOOLEAN
  BY Zenon DEF Init
<1> QED
  BY <1>1, <1>2, <1>3, <1>6, <1>7, <1>8, <1>9 DEF SchedulerInv

-----------------------------------------------------------------------------
(* tick()                                                                   *)

\* The loop ends at the first hint that is not due or is throttled.
LEMMA StopOf ==
  ASSUME SchedulerInv, NEW t
  PROVE  /\ Stop(t) \in next .. Len(order) + 1
         /\ Stop(t) = Len(order) + 1 \/ ~Due(Stop(t), t) \/ Throttled(Stop(t))
         /\ \A j \in next .. Stop(t) - 1 : Due(j, t) /\ ~Throttled(j)
<1> DEFINE I == next .. Len(order) + 1
           Ends(k) == k = Len(order) + 1 \/ ~Due(k, t) \/ Throttled(k)
           T == {k \in I : Ends(k)}
<1>1. next \in Nat /\ Len(order) \in Nat /\ Len(order) + 1 \in I /\ I \in SUBSET Nat
  BY InvFacts DEF SchedulerInv
<1>2. T \in SUBSET Nat /\ T # {}
  BY <1>1
<1>3. PICK k \in T : \A m \in T : k <= m
  <2> HIDE DEF T
  <2> QED
    BY <1>2, LeastNumber
<1>4. \A j \in next .. k - 1 : Due(j, t) /\ ~Throttled(j)
  <2> SUFFICES ASSUME NEW j \in next .. k - 1 PROVE ~ Ends(j)
    OBVIOUS
  <2>1. j \in I /\ ~ (k <= j)
    BY <1>1, <1>3
  <2> HIDE DEF Ends
  <2> QED
    BY <1>3, <2>1
<1> DEFINE P(m) == Ends(m) /\ \A j \in next .. m - 1 : Due(j, t) /\ ~Throttled(j)
<1>5. Stop(t) = CHOOSE m \in I : P(m)
  BY DEF Stop
<1>6. k \in I /\ P(k)
  BY <1>3, <1>4
<1> HIDE DEF P
<1>7. Stop(t) \in I /\ P(Stop(t))
  BY <1>5, <1>6
<1> QED
  BY <1>7 DEF P

\* The places in the order of what the buffer takes up to a place.
TakenPlaces(to) == {k \in next .. to - 1 : Queued(k)}

HintPlaces(to) == Ranked(TakenPlaces(to), [k \in TakenPlaces(to) |-> 0])

\* The buffer is handed the tensors at those places, in order.
LEMMA HintsOf ==
  ASSUME SchedulerInv, NEW to \in next .. Len(order) + 1
  PROVE  /\ Hints(next, to) \in Seq(Streamable)
         /\ Len(Hints(next, to)) = Cardinality(TakenPlaces(to))
         /\ \A i \in 1 .. Len(Hints(next, to)) :
              /\ HintPlaces(to)[i] \in TakenPlaces(to)
              /\ Hints(next, to)[i] = order[HintPlaces(to)[i]]
         /\ \A i, j \in 1 .. Len(Hints(next, to)) :
              i < j => HintPlaces(to)[i] < HintPlaces(to)[j]
         /\ \A k \in TakenPlaces(to) :
              \E i \in 1 .. Len(Hints(next, to)) : HintPlaces(to)[i] = k
<1> DEFINE S == TakenPlaces(to)
           key == [k \in S |-> 0]
           r == HintPlaces(to)
           n == Cardinality(S)
           h == Hints(next, to)
<1>1. next \in Nat /\ next # 0 /\ Len(order) \in Nat
  BY InvFacts DEF SchedulerInv
<1>2. S \in SUBSET (next .. to - 1) /\ S \in SUBSET (1 .. Len(order))
  BY <1>1 DEF TakenPlaces
<1>3. IsFiniteSet(S) /\ S \in SUBSET Nat
  <2>1. IsFiniteSet(1 .. Len(order))
    BY <1>1, FS_Interval
  <2>2. S \in SUBSET Nat
    BY <1>2
  <2> HIDE DEF S
  <2> QED
    BY <1>2, <2>1, <2>2, FS_Subset
<1>4. \A k \in S : key[k] = 0 /\ key[k] \in Int
  OBVIOUS
<1>5. r = Ranked(S, key)
  BY DEF HintPlaces
<1>6. h = [i \in DOMAIN r |-> order[r[i]]]
  BY DEF Hints, HintPlaces, TakenPlaces
<1>7. \A k \in S : order[k] \in Streamable
  BY <1>2, InvFacts DEF TakenPlaces, Queued, Streamable
<1> HIDE DEF S, key, r, h
<1>8. /\ n \in Nat /\ r \in [1 .. n -> S]
      /\ \A i, j \in 1 .. n : i < j => Earlier(key, r[i], r[j])
      /\ \A k \in S : \E i \in 1 .. n : r[i] = k
  BY <1>3, <1>4, <1>5, RankedOf
<1> HIDE DEF n
<1>9. h \in [1 .. n -> Streamable]
  BY <1>6, <1>7, <1>8
<1>10. h \in Seq(Streamable) /\ Len(h) = n
  BY <1>8, <1>9
<1>11. \A i \in 1 .. n : r[i] \in S /\ h[i] = order[r[i]]
  BY <1>6, <1>8
<1>12. ASSUME NEW i \in 1 .. n, NEW j \in 1 .. n, i < j PROVE r[i] < r[j]
  <2>1. r[i] \in S /\ r[j] \in S /\ Earlier(key, r[i], r[j])
    BY <1>8, <1>12
  <2> QED
    BY <1>4, <2>1 DEF Earlier
<1> QED
  BY <1>8, <1>10, <1>11, <1>12 DEF S, n, r, h

LEMMA TickInv ==
  ASSUME SchedulerInv, NEW t \in 0 .. cfg.horizon + cfg.cycle, Tick(t)
  PROVE  SchedulerInv'
<1> DEFINE stop == Stop(t)
<1>1. stop \in next .. Len(order) + 1
  BY StopOf
<1>2. /\ now' = t /\ next' = stop /\ issued' = issued + (stop - next)
      /\ queue' = queue \o Hints(next, stop)
      /\ cfg' = cfg /\ tensors' = tensors /\ order' = order /\ passes' = passes
  BY DEF Tick
<1>3. caughtUp' \in BOOLEAN
  BY Zenon DEF Tick
<1>4. Hints(next, stop) \in Seq(Streamable)
  BY <1>1, HintsOf
<1>5. next \in Nat /\ next # 0 /\ Len(order) \in Nat /\ issued = next - 1
  BY InvFacts DEF SchedulerInv
<1> HIDE DEF stop
<1>6. next' \in 1 .. Len(order) + 1 /\ issued' = next' - 1
  BY <1>1, <1>2, <1>5
<1>7. queue' \in Seq(Streamable)
  BY <1>2, <1>4 DEF SchedulerInv
<1>8. Streamable' = Streamable
  BY <1>2 DEF Streamable
<1> QED
  BY <1>2, <1>3, <1>6, <1>7, <1>8 DEF SchedulerInv

\* Every step of the scheduler keeps the invariant.
LEMMA NextInv ==
  ASSUME SchedulerInv, [Next]_vars
  PROVE  SchedulerInv'
<1>1. CASE Cycle
  <2> DEFINE t == IF now < cfg.horizon THEN now + cfg.cycle ELSE now
  <2>1. /\ now \in 0 .. cfg.horizon + cfg.cycle
        /\ cfg.horizon \in Nat /\ cfg.cycle \in Nat
    BY DEF SchedulerInv, ModelType
  <2>2. t \in 0 .. cfg.horizon + cfg.cycle
    BY <2>1
  <2>3. Tick(t)
    BY <1>1 DEF Cycle
  <2> QED
    BY <2>2, <2>3, TickInv
<1>2. CASE Rewind
  <2>1. /\ cfg' = cfg /\ tensors' = tensors /\ order' = order /\ queue' = queue
        /\ now' = now /\ next' = 1 /\ issued' = 0 /\ passes' = passes + 1
        /\ passes < cfg.passes
    BY <1>2 DEF Rewind
  <2>2. caughtUp' \in BOOLEAN
    BY <1>2, Zenon DEF Rewind
  <2>3. Len(order) \in Nat
    BY InvFacts
  <2>4. next' \in 1 .. Len(order) + 1 /\ issued' = next' - 1
    BY <2>1, <2>3
  <2>5. passes' \in 0 .. cfg.passes
    BY <2>1 DEF SchedulerInv, ModelType
  <2>6. Streamable' = Streamable
    BY <2>1 DEF Streamable
  <2> QED
    BY <2>1, <2>2, <2>4, <2>5, <2>6 DEF SchedulerInv
<1>3. CASE BufferTakes
  <2>1. /\ cfg' = cfg /\ tensors' = tensors /\ order' = order /\ queue' = Tail(queue)
        /\ now' = now /\ next' = next /\ issued' = issued /\ passes' = passes
        /\ caughtUp' = caughtUp /\ queue # <<>>
    BY <1>3 DEF BufferTakes
  <2>2. Tail(queue) \in Seq(Streamable)
    BY <2>1 DEF SchedulerInv
  <2>3. Streamable' = Streamable
    BY <2>1 DEF Streamable
  <2> QED
    BY <2>1, <2>2, <2>3 DEF SchedulerInv
<1>4. CASE UNCHANGED vars
  <2>1. Streamable' = Streamable
    BY <1>4 DEF vars, Streamable
  <2> QED
    BY <1>4, <2>1 DEF vars, SchedulerInv
<1> QED
  BY <1>1, <1>2, <1>3, <1>4 DEF Next

\* The invariant holds more than the types.
LEMMA InvTypes ==
  ASSUME SchedulerInv
  PROVE  TypeOK
<1>1. queue \in Seq(DOMAIN tensors)
  <2>1. queue \in Seq(Streamable) /\ Streamable \in SUBSET DOMAIN tensors
    BY DEF SchedulerInv, Streamable, OfHbf
  <2> QED
    BY <2>1
<1> QED
  BY <1>1 DEF SchedulerInv, TypeOK

-----------------------------------------------------------------------------
(* The throttle.                                                            *)

\* The last hint the loop issued was not throttled: what it found queued, with
\* what the loop itself added before, was less than the limit.
LEMMA LoopWithinThrottle ==
  ASSUME SchedulerInv, WithinThrottle, NEW t, Tick(t)
  PROVE  WithinThrottle'
<1> DEFINE stop == Stop(t)
           S == TakenPlaces(stop)
           h == Hints(next, stop)
           n == Cardinality(S)
           q == Len(queue)
<1>1. stop \in next .. Len(order) + 1 /\ \A j \in next .. stop - 1 : ~Throttled(j)
  BY StopOf
<1>2. /\ h \in Seq(Streamable) /\ Len(h) = n
      /\ \A i \in 1 .. n : HintPlaces(stop)[i] \in S
      /\ \A i, j \in 1 .. n : i < j => HintPlaces(stop)[i] < HintPlaces(stop)[j]
      /\ \A k \in S : \E i \in 1 .. n : HintPlaces(stop)[i] = k
  BY <1>1, HintsOf
<1>3. /\ q \in Nat /\ n \in Nat /\ next \in Nat /\ Len(order) \in Nat
      /\ cfg.maxHints \in Nat /\ queue \in Seq(Streamable)
  BY <1>2, InvFacts DEF SchedulerInv
<1>4. queue' = queue \o h /\ cfg' = cfg
  BY DEF Tick
<1>5. Len(queue') = q + n
  <2> HIDE DEF h, n
  <2>1. Len(queue \o h) = Len(queue) + Len(h)
    BY <1>2, <1>3, ConcatProperties, Zenon
  <2> QED
    BY <1>2, <1>4, <2>1
<1>6. ASSUME n # 0 PROVE q + n <= cfg.maxHints
  <2> DEFINE m == HintPlaces(stop)[n]
             B == {j \in next .. m - 1 : Queued(j)}
             b == Cardinality(B)
  <2>1. n \in 1 .. n
    BY <1>3, <1>6
  <2>2. m \in S
    BY <1>2, <2>1
  <2>3. m \in next .. stop - 1 /\ Queued(m)
    BY <2>2 DEF TakenPlaces
  <2>4. ~ (q + b >= cfg.maxHints)
    <3>1. cfg.buffer # "None"
      BY <2>3 DEF Queued
    <3> QED
      BY <1>1, <2>3, <3>1, Zenon DEF Throttled
  <2>5. ASSUME NEW k \in S, k # m PROVE k \in B
    <3>1. PICK i \in 1 .. n : HintPlaces(stop)[i] = k
      BY <1>2
    <3>2. i < n
      BY <1>3, <2>5, <3>1
    <3>3. k < m
      BY <1>2, <2>1, <3>1, <3>2
    <3>4. k \in next .. stop - 1 /\ Queued(k)
      BY DEF TakenPlaces
    <3> QED
      BY <1>3, <2>3, <3>3, <3>4
  <2>6. ASSUME NEW k \in B PROVE k \in S
    BY <1>1, <1>3, <2>3 DEF TakenPlaces
  <2>7. m \notin B
    BY <1>3, <2>3
  <2>8. IsFiniteSet(B)
    <3>1. B \in SUBSET (next .. m - 1)
      OBVIOUS
    <3>2. next \in Int /\ m - 1 \in Int
      BY <1>3, <2>3
    <3> HIDE DEF B, m
    <3>3. IsFiniteSet(next .. m - 1)
      BY <3>2, FS_Interval
    <3> QED
      BY <3>1, <3>3, FS_Subset
  <2> HIDE DEF B, m
  <2>9. S = B \cup {m}
    BY <2>2, <2>5, <2>6
  <2>10. n = b + 1 /\ b \in Nat
    <3>1. Cardinality(B \cup {m}) = Cardinality(B) + 1
      BY <2>7, <2>8, FS_AddElement
    <3> HIDE DEF S
    <3> QED
      BY <2>8, <2>9, <3>1, FS_CardinalityType
  <2> HIDE DEF n, b, q
  <2> QED
    BY <1>3, <2>4, <2>10
<1>7. q <= cfg.maxHints
  BY DEF WithinThrottle
<1> HIDE DEF q, n
<1>8. Len(queue') <= cfg.maxHints
  BY <1>3, <1>5, <1>6, <1>7
<1> QED
  BY <1>4, <1>8 DEF WithinThrottle

LEMMA ThrottleNext ==
  ASSUME SchedulerInv, WithinThrottle, [Next]_vars
  PROVE  WithinThrottle'
<1>1. CASE Cycle
  BY <1>1, LoopWithinThrottle DEF Cycle
<1>2. CASE Rewind \/ UNCHANGED vars
  <2>1. queue' = queue /\ cfg' = cfg
    BY <1>2 DEF Rewind, vars
  <2> QED
    BY <2>1 DEF WithinThrottle
<1>3. CASE BufferTakes
  <2>1. queue' = Tail(queue) /\ cfg' = cfg /\ queue # <<>> /\ queue \in Seq(Streamable)
    BY <1>3 DEF BufferTakes, SchedulerInv
  <2>2. Len(queue') <= Len(queue) /\ Len(queue') \in Nat /\ Len(queue) \in Nat
    BY <2>1
  <2>3. cfg.maxHints \in Nat
    BY InvFacts
  <2> QED
    BY <2>1, <2>2, <2>3 DEF WithinThrottle
<1> QED
  BY <1>1, <1>2, <1>3 DEF Next

-----------------------------------------------------------------------------
(* The lead.                                                                *)

\* The hints that are out are due, and after a tick that came to its end those
\* that are due are out.
DueIsOut ==
  /\ \A j \in 1 .. next - 1 : Due(j, now)
  /\ caughtUp => \A j \in next .. Len(order) : ~Due(j, now)

\* Hints become due in their order.
LEMMA DueInOrder ==
  ASSUME SchedulerInv, NEW j \in 1 .. Len(order), NEW k \in 1 .. Len(order), j <= k,
         NEW t \in Nat, Due(k, t)
  PROVE  Due(j, t)
<1>1. CASE j = k
  BY <1>1
<1>2. CASE j # k
  <2>1. j < k
    BY <1>2, InvFacts
  <2>2. order[j] \in 1 .. Len(tensors) /\ order[k] \in 1 .. Len(tensors)
        /\ order[j] < order[k]
    BY <2>1, InvFacts DEF SchedulerInv, AsLaidOut
  <2>3. tensors[order[j]].hint <= tensors[order[k]].hint
    BY <2>2, HintsGrow, InvFacts DEF SchedulerInv
  <2>4. tensors[order[j]].hint \in Nat /\ tensors[order[k]].hint \in Nat
    BY <2>2, TensorFields DEF SchedulerInv
  <2> QED
    BY <2>3, <2>4 DEF Due
<1> QED
  BY <1>1, <1>2

LEMMA DueNext ==
  ASSUME SchedulerInv, DueIsOut, [Next]_vars
  PROVE  DueIsOut'
<1>1. CASE Cycle
  <2> DEFINE t == IF now < cfg.horizon THEN now + cfg.cycle ELSE now
             stop == Stop(t)
  <2>1. /\ now' = t /\ next' = stop /\ order' = order /\ tensors' = tensors
    BY <1>1 DEF Cycle, Tick
  <2>2. caughtUp' => stop = Len(order) + 1 \/ ~Due(stop, t)
    BY <1>1, Zenon DEF Cycle, Tick
  <2>3. now \in Nat /\ t \in Nat /\ now <= t
    <3>1. now \in Nat /\ cfg.cycle \in Nat
      BY InvFacts DEF SchedulerInv, ModelType
    <3> QED
      BY <3>1
  <2>4. /\ stop \in next .. Len(order) + 1
        /\ \A j \in next .. stop - 1 : Due(j, t)
    BY StopOf
  <2>5. next \in Nat /\ next # 0 /\ Len(order) \in Nat
    BY InvFacts DEF SchedulerInv
  <2> HIDE DEF t, stop
  <2>6. ASSUME NEW j \in 1 .. stop - 1 PROVE Due(j, t)
    <3>1. CASE j \in next .. stop - 1
      BY <2>4, <3>1
    <3>2. CASE j \in 1 .. next - 1
      <4>1. Due(j, now) /\ j \in 1 .. Len(order)
        BY <3>2, <2>4, <2>5 DEF DueIsOut, SchedulerInv
      <4>2. tensors[order[j]].hint \in Nat
        BY <4>1, InvFacts, TensorFields DEF SchedulerInv
      <4> QED
        BY <2>3, <4>1, <4>2 DEF Due
    <3> QED
      BY <3>1, <3>2, <2>4, <2>5
  <2>7. ASSUME caughtUp', NEW j \in stop .. Len(order) PROVE ~Due(j, t)
    <3>1. stop \in 1 .. Len(order) /\ j \in 1 .. Len(order) /\ stop <= j
      BY <2>4, <2>5
    <3>2. ~Due(stop, t)
      BY <2>5, <2>7, <2>2, <3>1
    <3> QED
      BY <2>3, <3>1, <3>2, DueInOrder
  <2>8. \A j : Due(j, now)' <=> Due(j, t)
    BY <2>1 DEF Due
  <2> QED
    BY <2>1, <2>6, <2>7, <2>8 DEF DueIsOut
<1>2. CASE Rewind
  <2>1. next' = 1 /\ caughtUp' = FALSE
    BY <1>2 DEF Rewind
  <2> QED
    BY <2>1 DEF DueIsOut
<1>3. CASE BufferTakes \/ UNCHANGED vars
  <2>1. /\ next' = next /\ caughtUp' = caughtUp /\ now' = now /\ order' = order
        /\ tensors' = tensors
    BY <1>3 DEF BufferTakes, vars
  <2> QED
    BY <2>1 DEF DueIsOut, Due
<1> QED
  BY <1>1, <1>2, <1>3 DEF Next

\* A tensor is due when it is needed within the lead.
LEMMA DueMeansNear ==
  ASSUME SchedulerInv, DueIsOut
  PROVE  HintedALeadAhead
<1> DEFINE out == {order[j] : j \in 1 .. next - 1}
           near == {k \in DOMAIN tensors : /\ tensors[k].region = "Hbf"
                                           /\ tensors[k].needed <= now + cfg.lead}
<1>1. ASSUME NEW k \in 1 .. Len(tensors)
      PROVE  tensors[k].hint <= now <=> tensors[k].needed <= now + cfg.lead
  <2>1. tensors[k].hint = HintAt(cfg, tensors[k].needed) /\ tensors[k].needed \in Nat
    BY TensorFields DEF SchedulerInv, LaidOut
  <2>2. now \in Nat /\ cfg.lead \in Nat
    BY InvFacts
  <2> QED
    BY <2>1, <2>2 DEF HintAt
<1>2. next \in 1 .. Len(order) + 1 /\ Len(order) \in Nat
  BY InvFacts DEF SchedulerInv
<1>3. ASSUME NEW j \in 1 .. next - 1 PROVE order[j] \in near
  <2>1. j \in 1 .. Len(order) /\ Due(j, now)
    BY <1>2 DEF DueIsOut
  <2>2. order[j] \in OfHbf(tensors) /\ order[j] \in 1 .. Len(tensors)
    BY <2>1, InvFacts
  <2> QED
    BY <1>1, <2>1, <2>2 DEF Due, OfHbf
<1>4. ASSUME caughtUp, NEW k \in near PROVE k \in out
  <2>1. k \in 1 .. Len(tensors) /\ k \in OfHbf(tensors) /\ tensors[k].hint <= now
    BY <1>1, InvFacts DEF OfHbf
  <2>2. PICK j \in 1 .. Len(order) : order[j] = k
    BY <2>1 DEF SchedulerInv, AsLaidOut
  <2>3. j \notin next .. Len(order)
    BY <1>4, <2>1, <2>2 DEF DueIsOut, Due
  <2>4. j \in 1 .. next - 1
    BY <1>2, <2>3
  <2> QED
    BY <2>2, <2>4
<1> QED
  BY <1>3, <1>4 DEF HintedALeadAhead

-----------------------------------------------------------------------------
(* The order of the stream.                                                 *)

Follows(ts, j, k) ==
  /\ ts[j].local < ts[k].local
  /\ \A i \in j + 1 .. k - 1 : ts[i].size = 0

\* Where the queue does not go on with the next tensor.
Breaks(ts, q) == {i \in 1 .. Len(q) - 1 : ~Follows(ts, q[i], q[i + 1])}

\* Will the next hint go on where the queue ends?
Smooth ==
  queue # <<>> /\ next <= Len(order) =>
    /\ queue[Len(queue)] < order[next]
    /\ \A i \in queue[Len(queue)] + 1 .. order[next] - 1 : tensors[i].size = 0

\* Each break was made by a rewind, and so will be the one to come, if any.
BreaksByRewinds ==
  /\ Cardinality(Breaks(tensors, queue)) <= passes
  /\ ~Smooth => Cardinality(Breaks(tensors, queue)) + 1 <= passes

LEMMA BreaksFinite ==
  ASSUME NEW ts, NEW q, Len(q) \in Nat
  PROVE  /\ IsFiniteSet(Breaks(ts, q)) /\ Cardinality(Breaks(ts, q)) \in Nat
         /\ Breaks(ts, q) \in SUBSET (1 .. Len(q) - 1)
<1>1. Breaks(ts, q) \in SUBSET (1 .. Len(q) - 1)
  BY DEF Breaks
<1>2. IsFiniteSet(1 .. Len(q) - 1)
  BY FS_Interval
<1> QED
  BY <1>1, <1>2, FS_Subset, FS_CardinalityType

\* Up to a place in the order, the tensors behind another one are empty if
\* those of HBF are.
LEMMA EmptyBetween ==
  ASSUME SchedulerInv, NEW u \in Nat, NEW b \in 1 .. Len(order),
         \A p \in 1 .. Len(order) :
           p < b /\ u < order[p] => tensors[order[p]].size = 0
  PROVE  \A i \in u + 1 .. order[b] - 1 : tensors[i].size = 0
<1> SUFFICES ASSUME NEW i \in u + 1 .. order[b] - 1 PROVE tensors[i].size = 0
  OBVIOUS
<1>1. /\ Len(order) \in Nat /\ Len(tensors) \in Nat
      /\ order[b] \in OfHbf(tensors) /\ order[b] \in 1 .. Len(tensors)
      /\ LaidOut(cfg, tensors) /\ AsLaidOut(tensors, order)
  BY InvFacts DEF SchedulerInv
<1>2. i \in 1 .. Len(tensors) /\ i < order[b] /\ u < i
  BY <1>1
<1>3. tensors[i].region = "Hbf"
  BY <1>1, <1>2 DEF LaidOut, OfHbf
<1>4. i \in OfHbf(tensors)
  BY <1>2, <1>3, InvFacts DEF OfHbf
<1>5. PICK p \in 1 .. Len(order) : order[p] = i
  BY <1>1, <1>4 DEF AsLaidOut
<1>6. p < b
  <2>1. ~ (b < p)
    <3>1. b < p => order[b] < order[p]
      BY <1>1 DEF AsLaidOut
    <3> QED
      BY <1>1, <1>2, <1>5, <3>1
  <2>2. b # p
    BY <1>1, <1>2, <1>5
  <2> QED
    BY <1>1, <2>1, <2>2
<1> QED
  BY <1>2, <1>5, <1>6

\* A tensor with bytes in it and the next such one follow one another.
LEMMA FollowsWhen ==
  ASSUME SchedulerInv, NEW j \in Streamable, NEW k \in Streamable, j < k,
         \A i \in j + 1 .. k - 1 : tensors[i].size = 0
  PROVE  Follows(tensors, j, k)
<1>1. j \in 1 .. Len(tensors) /\ k \in 1 .. Len(tensors) /\ LaidOut(cfg, tensors)
  BY OfHbfIn DEF SchedulerInv, Streamable
<1>2. tensors[j].region = "Hbf" /\ tensors[k].region = "Hbf" /\ tensors[j].size # 0
  BY DEF Streamable, OfHbf
<1>3. tensors[j].local + tensors[j].size <= tensors[k].local
  BY <1>1, <1>2 DEF LaidOut
<1>4. tensors[j].local \in Nat /\ tensors[j].size \in Nat /\ tensors[k].local \in Nat
  BY <1>1, TensorFields
<1>5. tensors[j].local < tensors[k].local
  BY <1>2, <1>3, <1>4
<1> QED
  BY <1>5 DEF Follows

LEMMA OrderGrows ==
  ASSUME SchedulerInv, NEW p \in 1 .. Len(order), NEW q \in 1 .. Len(order)
  PROVE  /\ order[p] \in Nat
         /\ order[p] < order[q] <=> p < q
         /\ order[p] <= order[q] <=> p <= q
<1>1. /\ Len(order) \in Nat /\ Len(tensors) \in Nat
      /\ order[p] \in 1 .. Len(tensors) /\ order[q] \in 1 .. Len(tensors)
  BY InvFacts
<1>2. (p < q => order[p] < order[q]) /\ (q < p => order[q] < order[p])
  BY DEF SchedulerInv, AsLaidOut
<1>3. p = q => order[p] = order[q]
  OBVIOUS
<1> QED
  BY <1>1, <1>2, <1>3

\* What the loop passed over without handing it to the buffer is empty, when
\* the buffer takes hints at all.
LEMMA PassedOver ==
  ASSUME SchedulerInv, NEW to \in next .. Len(order) + 1, NEW p \in next .. to - 1,
         p \notin TakenPlaces(to), cfg.buffer = "On"
  PROVE  tensors[order[p]].size = 0
BY DEF TakenPlaces, Queued

\* The hints of one tick follow one another.
LEMMA TickFollows ==
  ASSUME SchedulerInv, NEW to \in next .. Len(order) + 1,
         NEW i \in 1 .. Len(Hints(next, to)) - 1
  PROVE  Follows(tensors, Hints(next, to)[i], Hints(next, to)[i + 1])
<1> DEFINE h == Hints(next, to)
           S == TakenPlaces(to)
           r == HintPlaces(to)
           n == Len(h)
           a == r[i]
           b == r[i + 1]
<1>1. /\ h \in Seq(Streamable)
      /\ \A m \in 1 .. n : r[m] \in S /\ h[m] = order[r[m]]
      /\ \A l, m \in 1 .. n : l < m => r[l] < r[m]
      /\ \A k \in S : \E m \in 1 .. n : r[m] = k
  BY HintsOf
<1>2. n \in Nat /\ next \in Nat /\ next # 0 /\ Len(order) \in Nat
  BY <1>1, InvFacts DEF SchedulerInv
<1>3. i \in 1 .. n /\ i + 1 \in 1 .. n /\ i < i + 1
  BY <1>2
<1>4. S \in SUBSET (next .. to - 1) /\ S \in SUBSET (1 .. Len(order))
  BY <1>2 DEF TakenPlaces
<1> HIDE DEF h, S, r, n
<1>5. a \in S /\ b \in S /\ a < b /\ h[i] = order[a] /\ h[i + 1] = order[b]
  BY <1>1, <1>3
<1>6. h[i] \in Streamable /\ h[i + 1] \in Streamable
  BY <1>1, <1>3, ElementOfSeq DEF n
<1>7. a \in 1 .. Len(order) /\ b \in 1 .. Len(order)
      /\ a \in next .. to - 1 /\ b \in next .. to - 1
  BY <1>4, <1>5
<1>8. order[a] < order[b] /\ order[a] \in Nat
  BY <1>5, <1>7, OrderGrows
<1>9. ASSUME NEW p \in 1 .. Len(order), p < b, order[a] < order[p]
      PROVE  tensors[order[p]].size = 0
  <2>1. a < p
    BY <1>7, <1>9, OrderGrows
  <2>2. p \in next .. to - 1
    BY <1>2, <1>7, <1>9, <2>1
  <2>3. p \notin S
    <3> SUFFICES ASSUME p \in S PROVE FALSE
      OBVIOUS
    <3>1. PICK m \in 1 .. n : r[m] = p
      BY <1>1
    <3>2. ~ (m < i) /\ m # i /\ ~ (i + 1 < m) /\ m # i + 1
      <4>1. (m < i => r[m] < a) /\ (i + 1 < m => b < r[m])
        BY <1>1, <1>3
      <4>2. a \in Nat /\ b \in Nat /\ p \in Nat
        BY <1>2, <1>7
      <4> QED
        BY <1>9, <2>1, <3>1, <4>1, <4>2
    <3> QED
      BY <1>2, <1>3, <3>2
  <2>4. cfg.buffer = "On"
    BY <1>6 DEF Streamable
  <2> QED
    BY <2>2, <2>3, <2>4, PassedOver DEF S
<1> HIDE DEF a, b
<1>10. \A k \in order[a] + 1 .. order[b] - 1 : tensors[k].size = 0
  BY <1>7, <1>8, <1>9, EmptyBetween
<1> QED
  BY <1>5, <1>6, <1>8, <1>10, FollowsWhen DEF h

\* After a tick that hands the buffer anything, the next hint goes on where
\* the queue ends; after one that does not, it still does if it did.
LEMMA TickSmooth ==
  ASSUME SchedulerInv, NEW t, Tick(t),
         Smooth \/ TakenPlaces(Stop(t)) # {}
  PROVE  Smooth'
<1> DEFINE to == Stop(t)
           h == Hints(next, to)
           S == TakenPlaces(to)
           r == HintPlaces(to)
           n == Len(h)
           last == queue'[Len(queue')]
<1>1. to \in next .. Len(order) + 1
  BY StopOf
<1>2. /\ queue' = queue \o h /\ next' = to
      /\ order' = order /\ tensors' = tensors
  BY DEF Tick
<1>3. SUFFICES ASSUME queue' # <<>>, to <= Len(order)
               PROVE  /\ last < order[to]
                      /\ \A i \in last + 1 .. order[to] - 1 : tensors[i].size = 0
  BY <1>2 DEF Smooth
<1>4. /\ h \in Seq(Streamable) /\ n = Cardinality(S)
      /\ \A m \in 1 .. n : r[m] \in S /\ h[m] = order[r[m]]
      /\ \A l, m \in 1 .. n : l < m => r[l] < r[m]
      /\ \A k \in S : \E m \in 1 .. n : r[m] = k
  BY <1>1, HintsOf
<1>5. n \in Nat /\ next \in Nat /\ next # 0 /\ Len(order) \in Nat
      /\ queue \in Seq(Streamable) /\ Len(queue) \in Nat
  BY <1>4, InvFacts DEF SchedulerInv
<1>6. S \in SUBSET (next .. to - 1)
  BY DEF TakenPlaces
<1>7. to \in 1 .. Len(order)
  BY <1>1, <1>3, <1>5
<1>8. /\ queue' \in Seq(Streamable) /\ Len(queue') = Len(queue) + n
      /\ \A i \in 1 .. Len(queue) + n :
           queue'[i] = IF i <= Len(queue) THEN queue[i] ELSE h[i - Len(queue)]
  <2>1. h \in Seq(Streamable) /\ queue \in Seq(Streamable) /\ Len(h) = n
    BY <1>4, <1>5
  <2>2. queue' = queue \o h
    BY <1>2
  <2> HIDE DEF h, n
  <2> QED
    BY <2>1, <2>2, ConcatProperties, Zenon
<1> HIDE DEF to, h, S, r, n
<1>9. cfg.buffer = "On"
  <2>1. Len(queue') \in 1 .. Len(queue')
    BY <1>3, <1>5, <1>8
  <2>2. queue'[Len(queue')] \in Streamable
    BY <1>8, <2>1, ElementOfSeq
  <2> QED
    BY <2>2 DEF Streamable
<1>10. CASE n # 0
  <2> DEFINE b == r[n]
  <2>1. n \in 1 .. n /\ Len(queue) + n \in 1 .. Len(queue) + n
        /\ ~ (Len(queue) + n <= Len(queue)) /\ (Len(queue) + n) - Len(queue) = n
    BY <1>5, <1>10
  <2>2. last = h[n]
    BY <1>8, <2>1
  <2>3. b \in S /\ h[n] = order[b]
    BY <1>4, <2>1
  <2>4. b \in 1 .. Len(order) /\ b \in next .. to - 1 /\ b < to
    <3>1. b \in next .. to - 1
      BY <1>6, <2>3
    <3> HIDE DEF b
    <3> QED
      BY <1>5, <1>7, <3>1
  <2>5. order[b] < order[to] /\ order[b] \in Nat
    BY <1>7, <2>4, OrderGrows
  <2>6. ASSUME NEW p \in 1 .. Len(order), p < to, order[b] < order[p]
        PROVE  tensors[order[p]].size = 0
    <3>1. b < p
      BY <2>4, <2>6, OrderGrows
    <3>2. p \in next .. to - 1
      BY <1>5, <1>7, <2>4, <2>6, <3>1
    <3>3. p \notin S
      <4> SUFFICES ASSUME p \in S PROVE FALSE
        OBVIOUS
      <4>1. PICK m \in 1 .. n : r[m] = p
        BY <1>4
      <4>2. m < n => r[m] < b
        BY <1>4, <2>1
      <4> QED
        BY <1>5, <2>4, <3>1, <4>1, <4>2
    <3> QED
      BY <1>1, <1>9, <3>2, <3>3, PassedOver DEF S
  <2> HIDE DEF b
  <2>7. \A i \in order[b] + 1 .. order[to] - 1 : tensors[i].size = 0
    BY <1>7, <2>5, <2>6, EmptyBetween
  <2> QED
    BY <2>2, <2>3, <2>5, <2>7
<1>11. CASE n = 0
  <2>1. Len(queue) # 0 /\ Len(queue') = Len(queue)
    BY <1>3, <1>5, <1>8, <1>11
  <2>2. last = queue[Len(queue)] /\ last \in Streamable /\ queue # <<>>
    <3>1. Len(queue) \in 1 .. Len(queue) + n /\ Len(queue) \in 1 .. Len(queue)
          /\ Len(queue) <= Len(queue)
      BY <1>5, <1>11, <2>1
    <3>2. last = queue[Len(queue)]
      BY <1>8, <2>1, <3>1
    <3> QED
      BY <1>5, <2>1, <3>1, <3>2, ElementOfSeq
  <2>3. S = {}
    <3>1. IsFiniteSet(S)
      <4>1. IsFiniteSet(next .. to - 1)
        BY <1>5, <1>7, FS_Interval
      <4> QED
        BY <1>6, <4>1, FS_Subset
    <3> QED
      BY <1>4, <1>11, <3>1, FS_EmptySet
  <2>4. next \in 1 .. Len(order) /\ next <= to
    BY <1>1, <1>5, <1>7
  <2>5. /\ last < order[next]
        /\ \A i \in last + 1 .. order[next] - 1 : tensors[i].size = 0
    BY <2>2, <2>3, <2>4 DEF Smooth, S, to
  <2>6. last \in Nat /\ order[next] <= order[to] /\ order[next] \in Nat
        /\ order[to] \in Nat
    <3>1. last \in Nat
      BY <2>2, OfHbfIn DEF Streamable, SchedulerInv
    <3> QED
      BY <1>7, <2>4, <3>1, OrderGrows
  <2> HIDE DEF last
  <2>7. ASSUME NEW p \in 1 .. Len(order), p < to, last < order[p]
        PROVE  tensors[order[p]].size = 0
    <3>1. order[p] \in Nat /\ (p < next => order[p] < order[next])
      BY <2>4, OrderGrows
    <3>2. CASE p < next
      <4>1. order[p] \in last + 1 .. order[next] - 1
        BY <2>6, <2>7, <3>1, <3>2
      <4> QED
        BY <2>5, <4>1
    <3>3. CASE ~ (p < next)
      <4>1. p \in next .. to - 1
        BY <1>5, <1>7, <2>7, <3>3
      <4> QED
        BY <1>1, <1>9, <2>3, <4>1, PassedOver DEF S
    <3> QED
      BY <3>2, <3>3
  <2>8. \A i \in last + 1 .. order[to] - 1 : tensors[i].size = 0
    BY <1>7, <2>6, <2>7, EmptyBetween
  <2>9. last < order[to]
    BY <2>5, <2>6
  <2> QED
    BY <2>8, <2>9
<1> QED
  BY <1>10, <1>11

\* A tick breaks the stream at most where its hints are appended, and there
\* only if the next hint was not to go on where the queue ended.
LEMMA TickBreaks ==
  ASSUME SchedulerInv, NEW t, Tick(t)
  PROVE  /\ Breaks(tensors, queue)' \in SUBSET (Breaks(tensors, queue) \cup {Len(queue)})
         /\ Smooth \/ TakenPlaces(Stop(t)) = {} =>
              Breaks(tensors, queue)' \in SUBSET Breaks(tensors, queue)
<1> DEFINE to == Stop(t)
           h == Hints(next, to)
           S == TakenPlaces(to)
           r == HintPlaces(to)
           n == Len(h)
           L == Len(queue)
<1>1. to \in next .. Len(order) + 1
  BY StopOf
<1>2. queue' = queue \o h /\ tensors' = tensors
  BY DEF Tick
<1>3. /\ h \in Seq(Streamable) /\ n = Cardinality(S)
      /\ \A m \in 1 .. n : r[m] \in S /\ h[m] = order[r[m]]
  BY <1>1, HintsOf
<1>4. /\ n \in Nat /\ L \in Nat /\ queue \in Seq(Streamable)
      /\ next \in Nat /\ next # 0 /\ Len(order) \in Nat
  BY <1>3, InvFacts DEF SchedulerInv
<1>5. /\ queue' \in Seq(Streamable) /\ Len(queue') = L + n
      /\ \A i \in 1 .. L + n : queue'[i] = IF i <= L THEN queue[i] ELSE h[i - L]
  BY <1>2, <1>3, <1>4, ConcatProperties, Zenon
<1>6. ASSUME NEW i \in 1 .. n - 1 PROVE Follows(tensors, h[i], h[i + 1])
  BY <1>1, <1>6, TickFollows
<1>7. S = {} => n = 0
  BY <1>3, FS_EmptySet
<1> HIDE DEF to, h, S, r, n, L
<1>8. ASSUME NEW i \in Breaks(tensors, queue)', i # L
      PROVE  i \in Breaks(tensors, queue)
  <2>1. i \in 1 .. (L + n) - 1 /\ ~ Follows(tensors, queue'[i], queue'[i + 1])
    <3>1. i \in 1 .. Len(queue') - 1 /\ ~ Follows(tensors', queue'[i], queue'[i + 1])
      BY DEF Breaks, Follows
    <3> QED
      BY <1>2, <1>5, <3>1
  <2>2. CASE i < L
    <3>1. /\ i \in 1 .. L + n /\ i + 1 \in 1 .. L + n /\ i <= L /\ i + 1 <= L
          /\ i \in 1 .. L - 1
      BY <1>4, <2>1, <2>2
    <3>2. queue'[i] = queue[i] /\ queue'[i + 1] = queue[i + 1]
      BY <1>5, <3>1
    <3> QED
      BY <2>1, <3>1, <3>2 DEF Breaks, L
  <2>3. CASE L < i
    <3> DEFINE j == i - L
    <3>1. /\ i \in 1 .. L + n /\ i + 1 \in 1 .. L + n /\ ~ (i <= L) /\ ~ (i + 1 <= L)
          /\ j \in 1 .. n - 1 /\ (i + 1) - L = j + 1
      BY <1>4, <2>1, <2>3
    <3>2. queue'[i] = h[j] /\ queue'[i + 1] = h[j + 1]
      BY <1>5, <3>1
    <3> QED
      BY <1>6, <2>1, <3>1, <3>2
  <2> QED
    BY <1>4, <1>8, <2>1, <2>2, <2>3
<1>9. ASSUME Smooth \/ S = {}, L \in Breaks(tensors, queue)' PROVE FALSE
  <2>1. L \in 1 .. (L + n) - 1 /\ ~ Follows(tensors, queue'[L], queue'[L + 1])
    <3>1. L \in 1 .. Len(queue') - 1 /\ ~ Follows(tensors', queue'[L], queue'[L + 1])
      BY <1>9 DEF Breaks, Follows
    <3> QED
      BY <1>2, <1>5, <3>1
  <2>2. n # 0 /\ L # 0 /\ 1 \in 1 .. n
    BY <1>4, <2>1
  <2>3. Smooth
    BY <1>7, <1>9, <2>2
  <2> DEFINE b == r[1]
             last == queue[L]
  <2>4. b \in S /\ h[1] = order[b]
    BY <1>3, <2>2
  <2>5. b \in next .. to - 1
    BY <2>4 DEF S, TakenPlaces
  <2>6. b \in 1 .. Len(order) /\ next \in 1 .. Len(order) /\ next <= b /\ queue # <<>>
    <3>1. queue # <<>>
      BY <2>2 DEF L
    <3> HIDE DEF b
    <3> QED
      BY <1>1, <1>4, <2>5, <3>1
  <2>7. last \in Streamable /\ h[1] \in Streamable
    BY <1>3, <1>4, <2>2, <2>1, ElementOfSeq DEF L, n
  <2>8. /\ last < order[next]
        /\ \A i \in last + 1 .. order[next] - 1 : tensors[i].size = 0
    BY <2>3, <2>6 DEF Smooth, L
  <2>9. last \in Nat /\ order[next] <= order[b] /\ order[next] \in Nat /\ order[b] \in Nat
    <3>1. last \in Nat
      BY <2>7, OfHbfIn DEF Streamable, SchedulerInv
    <3> QED
      BY <2>6, <3>1, OrderGrows
  <2>10. \A m \in 1 .. n : b <= r[m]
    <3> SUFFICES ASSUME NEW m \in 1 .. n PROVE b <= r[m]
      OBVIOUS
    <3>1. 1 < m => r[1] < r[m]
      BY <1>1, <2>2, HintsOf DEF h, n, r
    <3>2. b \in Nat /\ r[m] \in Nat
      <4>1. r[m] \in S
        BY <1>3
      <4>2. r[m] \in next .. to - 1
        BY <4>1 DEF S, TakenPlaces
      <4> HIDE DEF b
      <4> QED
        BY <1>4, <2>6, <4>2
    <3> QED
      BY <1>4, <3>1, <3>2
  <2> HIDE DEF b, last
  <2>11. ASSUME NEW p \in 1 .. Len(order), p < b, last < order[p]
         PROVE  tensors[order[p]].size = 0
    <3>1. order[p] \in Nat /\ (p < next => order[p] < order[next])
      BY <2>6, OrderGrows
    <3>2. CASE p < next
      <4>1. order[p] \in last + 1 .. order[next] - 1
        BY <2>9, <2>11, <3>1, <3>2
      <4> QED
        BY <2>8, <4>1
    <3>3. CASE ~ (p < next)
      <4>1. p \in next .. to - 1
        <5>1. /\ p \in Nat /\ next <= p /\ p < b
          BY <1>4, <2>11, <3>3
        <5>2. b \in Int /\ to \in Int /\ b <= to - 1
          BY <1>1, <1>4, <2>5, <2>6
        <5> HIDE DEF to, b
        <5> QED
          BY <1>4, <5>1, <5>2
      <4>2. p \notin S
        <5> SUFFICES ASSUME p \in S PROVE FALSE
          OBVIOUS
        <5>1. PICK m \in 1 .. n : r[m] = p
          BY <1>1, HintsOf DEF h, n, r, S
        <5> QED
          BY <1>4, <2>6, <2>10, <2>11, <5>1
      <4>3. cfg.buffer = "On"
        BY <2>7 DEF Streamable
      <4> QED
        BY <1>1, <4>1, <4>2, <4>3, PassedOver DEF S
    <3> QED
      BY <3>2, <3>3
  <2>12. \A i \in last + 1 .. order[b] - 1 : tensors[i].size = 0
    BY <2>6, <2>9, <2>11, EmptyBetween
  <2>13. last < order[b]
    BY <2>8, <2>9
  <2>14. Follows(tensors, last, h[1])
    BY <2>4, <2>7, <2>12, <2>13, FollowsWhen
  <2>15. queue'[L] = last /\ queue'[L + 1] = h[1]
    <3>1. L \in 1 .. L + n /\ L + 1 \in 1 .. L + n /\ L <= L /\ ~ (L + 1 <= L)
          /\ (L + 1) - L = 1
      BY <1>4, <2>2
    <3> QED
      BY <1>5, <3>1 DEF last
  <2> QED
    BY <2>1, <2>14, <2>15
<1> QED
  BY <1>8, <1>9 DEF L, S, to

LEMMA BreaksNext ==
  ASSUME SchedulerInv, BreaksByRewinds, [Next]_vars
  PROVE  BreaksByRewinds'
<1> DEFINE B == Breaks(tensors, queue)
           c == Cardinality(B)
           d == Cardinality(B')
<1>1. Len(queue) \in Nat /\ Len(queue') \in Nat /\ passes \in Nat
  BY NextInv, InvFacts DEF SchedulerInv
<1>2. IsFiniteSet(B) /\ c \in Nat
  BY <1>1, BreaksFinite
<1>3. B' = Breaks(tensors', queue')
  BY DEF Breaks, Follows
<1>4. IsFiniteSet(B') /\ d \in Nat
  BY <1>1, <1>3, BreaksFinite
<1>5. c <= passes /\ (~Smooth => c + 1 <= passes)
  BY DEF BreaksByRewinds
<1>6. SUFFICES d <= passes' /\ (~Smooth' => d + 1 <= passes')
  BY <1>3 DEF BreaksByRewinds
<1>7. CASE Cycle
  <2>1. PICK t : Tick(t)
    BY <1>7 DEF Cycle
  <2>2. passes' = passes
    BY <2>1 DEF Tick
  <2>3. B' \in SUBSET B => d <= c
    <3> HIDE DEF B
    <3> QED
      BY <1>2, FS_Subset
  <2>4. CASE Smooth
    <3>1. Smooth' /\ B' \in SUBSET B
      BY <2>1, <2>4, TickSmooth, TickBreaks
    <3> HIDE DEF B, c, d
    <3> QED
      BY <1>1, <1>2, <1>4, <1>5, <2>2, <2>3, <3>1
  <2>5. CASE ~Smooth /\ TakenPlaces(Stop(t)) = {}
    <3>1. B' \in SUBSET B
      BY <2>1, <2>5, TickBreaks
    <3> HIDE DEF B, c, d
    <3> QED
      BY <1>1, <1>2, <1>4, <1>5, <2>2, <2>3, <2>5, <3>1
  <2>6. CASE ~Smooth /\ TakenPlaces(Stop(t)) # {}
    <3>1. Smooth' /\ B' \in SUBSET (B \cup {Len(queue)})
      BY <2>1, <2>6, TickSmooth, TickBreaks
    <3> HIDE DEF B
    <3>2. /\ IsFiniteSet(B \cup {Len(queue)})
          /\ Cardinality(B \cup {Len(queue)}) <= c + 1
      <4>1. Cardinality(B \cup {Len(queue)}) = IF Len(queue) \in B THEN c ELSE c + 1
        BY <1>2, FS_AddElement
      <4> HIDE DEF c
      <4> QED
        BY <1>2, <4>1, FS_AddElement DEF c
    <3>3. d <= Cardinality(B \cup {Len(queue)})
      BY <3>1, <3>2, FS_Subset
    <3>4. Cardinality(B \cup {Len(queue)}) \in Nat
      BY <3>2, FS_CardinalityType
    <3> DEFINE e == Cardinality(B \cup {Len(queue)})
    <3> HIDE DEF c, d, e
    <3>5. e <= c + 1 /\ d <= e /\ e \in Nat
      BY <3>2, <3>3, <3>4 DEF e
    <3> QED
      BY <1>1, <1>2, <1>4, <1>5, <2>2, <2>6, <3>1, <3>5
  <2> QED
    BY <2>4, <2>5, <2>6
<1>8. CASE Rewind
  <2>1. B' = B /\ passes' = passes + 1
    BY <1>8 DEF Rewind, Breaks, Follows
  <2>2. d = c
    BY <2>1
  <2> HIDE DEF B, c, d
  <2> QED
    BY <1>1, <1>2, <1>5, <2>1, <2>2
<1>9. CASE BufferTakes
  <2>1. /\ queue' = Tail(queue) /\ queue # <<>> /\ tensors' = tensors /\ order' = order
        /\ next' = next /\ passes' = passes
    BY <1>9 DEF BufferTakes
  <2>2. /\ queue \in Seq(Streamable) /\ Len(queue) # 0 /\ Len(queue') = Len(queue) - 1
        /\ \A i \in 1 .. Len(queue) - 1 : queue'[i] = queue[i + 1]
    <3>1. queue \in Seq(Streamable)
      BY DEF SchedulerInv
    <3> QED
      BY <2>1, <3>1, HeadTailProperties
  <2>3. ASSUME NEW i \in B' PROVE i \in Nat /\ i + 1 \in B
    <3>1. i \in 1 .. Len(queue') - 1 /\ ~Follows(tensors', queue'[i], queue'[i + 1])
      BY <1>3 DEF Breaks
    <3>2. /\ i \in 1 .. Len(queue) - 1 /\ i + 1 \in 1 .. Len(queue) - 1
      BY <1>1, <2>2, <3>1
    <3>3. queue'[i] = queue[i + 1] /\ queue'[i + 1] = queue[(i + 1) + 1]
      BY <2>2, <3>2
    <3> QED
      BY <2>1, <3>1, <3>2, <3>3 DEF Breaks
  <2>4. d <= c
    <3> DEFINE f == [i \in B' |-> i + 1]
    <3>1. f \in [B' -> B]
      BY <2>3
    <3>2. ASSUME NEW i \in B', NEW j \in B', f[i] = f[j] PROVE i = j
      <4>1. i \in Nat /\ j \in Nat /\ i + 1 = j + 1
        BY <2>3, <3>2
      <4> QED
        BY <4>1
    <3> HIDE DEF f
    <3>3. f \in Injection(B', B)
      BY <3>1, <3>2 DEF Injection, IsInjective
    <3> HIDE DEF B
    <3> QED
      BY <1>2, <3>3, FS_Injection
  <2>5. ASSUME Smooth PROVE Smooth'
    <3>1. CASE queue' # <<>> /\ next <= Len(order)
      <4>1. Len(queue') # 0
        BY <2>1, <2>2, <3>1
      <4>2. Len(queue') \in 1 .. Len(queue) - 1 /\ Len(queue') + 1 = Len(queue)
        BY <1>1, <2>2, <4>1
      <4>3. queue'[Len(queue')] = queue[Len(queue)]
        BY <2>2, <4>2
      <4> QED
        BY <2>1, <2>5, <3>1, <4>3 DEF Smooth
    <3>2. CASE ~ (queue' # <<>> /\ next <= Len(order))
      BY <2>1, <3>2 DEF Smooth
    <3> QED
      BY <3>1, <3>2
  <2> HIDE DEF B, c, d
  <2> QED
    BY <1>1, <1>2, <1>4, <1>5, <2>1, <2>4, <2>5
<1>10. CASE UNCHANGED vars
  <2>1. B' = B /\ passes' = passes /\ (Smooth' <=> Smooth)
    BY <1>10 DEF vars, Breaks, Follows, Smooth
  <2>2. d = c
    BY <2>1
  <2> HIDE DEF B, c, d
  <2> QED
    BY <1>1, <1>2, <1>5, <2>1, <2>2
<1> QED
  BY <1>7, <1>8, <1>9, <1>10 DEF Next

LEMMA BreaksInit ==
  ASSUME Init
  PROVE  BreaksByRewinds
<1>1. queue = <<>> /\ passes = 0
  BY DEF Init
<1>2. Breaks(tensors, queue) = {}
  BY <1>1 DEF Breaks
<1>3. Cardinality(Breaks(tensors, queue)) = 0
  BY <1>2, FS_EmptySet
<1>4. Smooth
  BY <1>1 DEF Smooth
<1> QED
  BY <1>1, <1>3, <1>4 DEF BreaksByRewinds

LEMMA BreaksMeanOrder ==
  ASSUME SchedulerInv, BreaksByRewinds
  PROVE  StreamsInOrder
<1>1. Breaks(tensors, queue)
        = {i \in 1 .. Len(queue) - 1 :
             ~ (/\ tensors[queue[i]].local < tensors[queue[i + 1]].local
                /\ \A m \in queue[i] + 1 .. queue[i + 1] - 1 : tensors[m].size = 0)}
  BY DEF Breaks, Follows
<1>2. Cardinality(Breaks(tensors, queue)) <= passes
  BY DEF BreaksByRewinds
<1>3. ASSUME passes = 0 PROVE Smooth
  <2>1. Cardinality(Breaks(tensors, queue)) \in Nat
    BY InvFacts, BreaksFinite
  <2> DEFINE c == Cardinality(Breaks(tensors, queue))
  <2>2. ~Smooth => c + 1 <= 0
    BY <1>3 DEF BreaksByRewinds
  <2>3. c \in Nat
    BY <2>1
  <2> HIDE DEF c
  <2> QED
    BY <2>2, <2>3
<1> QED
  BY <1>1, <1>2, <1>3 DEF StreamsInOrder, Smooth

-----------------------------------------------------------------------------
(* What the layout amounts to.                                              *)

\* The sequence u is s, of n members, with t, of m, behind it.
Joins(u, s, n, t, m) ==
  /\ Len(u) = n + m
  /\ \A i \in 1 .. n + m : u[i] = IF i <= n THEN s[i] ELSE t[i - n]

LEMMA Joined ==
  ASSUME NEW T, NEW s \in Seq(T), NEW t \in Seq(T)
  PROVE  s \o t \in Seq(T) /\ Joins(s \o t, s, Len(s), t, Len(t))
BY ConcatProperties, Zenon DEF Joins

\* A sequence with one member before and behind it, and another one after that.
Encloses(t, e, w, n, s, m) ==
  /\ Len(t) = n + 2 + m
  /\ \A k \in 1 .. n + 2 + m :
       t[k] = IF k = 1 \/ k = n + 2 THEN e
              ELSE IF k <= n + 1 THEN w[k - 1] ELSE s[k - (n + 2)]

LEMMA Enclosed ==
  ASSUME NEW T, NEW e \in T, NEW w \in Seq(T), NEW s \in Seq(T)
  PROVE  /\ <<e>> \o w \o <<e>> \o s \in Seq(T)
         /\ Encloses(<<e>> \o w \o <<e>> \o s, e, w, Len(w), s, Len(s))
<1> DEFINE a == <<e>> \o w
           b == a \o <<e>>
           t == b \o s
           n == Len(w)
           m == Len(s)
           z == <<e>>
<1>1. n \in Nat /\ m \in Nat
  OBVIOUS
<1>2. z \in Seq(T) /\ Len(z) = 1 /\ z[1] = e
  OBVIOUS
<1> HIDE DEF z
<1>3. a \in Seq(T) /\ Joins(a, z, 1, w, n)
  <2>1. z \o w \in Seq(T) /\ Joins(z \o w, z, Len(z), w, Len(w))
    BY <1>2, Joined
  <2> QED
    BY <1>2, <2>1 DEF z
<1> HIDE DEF a
<1>4. Len(a) = 1 + n /\ \A k \in 1 .. 1 + n : a[k] = IF k <= 1 THEN z[k] ELSE w[k - 1]
  BY <1>3 DEF Joins
<1>5. b \in Seq(T) /\ Joins(b, a, 1 + n, z, 1)
  <2>1. a \o z \in Seq(T) /\ Joins(a \o z, a, Len(a), z, Len(z))
    BY <1>2, <1>3, Joined
  <2> QED
    BY <1>2, <1>4, <2>1 DEF z
<1> HIDE DEF b, n, m
<1>6. /\ Len(b) = 2 + n
      /\ \A k \in 1 .. 2 + n : b[k] = IF k <= 1 + n THEN a[k] ELSE z[k - (1 + n)]
  <2>1. (1 + n) + 1 = 2 + n
    BY <1>1
  <2> QED
    BY <1>5, <2>1 DEF Joins
<1>7. /\ t \in Seq(T) /\ Len(t) = n + 2 + m
      /\ \A k \in 1 .. n + 2 + m : t[k] = IF k <= 2 + n THEN b[k] ELSE s[k - (2 + n)]
  <2>1. t \in Seq(T) /\ Joins(t, b, 2 + n, s, m)
    BY <1>5, <1>6, Joined DEF m
  <2>2. (2 + n) + m = n + 2 + m
    BY <1>1
  <2> QED
    BY <2>1, <2>2 DEF Joins
<1> HIDE DEF t
<1>8. ASSUME NEW k \in 1 .. n + 2 + m
      PROVE  t[k] = IF k = 1 \/ k = n + 2 THEN e
                    ELSE IF k <= n + 1 THEN w[k - 1] ELSE s[k - (n + 2)]
  <2>1. CASE k = 1
    <3>1. k \in 1 .. 2 + n /\ k \in 1 .. 1 + n /\ k <= 1 + n /\ k <= 2 + n /\ k <= 1
      BY <1>1, <2>1
    <3>2. t[k] = z[k]
      BY <1>4, <1>6, <1>7, <3>1
    <3> QED
      BY <1>2, <2>1, <3>2
  <2>2. CASE k = n + 2
    <3>1. ~ (k <= 1 + n) /\ k <= 2 + n /\ k - (1 + n) = 1 /\ k \in 1 .. 2 + n
      BY <1>1, <2>2
    <3> QED
      BY <1>2, <1>6, <1>7, <2>2, <3>1
  <2>3. CASE k # 1 /\ k <= n + 1
    <3>1. k <= 1 + n /\ k <= 2 + n /\ k \in 1 .. 2 + n /\ k \in 1 .. 1 + n /\ ~ (k <= 1)
          /\ k # n + 2
      BY <1>1, <2>3
    <3> QED
      BY <1>4, <1>6, <1>7, <2>3, <3>1
  <2>4. CASE k > n + 2
    <3>1. ~ (k <= 2 + n) /\ ~ (k <= n + 1) /\ k # 1 /\ k # n + 2 /\ 2 + n = n + 2
      BY <1>1, <2>4
    <3> QED
      BY <1>7, <2>4, <3>1
  <2>5. k = 1 \/ k = n + 2 \/ (k # 1 /\ k <= n + 1) \/ k > n + 2
    BY <1>1
  <2> QED
    BY <2>1, <2>2, <2>3, <2>4, <2>5
<1>9. t = <<e>> \o w \o <<e>> \o s
  BY DEF t, b, a
<1> QED
  BY <1>7, <1>8, <1>9, Zenon DEF n, m, Encloses

\* A sequence with one member behind it.
LEMMA Closed ==
  ASSUME NEW T, NEW e \in T, NEW s \in Seq(T)
  PROVE  /\ s \o <<e>> \in Seq(T) /\ Len(s \o <<e>>) = Len(s) + 1
         /\ \A k \in 1 .. Len(s) + 1 :
              (s \o <<e>>)[k] = IF k <= Len(s) THEN s[k] ELSE e
<1> DEFINE z == <<e>>
           n == Len(s)
<1>1. z \in Seq(T) /\ Len(z) = 1 /\ z[1] = e /\ n \in Nat
  OBVIOUS
<1> HIDE DEF z
<1>2. s \o z \in Seq(T) /\ Joins(s \o z, s, n, z, 1)
  <2>1. s \o z \in Seq(T) /\ Joins(s \o z, s, Len(s), z, Len(z))
    BY <1>1, Joined
  <2> QED
    BY <1>1, <2>1
<1>3. \A k \in 1 .. n + 1 : ~ (k <= n) => k - n = 1
  BY <1>1
<1> QED
  BY <1>1, <1>2, <1>3 DEF z, Joins

\* The tensors in the order they are laid out, one by one.
Embed(c) == InHbf((c.vocab * c.hidden * c.dtype) \div c.tp)
SharedSlice(c) == InHbf(SharedKvBytes(c) \div c.layers)
GeneratedSlice(c) == InHbm(GeneratedKvBytes(c) \div c.layers)

ShapeNo(c, k) ==
  IF k = 1 \/ k = 9 * c.layers + 2 THEN Embed(c)
  ELSE IF k <= 9 * c.layers + 1 THEN LayerWeights(c)[((k - 2) % 9) + 1]
  ELSE IF k <= 10 * c.layers + 2 THEN SharedSlice(c)
  ELSE IF k <= 11 * c.layers + 2 THEN GeneratedSlice(c)
  ELSE InHbm(ActivationBytes(c))

LEMMA ShapesAre ==
  ASSUME NEW c, ModelType(c), ValidModel(c)
  PROVE  /\ Shapes(c) \in Seq(Shape) /\ Len(Shapes(c)) = 11 * c.layers + 3
         /\ \A k \in 1 .. 11 * c.layers + 3 : Shapes(c)[k] = ShapeNo(c, k)
<1> DEFINE L == c.layers
           e == Embed(c)
           w == [k \in 1 .. 9 * L |-> LayerWeights(c)[((k - 1) % 9) + 1]]
           s == [l \in 1 .. L |-> SharedSlice(c)]
           g == [l \in 1 .. L |-> GeneratedSlice(c)]
           x == InHbm(ActivationBytes(c))
           hbf == <<e>> \o w \o <<e>> \o s
           front == hbf \o g
           all == front \o <<x>>
<1>1. L \in Nat /\ 9 * L \in Nat
  BY DEF ModelType
<1>2. /\ e \in Shape /\ x \in Shape /\ SharedSlice(c) \in Shape /\ GeneratedSlice(c) \in Shape
      /\ \A k \in 1 .. 9 : LayerWeights(c)[k] \in Shape
  <2>1. \A z \in Nat : InHbf(z) \in Shape /\ InHbm(z) \in Shape
    BY DEF InHbf, InHbm, Shape
  <2> QED
    BY <2>1, SizesOf DEF Embed, SharedSlice, GeneratedSlice
<1>3. /\ w \in Seq(Shape) /\ Len(w) = 9 * L
      /\ \A k \in 1 .. 9 * L : w[k] = LayerWeights(c)[((k - 1) % 9) + 1]
  <2>1. ASSUME NEW k \in 1 .. 9 * L PROVE w[k] \in Shape
    <3>1. ((k - 1) % 9) + 1 \in 1 .. 9
      BY <1>1
    <3> QED
      BY <1>2, <3>1
  <2>2. w \in [1 .. 9 * L -> Shape]
    BY <2>1
  <2>3. \A k \in 1 .. 9 * L : w[k] = LayerWeights(c)[((k - 1) % 9) + 1]
    OBVIOUS
  <2> HIDE DEF w
  <2> QED
    BY <1>1, <2>2, <2>3, SeqOf
<1>4. /\ s \in Seq(Shape) /\ Len(s) = L /\ \A k \in 1 .. L : s[k] = SharedSlice(c)
      /\ g \in Seq(Shape) /\ Len(g) = L /\ \A k \in 1 .. L : g[k] = GeneratedSlice(c)
  <2>1. /\ s \in [1 .. L -> Shape] /\ \A k \in 1 .. L : s[k] = SharedSlice(c)
        /\ g \in [1 .. L -> Shape] /\ \A k \in 1 .. L : g[k] = GeneratedSlice(c)
    BY <1>2
  <2> HIDE DEF s, g
  <2>2. s \in Seq(Shape) /\ Len(s) = L
    BY <1>1, <2>1, SeqOf
  <2>3. g \in Seq(Shape) /\ Len(g) = L
    BY <1>1, <2>1, SeqOf
  <2> QED
    BY <2>1, <2>2, <2>3
<1>5. Shapes(c) = all
  BY DEF Shapes, Embed, SharedSlice, GeneratedSlice
<1> HIDE DEF e, w, s, g, x
<1>6. hbf \in Seq(Shape) /\ Encloses(hbf, e, w, 9 * L, s, L)
  <2>1. hbf \in Seq(Shape) /\ Encloses(hbf, e, w, Len(w), s, Len(s))
    BY <1>2, <1>3, <1>4, Enclosed
  <2> QED
    BY <1>3, <1>4, <2>1
<1> HIDE DEF hbf
<1>7. 9 * L + 2 + L = 10 * L + 2 /\ 10 * L + 2 + L = 11 * L + 2 /\ 10 * L + 2 \in Nat
      /\ 11 * L + 2 \in Nat
  BY <1>1
<1>8. front \in Seq(Shape) /\ Joins(front, hbf, 10 * L + 2, g, L)
  <2>1. front \in Seq(Shape) /\ Joins(front, hbf, Len(hbf), g, Len(g))
    BY <1>4, <1>6, Joined
  <2>2. Len(hbf) = 10 * L + 2
    BY <1>6, <1>7 DEF Encloses
  <2> QED
    BY <1>4, <2>1, <2>2
<1> HIDE DEF front
<1>9. /\ Len(front) = 11 * L + 2
      /\ \A k \in 1 .. 11 * L + 2 :
           front[k] = IF k <= 10 * L + 2 THEN hbf[k] ELSE g[k - (10 * L + 2)]
  BY <1>7, <1>8 DEF Joins
<1>10. /\ all \in Seq(Shape) /\ Len(all) = 11 * L + 3
       /\ \A k \in 1 .. 11 * L + 3 : all[k] = IF k <= 11 * L + 2 THEN front[k] ELSE x
  <2>1. 11 * L + 2 + 1 = 11 * L + 3
    BY <1>1
  <2> QED
    BY <1>2, <1>8, <1>9, <2>1, Closed
<1> HIDE DEF all
<1>11. ASSUME NEW k \in 1 .. 11 * L + 3 PROVE all[k] = ShapeNo(c, k)
  <2>1. CASE k = 1 \/ k = 9 * L + 2
    <3>1. k <= 11 * L + 2 /\ k <= 10 * L + 2 /\ k \in 1 .. 11 * L + 2 /\ k \in 1 .. 9 * L + 2 + L
      BY <1>1, <2>1
    <3>2. all[k] = e
      BY <1>6, <1>9, <1>10, <2>1, <3>1 DEF Encloses
    <3> QED
      BY <2>1, <3>2 DEF ShapeNo, e
  <2>2. CASE k # 1 /\ k <= 9 * L + 1
    <3>1. /\ k <= 11 * L + 2 /\ k <= 10 * L + 2 /\ k \in 1 .. 11 * L + 2
          /\ k \in 1 .. 9 * L + 2 + L /\ k # 9 * L + 2 /\ k - 1 \in 1 .. 9 * L
          /\ (k - 1) - 1 = k - 2
      BY <1>1, <2>2
    <3>2. all[k] = w[k - 1]
      BY <1>6, <1>9, <1>10, <2>2, <3>1 DEF Encloses
    <3>3. all[k] = LayerWeights(c)[((k - 2) % 9) + 1]
      BY <1>3, <3>1, <3>2
    <3> QED
      BY <2>2, <3>1, <3>3 DEF ShapeNo
  <2>3. CASE k > 9 * L + 2 /\ k <= 10 * L + 2
    <3>1. /\ k <= 11 * L + 2 /\ k \in 1 .. 11 * L + 2 /\ k \in 1 .. 9 * L + 2 + L
          /\ k # 1 /\ k # 9 * L + 2 /\ ~ (k <= 9 * L + 1) /\ k - (9 * L + 2) \in 1 .. L
      BY <1>1, <2>3
    <3>2. all[k] = s[k - (9 * L + 2)]
      BY <1>6, <1>9, <1>10, <2>3, <3>1 DEF Encloses
    <3>3. all[k] = SharedSlice(c)
      BY <1>4, <3>1, <3>2
    <3> QED
      BY <2>3, <3>1, <3>3 DEF ShapeNo
  <2>4. CASE k > 10 * L + 2 /\ k <= 11 * L + 2
    <3>1. /\ k \in 1 .. 11 * L + 2 /\ k - (10 * L + 2) \in 1 .. L /\ ~ (k <= 10 * L + 2)
          /\ k # 1 /\ k # 9 * L + 2 /\ ~ (k <= 9 * L + 1)
      BY <1>1, <2>4
    <3>2. all[k] = g[k - (10 * L + 2)]
      BY <1>9, <1>10, <2>4, <3>1
    <3>3. all[k] = GeneratedSlice(c)
      BY <1>4, <3>1, <3>2
    <3> QED
      BY <2>4, <3>1, <3>3 DEF ShapeNo
  <2>5. CASE k = 11 * L + 3
    <3>1. /\ ~ (k <= 11 * L + 2) /\ ~ (k <= 10 * L + 2) /\ k # 1 /\ k # 9 * L + 2
          /\ ~ (k <= 9 * L + 1)
      BY <1>1, <2>5
    <3>2. all[k] = x
      BY <1>10, <3>1
    <3> QED
      BY <3>1, <3>2 DEF ShapeNo, x
  <2>6. \/ k = 1 \/ k = 9 * L + 2
        \/ k # 1 /\ k <= 9 * L + 1
        \/ k > 9 * L + 2 /\ k <= 10 * L + 2
        \/ k > 10 * L + 2 /\ k <= 11 * L + 2
        \/ k = 11 * L + 3
    BY <1>1
  <2> QED
    BY <2>1, <2>2, <2>3, <2>4, <2>5, <2>6
<1> QED
  BY <1>5, <1>10, <1>11

\* The sum grows steadily over terms that are all the same.
LEMMA SumsSteady ==
  ASSUME NEW N \in Nat, NEW f \in [1 .. N -> Nat], NEW a \in 0 .. N, NEW b \in a .. N,
         NEW v \in Nat, \A k \in a + 1 .. b : f[k] = v
  PROVE  Sums(f, N)[b] = Sums(f, N)[a] + (b - a) * v
<1> DEFINE t == Sums(f, N)
           D == b - a
           T == {d \in 0 .. D : t[a + d] # t[a] + d * v}
<1>1. t \in [0 .. N -> Nat] /\ \A n \in 1 .. N : t[n] = t[n - 1] + f[n]
  BY SumsOf
<1> HIDE DEF t
<1>2. D \in Nat /\ t[a] \in Nat /\ a + 0 = a /\ 0 * v = 0
  BY <1>1
<1>3. T \in SUBSET (0 .. D) /\ 0 \notin T
  BY <1>2
<1>4. ASSUME NEW d \in 1 .. D, d - 1 \notin T PROVE d \notin T
  <2>1. d - 1 \in 0 .. D /\ a + d \in 1 .. N /\ (a + d) - 1 = a + (d - 1) /\ a + d \in a + 1 .. b
    OBVIOUS
  <2>2. t[a + (d - 1)] = t[a] + (d - 1) * v
    BY <1>4, <2>1
  <2>3. t[a + d] = t[a + (d - 1)] + v
    BY <1>1, <2>1
  <2>4. d * v = (d - 1) * v + v /\ (d - 1) * v \in Nat
    OBVIOUS
  <2>5. t[a + d] = t[a] + d * v
    BY <1>2, <2>2, <2>3, <2>4
  <2> QED
    BY <2>5
<1>5. T = {}
  <2> HIDE DEF T
  <2> QED
    BY <1>2, <1>3, <1>4, NoFailure
<1>6. D \in 0 .. D /\ a + D = b
  OBVIOUS
<1>7. t[a + D] = t[a] + D * v
  BY <1>5, <1>6
<1> QED
  BY <1>6, <1>7 DEF t

LEMMA SumsRest ==
  ASSUME NEW N \in Nat, NEW f \in [1 .. N -> Nat], NEW a \in 0 .. N, NEW b \in a .. N,
         \A k \in a + 1 .. b : f[k] = 0
  PROVE  Sums(f, N)[b] = Sums(f, N)[a]
<1> DEFINE v == 0
           s == Sums(f, N)
<1>1. v \in Nat /\ \A k \in a + 1 .. b : f[k] = v
  OBVIOUS
<1>2. s \in [0 .. N -> Nat]
  BY SumsOf
<1>3. (b - a) * v = 0
  OBVIOUS
<1> HIDE DEF v
<1>4. s[b] = s[a] + (b - a) * v
  BY <1>1, SumsSteady
<1> HIDE DEF s
<1>5. s[a] \in Nat
  BY <1>2
<1>6. s[b] = s[a]
  BY <1>3, <1>4, <1>5
<1> QED
  BY <1>6 DEF s

\* What the weights of a layer take on one GPU.
NormBytes(c) == c.hidden * c.dtype
QoBytes(c) == (c.hidden * c.heads * c.headDim * c.dtype) \div c.tp
KvBytes(c) == (c.hidden * c.kvHeads * c.headDim * c.dtype) \div c.tp
MlpBytes(c) == (c.hidden * c.mlp * c.dtype) \div c.tp

LayerBytes(c) == 2 * NormBytes(c) + 2 * QoBytes(c) + 2 * KvBytes(c) + 3 * MlpBytes(c)

LEMMA BytesOf ==
  ASSUME NEW c, ModelType(c), ValidModel(c)
  PROVE  /\ NormBytes(c) \in Nat /\ QoBytes(c) \in Nat /\ KvBytes(c) \in Nat
         /\ MlpBytes(c) \in Nat /\ LayerBytes(c) \in Nat
         /\ Embed(c).size \in Nat /\ SharedSlice(c).size \in Nat
         /\ GeneratedSlice(c).size \in Nat /\ ActivationBytes(c) \in Nat
<1> DEFINE q == c.hidden * c.heads * c.headDim * c.dtype
           kv == c.hidden * c.kvHeads * c.headDim * c.dtype
           m == c.hidden * c.mlp * c.dtype
<1>1. NormBytes(c) \in Nat /\ q \in Nat /\ kv \in Nat /\ m \in Nat /\ c.tp \in Nat
  BY DEF NormBytes, ModelType
<1>2. QoBytes(c) = q \div c.tp /\ KvBytes(c) = kv \div c.tp /\ MlpBytes(c) = m \div c.tp
  BY DEF QoBytes, KvBytes, MlpBytes
<1>3. c.tp # 0
  BY SizesOf
<1> HIDE DEF q, kv, m
<1>4. QoBytes(c) \in Nat /\ KvBytes(c) \in Nat /\ MlpBytes(c) \in Nat
  BY <1>1, <1>2, <1>3, Divided
<1>5. LayerBytes(c) \in Nat
  BY <1>1, <1>4 DEF LayerBytes
<1> QED
  BY <1>1, <1>4, <1>5, SizesOf DEF Embed, SharedSlice, GeneratedSlice, InHbf, InHbm

\* Addition in groups.
LEMMA Regrouped ==
  ASSUME NEW i \in Nat, NEW j \in Nat, NEW k \in Nat, NEW l \in Nat
  PROVE  ((i + j) + k) + l = i + (j + k + l)
  OBVIOUS

\* The nine weights of a layer, read one after another.
LEMMA NineTerms ==
  ASSUME NEW N \in Nat, NEW f \in [1 .. N -> Nat], NEW a \in Nat, a + 9 <= N
  PROVE  Sums(f, N)[a + 9]
           = Sums(f, N)[a] + ((f[a + 1] + f[a + 2] + f[a + 3])
                                + (f[a + 4] + f[a + 5] + f[a + 6])
                                + (f[a + 7] + f[a + 8] + f[a + 9]))
<1> DEFINE t == Sums(f, N)
<1>1. t \in [0 .. N -> Nat] /\ \A k \in 1 .. N : t[k] = t[k - 1] + f[k]
  BY SumsOf
<1> HIDE DEF t
<1>2. \A k \in 1 .. N : f[k] \in Nat
  OBVIOUS
<1>3. \A k \in 0 .. N : t[k] \in Nat
  BY <1>1
<1>4. ASSUME NEW b \in Nat, b + 3 <= N
      PROVE  t[b + 3] = t[b] + (f[b + 1] + f[b + 2] + f[b + 3])
  <2>1. /\ b \in 0 .. N /\ b + 1 \in 1 .. N /\ b + 2 \in 1 .. N /\ b + 3 \in 1 .. N
        /\ (b + 1) - 1 = b /\ (b + 2) - 1 = b + 1 /\ (b + 3) - 1 = b + 2
    BY <1>4
  <2>2. t[b + 1] = t[b] + f[b + 1]
    BY <1>1, <2>1
  <2>3. t[b + 2] = t[b + 1] + f[b + 2]
    BY <1>1, <2>1
  <2>4. t[b + 3] = t[b + 2] + f[b + 3]
    BY <1>1, <2>1
  <2>5. t[b] \in Nat /\ f[b + 1] \in Nat /\ f[b + 2] \in Nat /\ f[b + 3] \in Nat
    BY <1>2, <1>3, <2>1
  <2> DEFINE i == t[b]
             j == f[b + 1]
             k == f[b + 2]
             l == f[b + 3]
  <2>6. t[b + 3] = ((i + j) + k) + l /\ i \in Nat /\ j \in Nat /\ k \in Nat /\ l \in Nat
    BY <2>2, <2>3, <2>4, <2>5, Zenon
  <2> HIDE DEF i, j, k, l
  <2>7. ((i + j) + k) + l = i + (j + k + l)
    BY <2>6, Regrouped
  <2> QED
    BY <2>6, <2>7, Zenon DEF i, j, k, l
<1>5. t[a + 3] = t[a] + (f[a + 1] + f[a + 2] + f[a + 3])
  BY <1>4
<1>6. t[a + 6] = t[a + 3] + (f[a + 4] + f[a + 5] + f[a + 6])
  <2> DEFINE b == a + 3
  <2>1. b \in Nat /\ b + 3 <= N /\ b + 1 = a + 4 /\ b + 2 = a + 5 /\ b + 3 = a + 6
    OBVIOUS
  <2> HIDE DEF b
  <2>2. t[b + 3] = t[b] + (f[b + 1] + f[b + 2] + f[b + 3])
    BY <1>4, <2>1
  <2> QED
    BY <2>1, <2>2 DEF b
<1>7. t[a + 9] = t[a + 6] + (f[a + 7] + f[a + 8] + f[a + 9])
  <2> DEFINE b == a + 6
  <2>1. b \in Nat /\ b + 3 <= N /\ b + 1 = a + 7 /\ b + 2 = a + 8 /\ b + 3 = a + 9
    OBVIOUS
  <2> HIDE DEF b
  <2>2. t[b + 3] = t[b] + (f[b + 1] + f[b + 2] + f[b + 3])
    BY <1>4, <2>1
  <2> QED
    BY <2>1, <2>2 DEF b
<1>8. t[a] \in Nat
  BY <1>3
<1>9. /\ f[a + 1] \in Nat /\ f[a + 2] \in Nat /\ f[a + 3] \in Nat /\ f[a + 4] \in Nat
      /\ f[a + 5] \in Nat /\ f[a + 6] \in Nat /\ f[a + 7] \in Nat /\ f[a + 8] \in Nat
      /\ f[a + 9] \in Nat
  <2>1. ASSUME NEW d \in 1 .. 9 PROVE f[a + d] \in Nat
    <3>1. a + d \in 1 .. N
      OBVIOUS
    <3> QED
      BY <3>1
  <2>2. /\ 1 \in 1 .. 9 /\ 2 \in 1 .. 9 /\ 3 \in 1 .. 9 /\ 4 \in 1 .. 9 /\ 5 \in 1 .. 9
        /\ 6 \in 1 .. 9 /\ 7 \in 1 .. 9 /\ 8 \in 1 .. 9 /\ 9 \in 1 .. 9
    OBVIOUS
  <2> QED
    BY <2>1, <2>2, Zenon
<1> DEFINE x == f[a + 1] + f[a + 2] + f[a + 3]
           y == f[a + 4] + f[a + 5] + f[a + 6]
           z == f[a + 7] + f[a + 8] + f[a + 9]
<1>10. x \in Nat /\ y \in Nat /\ z \in Nat
  <2>1. \A p, q, r \in Nat : p + q + r \in Nat
    OBVIOUS
  <2> QED
    BY <1>9, <2>1, Zenon
<1>11. t[a + 3] = t[a] + x /\ t[a + 6] = t[a + 3] + y /\ t[a + 9] = t[a + 6] + z
  BY <1>5, <1>6, <1>7, Zenon
<1> HIDE DEF x, y, z
<1>12. t[a + 9] = t[a] + (x + y + z)
  <2> DEFINE u == t[a]
  <2>1. t[a + 9] = ((u + x) + y) + z /\ u \in Nat
    BY <1>8, <1>11, Zenon
  <2> HIDE DEF u
  <2>2. ((u + x) + y) + z = u + (x + y + z)
    BY <1>10, <2>1, Regrouped
  <2> QED
    BY <2>1, <2>2, Zenon DEF u
<1> QED
  BY <1>12, Zenon DEF t, x, y, z

LEMMA LayerSum ==
  ASSUME NEW c, ModelType(c), ValidModel(c),
         NEW N \in Nat, NEW f \in [1 .. N -> Nat], NEW a \in Nat, a + 9 <= N,
         \A i \in 1 .. 9 : f[a + i] = LayerWeights(c)[i].size
  PROVE  Sums(f, N)[a + 9] = Sums(f, N)[a] + LayerBytes(c)
<1> DEFINE n == NormBytes(c)
           q == QoBytes(c)
           kv == KvBytes(c)
           m == MlpBytes(c)
           w == LayerWeights(c)
<1>1. n \in Nat /\ q \in Nat /\ kv \in Nat /\ m \in Nat
  BY BytesOf
<1>2. w = <<InHbf(n), InHbf(q), InHbf(kv), InHbf(kv), InHbf(q), InHbf(n), InHbf(m),
            InHbf(m), InHbf(m)>>
  BY DEF LayerWeights, NormBytes, QoBytes, KvBytes, MlpBytes
<1>3. LayerBytes(c) = 2 * n + 2 * q + 2 * kv + 3 * m
  BY DEF LayerBytes
<1>4. \A i \in 1 .. 9 : f[a + i] = w[i].size
  OBVIOUS
<1>5. \A z : InHbf(z).size = z
  BY DEF InHbf
<1> HIDE DEF n, q, kv, m, w
<1>6. /\ w[1].size = n /\ w[2].size = q /\ w[3].size = kv /\ w[4].size = kv
      /\ w[5].size = q /\ w[6].size = n /\ w[7].size = m /\ w[8].size = m
      /\ w[9].size = m
  BY <1>2, <1>5
<1>7. /\ f[a + 1] = n /\ f[a + 2] = q /\ f[a + 3] = kv /\ f[a + 4] = kv /\ f[a + 5] = q
      /\ f[a + 6] = n /\ f[a + 7] = m /\ f[a + 8] = m /\ f[a + 9] = m
  <2>1. /\ 1 \in 1 .. 9 /\ 2 \in 1 .. 9 /\ 3 \in 1 .. 9 /\ 4 \in 1 .. 9 /\ 5 \in 1 .. 9
        /\ 6 \in 1 .. 9 /\ 7 \in 1 .. 9 /\ 8 \in 1 .. 9 /\ 9 \in 1 .. 9
    OBVIOUS
  <2> QED
    BY <1>4, <1>6, <2>1, Zenon
<1>8. Sums(f, N)[a + 9] = Sums(f, N)[a] + ((n + q + kv) + (kv + q + n) + (m + m + m))
  <2>1. Sums(f, N)[a + 9]
          = Sums(f, N)[a] + ((f[a + 1] + f[a + 2] + f[a + 3])
                               + (f[a + 4] + f[a + 5] + f[a + 6])
                               + (f[a + 7] + f[a + 8] + f[a + 9]))
    BY NineTerms, Zenon
  <2> QED
    BY <1>7, <2>1, Zenon
<1>9. (n + q + kv) + (kv + q + n) + (m + m + m) = 2 * n + 2 * q + 2 * kv + 3 * m
  BY <1>1
<1> QED
  BY <1>3, <1>8, <1>9

\* Which tensors a layer has.
LEMMA LayerTensor ==
  ASSUME NEW L \in Nat, NEW l \in 1 .. L, NEW i \in 1 .. 9
  PROVE  /\ (9 * (l - 1) + 1) + i \in 2 .. 9 * L + 1
         /\ ((9 * (l - 1) + 1) + i) - 2 = 9 * (l - 1) + (i - 1)
  OBVIOUS

\* Those of the first layers.
LEMMA LayersSum ==
  ASSUME NEW c, ModelType(c), ValidModel(c),
         NEW N \in Nat, NEW f \in [1 .. N -> Nat], 9 * c.layers + 1 <= N,
         \A k \in 2 .. 9 * c.layers + 1 : f[k] = LayerWeights(c)[((k - 2) % 9) + 1].size
  PROVE  Sums(f, N)[9 * c.layers + 1] = Sums(f, N)[1] + c.layers * LayerBytes(c)
<1> DEFINE t == Sums(f, N)
           L == c.layers
           P == LayerBytes(c)
           T == {l \in 0 .. L : t[9 * l + 1] # t[1] + l * P}
<1>1. L \in Nat /\ P \in Nat
  BY BytesOf DEF ModelType
<1>2. t \in [0 .. N -> Nat]
  BY SumsOf
<1>3. ASSUME NEW l \in 1 .. L PROVE t[(9 * (l - 1) + 1) + 9] = t[9 * (l - 1) + 1] + P
  <2> DEFINE a == 9 * (l - 1) + 1
  <2>1. a \in Nat /\ a + 9 <= N
    BY <1>1
  <2>2. ASSUME NEW i \in 1 .. 9 PROVE f[a + i] = LayerWeights(c)[i].size
    <3>1. a + i \in 2 .. 9 * L + 1 /\ (a + i) - 2 = 9 * (l - 1) + (i - 1)
      BY <1>1, LayerTensor, Zenon
    <3>2. (9 * (l - 1) + (i - 1)) % 9 = i - 1 /\ (i - 1) + 1 = i
      <4> DEFINE j == l - 1
                 r == i - 1
      <4>1. j \in Nat /\ r \in 0 .. 8 /\ r + 1 = i
        OBVIOUS
      <4> HIDE DEF j, r
      <4>2. (9 * j + r) % 9 = r
        <5> DEFINE v == 9 * j + r
                   p == v \div 9
                   u == v % 9
        <5>1. v \in Nat /\ 9 \in Nat /\ 9 # 0
          BY <4>1
        <5> HIDE DEF v
        <5>2. p \in Nat /\ u \in 0 .. 9 - 1 /\ v = 9 * p + u
          BY <5>1, Divided
        <5> HIDE DEF p, u
        <5>3. u = r
          BY <4>1, <5>2 DEF v
        <5> QED
          BY <5>3 DEF u, v
      <4> QED
        BY <4>1, <4>2 DEF j, r
    <3> HIDE DEF a
    <3>3. f[a + i] = LayerWeights(c)[(((a + i) - 2) % 9) + 1].size
      BY <3>1
    <3> QED
      BY <3>1, <3>2, <3>3
  <2> HIDE DEF a
  <2>3. Sums(f, N)[a + 9] = Sums(f, N)[a] + LayerBytes(c)
    BY <2>1, <2>2, LayerSum
  <2> QED
    BY <2>3 DEF a
<1> HIDE DEF t, P
<1>4. T \in SUBSET (0 .. L) /\ 0 \notin T
  <2>1. 9 * 0 + 1 = 1 /\ 0 * P = 0 /\ 1 \in 0 .. N
    BY <1>1
  <2>2. t[9 * 0 + 1] = t[1] + 0 * P
    BY <1>2, <2>1
  <2> QED
    BY <2>2
<1>5. ASSUME NEW l \in 1 .. L, l - 1 \notin T PROVE l \notin T
  <2>1. l - 1 \in 0 .. L /\ (9 * (l - 1) + 1) + 9 = 9 * l + 1
    BY <1>1
  <2>2. t[9 * (l - 1) + 1] = t[1] + (l - 1) * P
    BY <1>5, <2>1
  <2>3. t[9 * l + 1] = t[9 * (l - 1) + 1] + P
    BY <1>3, <2>1
  <2>4. l * P = (l - 1) * P + P /\ (l - 1) * P \in Nat
    BY <1>1
  <2>5. t[1] \in Nat
    BY <1>1, <1>2
  <2>6. t[9 * l + 1] = t[1] + l * P
    BY <1>1, <2>2, <2>3, <2>4, <2>5
  <2> QED
    BY <2>6
<1>6. T = {}
  <2> HIDE DEF T
  <2> QED
    BY <1>1, <1>4, <1>5, NoFailure
<1>7. L \in 0 .. L
  BY <1>1
<1>8. t[9 * L + 1] = t[1] + L * P
  BY <1>6, <1>7
<1> QED
  BY <1>8 DEF t, P

\* Where the tensors of each kind are.
LEMMA ShapeRegions ==
  ASSUME NEW c, ModelType(c), ValidModel(c), NEW k \in 1 .. 11 * c.layers + 3
  PROVE  Shapes(c)[k].region = IF k <= 10 * c.layers + 2 THEN "Hbf" ELSE "Hbm"
<1> DEFINE L == c.layers
<1>1. L \in Nat
  BY DEF ModelType
<1>2. \A z : InHbf(z).region = "Hbf" /\ InHbm(z).region = "Hbm"
  BY DEF InHbf, InHbm
<1>3. Shapes(c)[k] = ShapeNo(c, k)
  BY ShapesAre
<1>4. CASE k <= 9 * L + 2
  <2>1. k <= 10 * L + 2 /\ (k = 1 \/ k = 9 * L + 2 \/ (k # 1 /\ k <= 9 * L + 1))
    BY <1>1, <1>4
  <2>2. CASE k = 1 \/ k = 9 * L + 2
    BY <1>2, <1>3, <2>1, <2>2 DEF ShapeNo, Embed
  <2>3. CASE k # 1 /\ k <= 9 * L + 1
    <3>1. ((k - 2) % 9) + 1 \in 1 .. 9 /\ k # 9 * L + 2
      BY <1>1, <2>3
    <3>2. LayerWeights(c)[((k - 2) % 9) + 1].region = "Hbf"
      BY <3>1, SizesOf
    <3> QED
      BY <1>3, <2>1, <2>3, <3>1, <3>2 DEF ShapeNo
  <2> QED
    BY <2>1, <2>2, <2>3
<1>5. CASE k > 9 * L + 2
  <2>1. k # 1 /\ k # 9 * L + 2 /\ ~ (k <= 9 * L + 1)
    BY <1>1, <1>5
  <2> QED
    BY <1>2, <1>3, <2>1 DEF ShapeNo, SharedSlice, GeneratedSlice
<1> QED
  BY <1>1, <1>4, <1>5

\* The sizes of the tensors of one memory.
TermsIn(c, f, region) ==
  /\ f \in [1 .. 11 * c.layers + 3 -> Nat]
  /\ \A k \in 1 .. 11 * c.layers + 3 :
       f[k] = IF Shapes(c)[k].region = region THEN Shapes(c)[k].size ELSE 0

\* What a GPU holds in HBF: the weights, and its share of the shared KV cache.
LEMMA HbfSum ==
  ASSUME NEW c, ModelType(c), ValidModel(c), NEW f, TermsIn(c, f, "Hbf")
  PROVE  Sums(f, 11 * c.layers + 3)[11 * c.layers + 3]
           = (2 * Embed(c).size + c.layers * LayerBytes(c)) + c.layers * SharedSlice(c).size
<1> DEFINE L == c.layers
           N == 11 * L + 3
           t == Sums(f, N)
           e == Embed(c).size
           P == LayerBytes(c)
           s == SharedSlice(c).size
<1>1. L \in Nat /\ N \in Nat /\ e \in Nat /\ P \in Nat /\ s \in Nat
  BY BytesOf DEF ModelType
<1>2. ASSUME NEW k \in 1 .. N
      PROVE  f[k] = IF k <= 10 * L + 2 THEN ShapeNo(c, k).size ELSE 0
  BY <1>2, ShapesAre, ShapeRegions DEF TermsIn
<1>3. /\ f \in [1 .. N -> Nat]
      /\ t \in [0 .. N -> Nat] /\ t[0] = 0 /\ \A k \in 1 .. N : t[k] = t[k - 1] + f[k]
  BY <1>1, SumsOf DEF TermsIn
<1>4. t[1] = e
  <2>1. 1 \in 1 .. N /\ 1 <= 10 * L + 2 /\ 1 - 1 = 0
    BY <1>1
  <2>2. f[1] = e
    BY <1>2, <2>1 DEF ShapeNo
  <2> HIDE DEF t, e
  <2> QED
    BY <1>1, <1>3, <2>1, <2>2
<1>5. t[9 * L + 1] = t[1] + L * P
  <2>1. 9 * L + 1 <= N
    BY <1>1
  <2>2. ASSUME NEW k \in 2 .. 9 * L + 1
        PROVE  f[k] = LayerWeights(c)[((k - 2) % 9) + 1].size
    <3>1. k \in 1 .. N /\ k <= 10 * L + 2 /\ k # 1 /\ k # 9 * L + 2 /\ k <= 9 * L + 1
      BY <1>1
    <3> QED
      BY <1>2, <3>1 DEF ShapeNo
  <2> QED
    BY <1>1, <1>3, <2>1, <2>2, LayersSum
<1>6. t[9 * L + 2] = t[9 * L + 1] + e
  <2>1. 9 * L + 2 \in 1 .. N /\ 9 * L + 2 <= 10 * L + 2 /\ (9 * L + 2) - 1 = 9 * L + 1
    BY <1>1
  <2>2. f[9 * L + 2] = e
    BY <1>2, <2>1 DEF ShapeNo
  <2>3. t[9 * L + 2] = t[(9 * L + 2) - 1] + f[9 * L + 2]
    BY <1>3, <2>1
  <2> QED
    BY <2>1, <2>2, <2>3
<1>7. t[10 * L + 2] = t[9 * L + 2] + L * s
  <2>1. /\ 9 * L + 2 \in 0 .. N /\ 10 * L + 2 \in 9 * L + 2 .. N
        /\ (10 * L + 2) - (9 * L + 2) = L
    BY <1>1
  <2>2. ASSUME NEW k \in (9 * L + 2) + 1 .. 10 * L + 2 PROVE f[k] = s
    <3>1. /\ k \in 1 .. N /\ k <= 10 * L + 2 /\ k # 1 /\ k # 9 * L + 2
          /\ ~ (k <= 9 * L + 1)
      BY <1>1
    <3> QED
      BY <1>2, <3>1 DEF ShapeNo
  <2> DEFINE A == 9 * L + 2
             B == 10 * L + 2
  <2>3. /\ N \in Nat /\ f \in [1 .. N -> Nat] /\ A \in 0 .. N /\ B \in A .. N
        /\ s \in Nat /\ \A k \in A + 1 .. B : f[k] = s
    BY <1>1, <1>3, <2>1, <2>2
  <2> HIDE DEF A, B, N, s
  <2>4. Sums(f, N)[B] = Sums(f, N)[A] + (B - A) * s
    BY <2>3, SumsSteady
  <2> QED
    BY <2>1, <2>4 DEF A, B, N, s
<1>8. t[N] = t[10 * L + 2]
  <2>1. 10 * L + 2 \in 0 .. N /\ N \in 10 * L + 2 .. N
    BY <1>1
  <2>2. ASSUME NEW k \in (10 * L + 2) + 1 .. N PROVE f[k] = 0
    <3>1. k \in 1 .. N /\ ~ (k <= 10 * L + 2)
      BY <1>1
    <3> QED
      BY <1>2, <3>1
  <2> QED
    BY <1>1, <1>3, <2>1, <2>2, SumsRest
<1> DEFINE x == L * P
           y == L * s
<1>9. x \in Nat /\ y \in Nat
  BY <1>1
<1>10. t[1] = e /\ t[9 * L + 1] = t[1] + x /\ t[9 * L + 2] = t[9 * L + 1] + e
       /\ t[10 * L + 2] = t[9 * L + 2] + y
  BY <1>4, <1>5, <1>6, <1>7
<1> HIDE DEF x, y, e, t, N
<1>11. t[N] = (2 * e + x) + y
  BY <1>1, <1>8, <1>9, <1>10
<1> QED
  BY <1>11 DEF x, y, e, t, N

\* What it holds in HBM: its share of the generated KV cache, and the activations.
LEMMA HbmSum ==
  ASSUME NEW c, ModelType(c), ValidModel(c), NEW f, TermsIn(c, f, "Hbm")
  PROVE  Sums(f, 11 * c.layers + 3)[11 * c.layers + 3]
           = c.layers * GeneratedSlice(c).size + ActivationBytes(c)
<1> DEFINE L == c.layers
           N == 11 * L + 3
           t == Sums(f, N)
           g == GeneratedSlice(c).size
           x == ActivationBytes(c)
<1>1. L \in Nat /\ N \in Nat /\ g \in Nat /\ x \in Nat
  BY BytesOf DEF ModelType
<1>2. ASSUME NEW k \in 1 .. N
      PROVE  f[k] = IF k <= 10 * L + 2 THEN 0 ELSE ShapeNo(c, k).size
  <2>1. k <= 10 * L + 2 \/ ~ (k <= 10 * L + 2)
    OBVIOUS
  <2> QED
    BY <1>2, <2>1, ShapesAre, ShapeRegions DEF TermsIn
<1>3. /\ f \in [1 .. N -> Nat]
      /\ t \in [0 .. N -> Nat] /\ t[0] = 0 /\ \A k \in 1 .. N : t[k] = t[k - 1] + f[k]
  BY <1>1, SumsOf DEF TermsIn
<1>4. t[10 * L + 2] = 0
  <2>1. 0 \in 0 .. N /\ 10 * L + 2 \in 0 .. N
    BY <1>1
  <2>2. ASSUME NEW k \in 0 + 1 .. 10 * L + 2 PROVE f[k] = 0
    <3>1. k \in 1 .. N /\ k <= 10 * L + 2
      BY <1>1
    <3> QED
      BY <1>2, <3>1
  <2>3. t[10 * L + 2] = t[0]
    BY <1>1, <1>3, <2>1, <2>2, SumsRest
  <2> QED
    BY <1>3, <2>3
<1>5. t[11 * L + 2] = t[10 * L + 2] + L * g
  <2>1. /\ 10 * L + 2 \in 0 .. N /\ 11 * L + 2 \in 10 * L + 2 .. N
        /\ (11 * L + 2) - (10 * L + 2) = L
    BY <1>1
  <2>2. ASSUME NEW k \in (10 * L + 2) + 1 .. 11 * L + 2 PROVE f[k] = g
    <3>1. /\ k \in 1 .. N /\ ~ (k <= 10 * L + 2) /\ k <= 11 * L + 2 /\ k # 1
          /\ k # 9 * L + 2 /\ ~ (k <= 9 * L + 1)
      BY <1>1
    <3> QED
      BY <1>2, <3>1 DEF ShapeNo
  <2> DEFINE A == 10 * L + 2
             B == 11 * L + 2
  <2>3. /\ N \in Nat /\ f \in [1 .. N -> Nat] /\ A \in 0 .. N /\ B \in A .. N
        /\ g \in Nat /\ \A k \in A + 1 .. B : f[k] = g
    BY <1>1, <1>3, <2>1, <2>2
  <2> HIDE DEF A, B, N, g
  <2>4. Sums(f, N)[B] = Sums(f, N)[A] + (B - A) * g
    BY <2>3, SumsSteady
  <2> QED
    BY <2>1, <2>4 DEF A, B, N, g
<1>6. t[N] = t[11 * L + 2] + x
  <2>1. /\ N \in 1 .. N /\ N - 1 = 11 * L + 2 /\ ~ (N <= 10 * L + 2) /\ ~ (N <= 11 * L + 2)
        /\ N # 1 /\ N # 9 * L + 2 /\ ~ (N <= 9 * L + 1)
    BY <1>1
  <2>2. f[N] = ShapeNo(c, N).size
    BY <1>2, <2>1
  <2>3. ShapeNo(c, N) = InHbm(x)
    BY <2>1 DEF ShapeNo
  <2>4. t[N] = t[N - 1] + f[N]
    BY <1>3, <2>1
  <2> QED
    BY <2>1, <2>2, <2>3, <2>4 DEF InHbm
<1> DEFINE y == L * g
<1>7. y \in Nat /\ t[11 * L + 2] = t[10 * L + 2] + y
  BY <1>1, <1>5
<1> HIDE DEF y, t, x, N
<1>8. t[N] = y + x
  BY <1>1, <1>4, <1>6, <1>7
<1> QED
  BY <1>8 DEF y, t, x, N

\* A share of a multiple of the number of shares loses nothing.
LEMMA ExactShare ==
  ASSUME NEW d \in Nat, d # 0, NEW x \in Nat, x % d = 0, NEW m \in Nat
  PROVE  d * ((x * m) \div d) = x * m
<1> DEFINE k == x \div d
           y == x * m
           q == y \div d
           j == k * m
<1>1. k \in Nat /\ x = d * k
  <2>1. k \in Nat /\ x % d \in 0 .. d - 1 /\ x = d * k + (x % d)
    BY Divided
  <2> HIDE DEF k
  <2> QED
    BY <2>1
<1>2. y \in Nat /\ j \in Nat
  BY <1>1
<1>3. y = j * d
  <2> HIDE DEF k
  <2>1. (d * k) * m = (k * m) * d
    BY <1>1
  <2> QED
    BY <1>1, <2>1
<1> HIDE DEF y, j, k
<1>4. y % d = 0
  BY <1>2, <1>3, Multiple
<1>5. q \in Nat /\ y = d * q + (y % d)
  BY <1>2, Divided
<1> HIDE DEF q
<1>6. d * q = y
  BY <1>4, <1>5
<1> QED
  BY <1>6 DEF q, y

LEMMA SharesOfLayers ==
  ASSUME NEW d \in Nat, NEW L \in Nat, d # 0,
         NEW n \in Nat, NEW e \in Nat, NEW q \in Nat, NEW kv \in Nat, NEW m \in Nat,
         NEW E \in Nat, NEW Q \in Nat, NEW K \in Nat, NEW M \in Nat,
         d * e = E, d * q = Q, d * kv = K, d * m = M
  PROVE  d * (2 * e + L * (2 * n + 2 * q + 2 * kv + 3 * m))
           = (2 * Q + 2 * K + 3 * M + 2 * n) * L + 2 * E + (d - 1) * (2 * (L * n))
<1> DEFINE x == 2 * n + 2 * q + 2 * kv + 3 * m
           y == 2 * Q + 2 * K + 3 * M
           u == d * n
           v == L * n
<1>1. x \in Nat /\ y \in Nat /\ u \in Nat /\ v \in Nat
  OBVIOUS
<1>2. d * x = 2 * u + y
  <2>1. d * x = 2 * (d * n) + 2 * (d * q) + 2 * (d * kv) + 3 * (d * m)
    OBVIOUS
  <2> QED
    BY <2>1
<1>3. (y + 2 * n) * L = y * L + 2 * v
  BY <1>1
<1>4. (d - 1) * (2 * v) = 2 * (d * v) - 2 * v
  BY <1>1
<1>5. d * v = L * u
  OBVIOUS
<1> HIDE DEF x, y, u, v
<1>6. d * (2 * e + L * x) = 2 * (d * e) + L * (d * x)
  BY <1>1
<1>7. L * (2 * u + y) = 2 * (L * u) + y * L
  BY <1>1
<1> DEFINE a == L * u
           b == y * L
<1>8. a \in Nat /\ b \in Nat
  BY <1>1
<1>9. d * (2 * e + L * x) = 2 * E + (2 * a + b)
  BY <1>2, <1>6, <1>7
<1>10. (y + 2 * n) * L + 2 * E + (d - 1) * (2 * v) = (b + 2 * v) + 2 * E + (2 * a - 2 * v)
  BY <1>3, <1>4, <1>5
<1> HIDE DEF a, b
<1>11. 2 * E + (2 * a + b) = (b + 2 * v) + 2 * E + (2 * a - 2 * v)
  BY <1>1, <1>8
<1>12. d * (2 * e + L * x) = (y + 2 * n) * L + 2 * E + (d - 1) * (2 * v)
  BY <1>9, <1>10, <1>11
<1> QED
  BY <1>12, Zenon DEF x, y, v

\* When every GPU gets as much of each tensor, they hold the model between them,
\* and the norms once each.
LEMMA WeightsOnAll ==
  ASSUME NEW c, ModelType(c), ValidModel(c),
         c.vocab % c.tp = 0, c.heads % c.tp = 0, c.mlp % c.tp = 0, c.kvHeads % c.tp = 0
  PROVE  c.tp * (2 * Embed(c).size + c.layers * LayerBytes(c))
           = TotalWeightBytes(c) + (c.tp - 1) * (2 * c.layers * c.hidden * c.dtype)
<1> DEFINE d == c.tp
           L == c.layers
           H == c.hidden
           D == c.dtype
           E == c.vocab * H * D
           Q == H * c.heads * c.headDim * D
           K == H * c.kvHeads * c.headDim * D
           M == H * c.mlp * D
           n == H * D
<1>1. /\ d \in Nat /\ d # 0 /\ L \in Nat /\ H \in Nat /\ D \in Nat /\ c.headDim \in Nat
      /\ c.vocab \in Nat /\ c.heads \in Nat /\ c.mlp \in Nat /\ c.kvHeads \in Nat
  BY SizesOf DEF ModelType
<1>2. E \in Nat /\ Q \in Nat /\ K \in Nat /\ M \in Nat /\ n \in Nat
  <2>1. \A i, j \in Nat : i * j \in Nat
    OBVIOUS
  <2> QED
    BY <1>1, <2>1, Zenon
<1>3. d * (E \div d) = E
  <2> DEFINE r == H * D
             x == c.vocab
  <2>1. E = x * r /\ r \in Nat /\ x \in Nat /\ x % d = 0 /\ d \in Nat /\ d # 0
    BY <1>1
  <2> HIDE DEF r, x, d, E
  <2>2. d * ((x * r) \div d) = x * r
    BY <2>1, ExactShare, Zenon
  <2> QED
    BY <2>1, <2>2
<1>4. d * (Q \div d) = Q
  <2> DEFINE r == H * c.headDim * D
             x == c.heads
  <2>1. Q = x * r /\ r \in Nat /\ x \in Nat /\ x % d = 0 /\ d \in Nat /\ d # 0
    BY <1>1
  <2> HIDE DEF r, x, d, Q
  <2>2. d * ((x * r) \div d) = x * r
    BY <2>1, ExactShare, Zenon
  <2> QED
    BY <2>1, <2>2
<1>5. d * (K \div d) = K
  <2> DEFINE r == H * c.headDim * D
             x == c.kvHeads
  <2>1. K = x * r /\ r \in Nat /\ x \in Nat /\ x % d = 0 /\ d \in Nat /\ d # 0
    BY <1>1
  <2> HIDE DEF r, x, d, K
  <2>2. d * ((x * r) \div d) = x * r
    BY <2>1, ExactShare, Zenon
  <2> QED
    BY <2>1, <2>2
<1>6. d * (M \div d) = M
  <2> DEFINE r == H * D
             x == c.mlp
  <2>1. M = x * r /\ r \in Nat /\ x \in Nat /\ x % d = 0 /\ d \in Nat /\ d # 0
    BY <1>1
  <2> HIDE DEF r, x, d, M
  <2>2. d * ((x * r) \div d) = x * r
    BY <2>1, ExactShare, Zenon
  <2> QED
    BY <2>1, <2>2
<1> DEFINE e == Embed(c).size
           q == QoBytes(c)
           kv == KvBytes(c)
           m == MlpBytes(c)
<1>7. /\ e = E \div d /\ q = Q \div d /\ kv = K \div d /\ m = M \div d
      /\ NormBytes(c) = n
  BY DEF Embed, InHbf, QoBytes, KvBytes, MlpBytes, NormBytes
<1>8. e \in Nat /\ q \in Nat /\ kv \in Nat /\ m \in Nat
  BY BytesOf
<1>9. LayerBytes(c) = 2 * n + 2 * q + 2 * kv + 3 * m
  BY <1>7 DEF LayerBytes
<1>10. TotalWeightBytes(c) = (2 * Q + 2 * K + 3 * M + 2 * n) * L + 2 * E
  <2> DEFINE a == H * c.heads * c.headDim
             b == H * c.kvHeads * c.headDim
             g == H * c.mlp
  <2>1. TotalWeightBytes(c) = ((2 * a + 2 * b + 3 * c.hidden * c.mlp + 2 * H) * D) * L
                                + 2 * c.vocab * H * D
    BY DEF TotalWeightBytes, WeightBytesPerLayer, EmbeddingBytes
  <2>2. a \in Nat /\ b \in Nat /\ g \in Nat
    BY <1>1
  <2>3. Q = a * D /\ K = b * D /\ M = g * D
    OBVIOUS
  <2>4. 3 * c.hidden * c.mlp = 3 * g /\ 2 * c.vocab * H * D = 2 * E
    BY <1>1
  <2> HIDE DEF a, b, g, Q, K, M, E, n
  <2>5. (2 * a + 2 * b + 3 * g + 2 * H) * D
          = 2 * (a * D) + 2 * (b * D) + 3 * (g * D) + 2 * (H * D)
    BY <1>1, <2>2
  <2> QED
    BY <2>1, <2>3, <2>4, <2>5 DEF n
<1>11. 2 * c.layers * c.hidden * c.dtype = 2 * (L * n)
  BY <1>1
<1> HIDE DEF E, Q, K, M, n, e, q, kv, m, d, L
<1>12. d * e = E /\ d * q = Q /\ d * kv = K /\ d * m = M
  BY <1>3, <1>4, <1>5, <1>6, <1>7
<1>13. d * (2 * e + L * (2 * n + 2 * q + 2 * kv + 3 * m))
          = (2 * Q + 2 * K + 3 * M + 2 * n) * L + 2 * E + (d - 1) * (2 * (L * n))
  BY <1>1, <1>2, <1>8, <1>12, SharesOfLayers
<1>14. d * (2 * e + L * LayerBytes(c)) = TotalWeightBytes(c) + (d - 1) * (2 * (L * n))
  BY <1>9, <1>10, <1>13
<1> QED
  BY <1>11, <1>14 DEF d, e, L

\* The slices of the KV cache make up the whole when they are equal.
LEMMA KvOnAll ==
  ASSUME NEW c, ModelType(c), ValidModel(c)
  PROVE  /\ SharedKvBytes(c) % c.layers = 0 =>
              c.layers * SharedSlice(c).size = SharedKvBytes(c)
         /\ GeneratedKvBytes(c) % c.layers = 0 =>
              c.layers * GeneratedSlice(c).size = GeneratedKvBytes(c)
<1>1. c.layers \in Nat /\ c.layers # 0 /\ c.gpus \in Nat /\ c.gpus # 0
  BY SizesOf DEF ModelType, ValidModel
<1>2. SharedSlice(c).size = SharedKvBytes(c) \div c.layers
      /\ GeneratedSlice(c).size = GeneratedKvBytes(c) \div c.layers
  BY DEF SharedSlice, GeneratedSlice, InHbf, InHbm
<1>3. \A x \in Nat : x % c.layers = 0 => c.layers * (x \div c.layers) = x
  <2> SUFFICES ASSUME NEW x \in Nat, x % c.layers = 0 PROVE c.layers * (x \div c.layers) = x
    OBVIOUS
  <2> DEFINE m == 1
  <2>1. x * m = x /\ m \in Nat
    OBVIOUS
  <2> HIDE DEF m
  <2>2. c.layers * ((x * m) \div c.layers) = x * m
    BY <1>1, <2>1, ExactShare
  <2> QED
    BY <2>1, <2>2
<1>4. SharedKvBytes(c) \in Nat /\ GeneratedKvBytes(c) \in Nat
  <2>1. KvBytesPerToken(c) \in Nat
    BY DEF ModelType, KvBytesPerToken
  <2>2. GeneratedTokens(c) \in Nat
    BY DEF ModelType, GeneratedTokens
  <2>3. SharedTokens(c) \in Nat
    BY <2>2 DEF ModelType, SharedTokens
  <2> DEFINE x == KvBytesPerToken(c) * SharedTokens(c)
             y == KvBytesPerToken(c) * GeneratedTokens(c)
  <2>4. x \in Nat /\ y \in Nat
    BY <2>1, <2>2, <2>3
  <2>5. SharedKvBytes(c) = x \div c.gpus /\ GeneratedKvBytes(c) = y \div c.gpus
    BY DEF SharedKvBytes, GeneratedKvBytes
  <2> HIDE DEF x, y
  <2>6. x \div c.gpus \in Nat /\ y \div c.gpus \in Nat
    BY <1>1, <2>4, Divided, Zenon
  <2> QED
    BY <2>5, <2>6, Zenon
<1> QED
  BY <1>2, <1>3, <1>4

\* What is aligned stays where it is.
LEMMA AlignedStays ==
  ASSUME NEW c, c.align \in Nat, c.align # 0, NEW v \in Nat, v % c.align = 0
  PROVE  AlignUp(c, v) = v
<1> DEFINE d == c.align
           w == v + d - 1
           q == v \div d
           p == w \div d
           r == w % d
<1>1. d \in Nat /\ d # 0 /\ w \in Nat
  OBVIOUS
<1>2. q \in Nat /\ v = d * q
  <2>1. q \in Nat /\ v % d \in 0 .. d - 1 /\ v = d * q + (v % d)
    BY <1>1, Divided
  <2> HIDE DEF q
  <2> QED
    BY <1>1, <2>1
<1>3. p \in Nat /\ r \in 0 .. d - 1 /\ w = d * p + r
  BY <1>1, Divided
<1>4. AlignUp(c, v) = p * d
  BY DEF AlignUp
<1>5. w = v + d - 1
  OBVIOUS
<1> HIDE DEF d, w, p, q, r
<1>6. ASSUME p < q PROVE FALSE
  <2>1. PICK e \in Nat : q = p + 1 + e
    <3>1. q - p - 1 \in Nat /\ q = p + 1 + (q - p - 1)
      BY <1>2, <1>3, <1>6
    <3> QED
      BY <3>1
  <2>2. d * q = d * p + d + d * e /\ d * e \in Nat /\ d * p \in Nat
    BY <1>1, <1>3, <2>1
  <2> QED
    BY <1>1, <1>2, <1>3, <1>5, <2>2
<1>7. ASSUME q < p PROVE FALSE
  <2>1. PICK e \in Nat : p = q + 1 + e
    <3>1. p - q - 1 \in Nat /\ p = q + 1 + (p - q - 1)
      BY <1>2, <1>3, <1>7
    <3> QED
      BY <3>1
  <2>2. d * p = d * q + d + d * e /\ d * e \in Nat /\ d * q \in Nat
    BY <1>1, <1>2, <2>1
  <2> QED
    BY <1>1, <1>2, <1>3, <1>5, <2>2
<1>8. p = q
  BY <1>2, <1>3, <1>6, <1>7
<1>9. p * d = v
  BY <1>1, <1>2, <1>8
<1> QED
  BY <1>4, <1>9

\* A tensor of the other memory does not move the cursor.
LEMMA CursorStays ==
  ASSUME NEW c, c.align \in Nat, c.align # 0, NEW shapes \in Seq(Shape), NEW region,
         NEW k \in 1 .. Len(shapes) - 1, shapes[k].region # region
  PROVE  CursorAt(c, shapes, region)[k + 1] = CursorAt(c, shapes, region)[k]
<1> DEFINE cur == CursorAt(c, shapes, region)
<1>1. shapes # <<>>
  OBVIOUS
<1>2. \A i \in 1 .. Len(shapes) - 1 :
        cur[i + 1] = IF shapes[i].region = region
                     THEN AlignUp(c, cur[i] + shapes[i].size) ELSE cur[i]
  BY <1>1, CursorOf
<1> HIDE DEF cur
<1>3. cur[k + 1] = cur[k]
  BY <1>2, Zenon
<1> QED
  BY <1>3, Zenon DEF cur

\* An empty tensor does not move the cursor.
After(c, v, size) ==
  IF size <= 0 THEN v ELSE ((v + size + c.align - 1) \div c.align) * c.align

LEMMA CursorAfter ==
  ASSUME NEW c, c.align \in Nat, c.align # 0, NEW shapes \in Seq(Shape), NEW region,
         NEW k \in 1 .. Len(shapes) - 1, shapes[k].region = region
  PROVE  CursorAt(c, shapes, region)[k + 1]
           = After(c, CursorAt(c, shapes, region)[k], shapes[k].size)
<1> DEFINE n == Len(shapes)
           cur == CursorAt(c, shapes, region)
           z == shapes[k].size
           u == cur[k]
<1>1. shapes # <<>> /\ n \in Nat /\ k \in 1 .. n
  OBVIOUS
<1>2. cur \in [1 .. n -> Nat] /\ cur[k + 1] = AlignUp(c, u + z)
  BY <1>1, CursorOf
<1>3. u % c.align = 0
  BY <1>1, CursorGrows
<1>4. z \in Nat
  BY <1>1, ShapeAt
<1> HIDE DEF cur
<1>5. u \in Nat
  BY <1>1, <1>2
<1> HIDE DEF u, z
<1>6. CASE z = 0
  <2>1. u + z = u /\ z <= 0
    BY <1>5, <1>6
  <2> QED
    BY <1>2, <1>3, <1>5, <2>1, AlignedStays DEF After, cur, u, z
<1>7. CASE z # 0
  <2>1. ~ (z <= 0)
    BY <1>4, <1>7
  <2> QED
    BY <1>2, <2>1 DEF After, AlignUp, cur, u, z
<1> QED
  BY <1>6, <1>7

\* The tensors of HBF are laid out from its start, one after another.
LEMMA HbfCursor ==
  ASSUME NEW c, ModelType(c), ValidModel(c), NEW k \in 1 .. 10 * c.layers + 2
  PROVE  CursorAt(c, Shapes(c), "Hbf")[k]
           = IF k = 1 THEN 0
             ELSE After(c, CursorAt(c, Shapes(c), "Hbf")[k - 1], Shapes(c)[k - 1].size)
<1>1. c.layers \in Nat /\ c.align \in Nat /\ c.align # 0
  BY SizesOf DEF ModelType
<1>2. Shapes(c) \in Seq(Shape) /\ Shapes(c) # <<>> /\ Len(Shapes(c)) = 11 * c.layers + 3
  BY ShapesAre, ShapesOf
<1>3. CASE k = 1
  BY <1>1, <1>2, <1>3, CursorOf
<1>4. CASE k # 1
  <2> DEFINE j == k - 1
  <2>1. /\ j \in 1 .. 11 * c.layers + 3 /\ j \in 1 .. (11 * c.layers + 3) - 1
        /\ j <= 10 * c.layers + 2 /\ j + 1 = k
    BY <1>1, <1>4
  <2> HIDE DEF j
  <2>2. Shapes(c)[j].region = "Hbf"
    BY <2>1, ShapeRegions
  <2> DEFINE shapes == Shapes(c)
  <2>3. /\ shapes \in Seq(Shape) /\ j \in 1 .. Len(shapes) - 1
        /\ shapes[j].region = "Hbf"
    BY <1>2, <2>1, <2>2
  <2> HIDE DEF shapes
  <2>4. CursorAt(c, shapes, "Hbf")[j + 1]
          = After(c, CursorAt(c, shapes, "Hbf")[j], shapes[j].size)
    BY <1>1, <2>3, CursorAfter
  <2> QED
    BY <1>4, <2>1, <2>4 DEF j, shapes
<1> QED
  BY <1>3, <1>4

\* So are those of HBM.
LEMMA HbmCursor ==
  ASSUME NEW c, ModelType(c), ValidModel(c), NEW m \in 1 .. c.layers + 1,
         NEW k, k = 10 * c.layers + 2 + m
  PROVE  CursorAt(c, Shapes(c), "Hbm")[k]
           = IF m = 1 THEN 0
             ELSE After(c, CursorAt(c, Shapes(c), "Hbm")[k - 1], Shapes(c)[k - 1].size)
<1> DEFINE L == c.layers
           N == 11 * L + 3
           shapes == Shapes(c)
           cur == CursorAt(c, shapes, "Hbm")
<1>1. L \in Nat /\ c.align \in Nat /\ c.align # 0 /\ N \in Nat
  BY SizesOf DEF ModelType
<1>2. shapes \in Seq(Shape) /\ shapes # <<>> /\ Len(shapes) = N
  BY ShapesAre, ShapesOf
<1>3. \A i \in 1 .. N : shapes[i].region = IF i <= 10 * L + 2 THEN "Hbf" ELSE "Hbm"
  BY ShapeRegions
<1> HIDE DEF shapes
<1>4. cur[1] = 0
  BY <1>1, <1>2, CursorOf
<1>5. CASE m = 1
  <2> DEFINE D == 10 * L + 2
             T == {j \in 0 .. D : cur[j + 1] # 0}
  <2>1. D \in Nat /\ cur[1] = 0 /\ 0 + 1 = 1
    BY <1>1, <1>4
  <2>2. ASSUME NEW j \in 1 .. D PROVE cur[j + 1] = cur[j]
    <3>1. j \in 1 .. N /\ j \in 1 .. N - 1 /\ j <= 10 * L + 2
      BY <1>1
    <3>2. shapes[j].region # "Hbm" /\ j \in 1 .. Len(shapes) - 1
      BY <1>2, <1>3, <3>1
    <3>3. c.align \in Nat /\ c.align # 0 /\ shapes \in Seq(Shape)
      BY <1>1, <1>2
    <3> HIDE DEF L, N, D
    <3> QED
      BY <3>2, <3>3, CursorStays
  <2> HIDE DEF cur, D
  <2>3. T \in SUBSET (0 .. D) /\ 0 \notin T
    BY <2>1
  <2>4. ASSUME NEW j \in 1 .. D, j - 1 \notin T PROVE j \notin T
    <3>1. j - 1 \in 0 .. D /\ (j - 1) + 1 = j
      BY <2>1
    <3> QED
      BY <2>2, <2>4, <3>1
  <2>5. T = {}
    <3> HIDE DEF T
    <3> QED
      BY <2>1, <2>3, <2>4, NoFailure
  <2>6. D \in 0 .. D
    BY <2>1
  <2>7. cur[D + 1] = 0
    BY <2>5, <2>6
  <2> QED
    BY <1>5, <2>7 DEF cur, D, shapes
<1>6. CASE m # 1
  <2> DEFINE j == k - 1
  <2>1. j \in 1 .. N /\ j \in 1 .. N - 1 /\ ~ (j <= 10 * L + 2) /\ j + 1 = k
    BY <1>1, <1>6
  <2> HIDE DEF j
  <2>2. shapes[j].region = "Hbm" /\ j \in 1 .. Len(shapes) - 1
    BY <1>2, <1>3, <2>1
  <2>3. cur[j + 1] = After(c, cur[j], shapes[j].size)
    BY <1>1, <1>2, <2>2, CursorAfter
  <2> QED
    BY <1>6, <2>1, <2>3 DEF j, shapes
<1> QED
  BY <1>5, <1>6

\* Where build_schedule() puts a tensor.
LEMMA TensorNo ==
  ASSUME NEW c, ModelType(c), ValidModel(c)
  PROVE  /\ DOMAIN Tensors(c) = 1 .. 11 * c.layers + 3
         /\ \A k \in 1 .. 11 * c.layers + 3 :
              LET region == IF k <= 10 * c.layers + 2 THEN "Hbf" ELSE "Hbm"
              IN  /\ Tensors(c)[k].region = region
                  /\ Tensors(c)[k].size = Shapes(c)[k].size
                  /\ Tensors(c)[k].global = Base(c, region) + CursorAt(c, Shapes(c), region)[k]
<1> DEFINE N == 11 * c.layers + 3
<1>1. N \in Nat
  BY DEF ModelType
<1>2. DOMAIN Shapes(c) = 1 .. N
  BY <1>1, ShapesAre
<1>3. DOMAIN Tensors(c) = 1 .. N
  BY <1>2 DEF Tensors
<1>4. ASSUME NEW k \in 1 .. N
      PROVE  LET region == IF k <= 10 * c.layers + 2 THEN "Hbf" ELSE "Hbm"
             IN  /\ Tensors(c)[k].region = region
                 /\ Tensors(c)[k].size = Shapes(c)[k].size
                 /\ Tensors(c)[k].global = Base(c, region) + CursorAt(c, Shapes(c), region)[k]
  <2>1. k \in DOMAIN Shapes(c)
    BY <1>2
  <2>2. /\ Tensors(c)[k].region = Shapes(c)[k].region
        /\ Tensors(c)[k].size = Shapes(c)[k].size
        /\ Tensors(c)[k].global = (IF Shapes(c)[k].region = "Hbf" THEN c.hbfBase ELSE c.hbmBase)
             + IF Shapes(c)[k].region = "Hbf" THEN CursorAt(c, Shapes(c), "Hbf")[k]
               ELSE CursorAt(c, Shapes(c), "Hbm")[k]
    BY <2>1 DEF Tensors
  <2>3. Shapes(c)[k].region = IF k <= 10 * c.layers + 2 THEN "Hbf" ELSE "Hbm"
    BY ShapeRegions
  <2>4. CASE k <= 10 * c.layers + 2
    BY <2>2, <2>3, <2>4 DEF Base
  <2>5. CASE ~ (k <= 10 * c.layers + 2)
    BY <2>2, <2>3, <2>5 DEF Base
  <2> QED
    BY <2>4, <2>5
<1> QED
  BY <1>3, <1>4
=============================================================================
