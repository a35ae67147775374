--------------------------- MODULE ShuffleProofs ---------------------------
(***************************************************************************)
(* SHUFFLE only ever reorders its array, for every length of it.           *)
(***************************************************************************)
EXTENDS Shuffle, FiniteSetTheorems, WellFoundedInduction, TLAPS

Arrays == [1..N -> 1..N]

Distinct(a) == \A p, q \in 1..N : a[p] = a[q] => p = q

\* Where a swap of p and q takes the element of position r from.
Source(p, q, r) == IF r = p THEN q ELSE IF r = q THEN p ELSE r

LEMMA SwapFacts ==
  ASSUME NEW a \in Arrays, NEW p \in 1..N, NEW q \in 1..N
  PROVE  swap(a, p, q) \in Arrays
BY DEF swap, Arrays

LEMMA SwapAt ==
  ASSUME NEW a \in Arrays, NEW x \in 1..N, NEW y \in 1..N, NEW r \in 1..N
  PROVE  Source(x, y, r) \in 1..N /\ swap(a, x, y)[r] = a[Source(x, y, r)]
<1>1. CASE r = x
  BY <1>1 DEF swap, Source, Arrays
<1>2. CASE r # x
  BY <1>2 DEF swap, Source, Arrays
<1> QED BY <1>1, <1>2

\* A swap of two positions keeps an array that has every test once as it is.
LEMMA SwapKeepsDistinct ==
  ASSUME NEW a \in Arrays, Distinct(a), NEW p \in 1..N, NEW q \in 1..N
  PROVE  Distinct(swap(a, p, q))
<1> SUFFICES ASSUME NEW r \in 1..N, NEW t \in 1..N, swap(a, p, q)[r] = swap(a, p, q)[t]
             PROVE  r = t
  BY DEF Distinct
<1>1. /\ Source(p, q, r) \in 1..N /\ swap(a, p, q)[r] = a[Source(p, q, r)]
      /\ Source(p, q, t) \in 1..N /\ swap(a, p, q)[t] = a[Source(p, q, t)]
  BY SwapAt
<1>2. Source(p, q, r) = Source(p, q, t)
  BY <1>1 DEF Distinct
<1> QED BY <1>2 DEF Source

\* The element numbers and the position stay in range (TypeOK).
THEOREM ShuffleTypeCorrect == Spec => []TypeOK
<1>1. Init => TypeOK
  BY NAssumption DEF Init, TypeOK
<1>2. TypeOK /\ [Next]_vars => TypeOK'
  <2> SUFFICES ASSUME TypeOK, [Next]_vars PROVE TypeOK'
    OBVIOUS
  <2>1. CASE Step
    <3>1. PICK n \in 1..i : arr' = swap(arr, i, n)
      BY <2>1 DEF Step, Choices
    <3>2. i \in 1..N /\ n \in 1..N /\ i' \in 0..N
      BY <2>1, <3>1, NAssumption DEF Step, TypeOK
    <3>3. arr' \in [1..N -> 1..N]
      BY <3>1, <3>2, SwapFacts DEF TypeOK, Arrays
    <3> QED BY <3>2, <3>3 DEF TypeOK
  <2>2. CASE Done \/ UNCHANGED vars
    BY <2>2 DEF Done, vars, TypeOK
  <2> QED BY <2>1, <2>2 DEF Next
<1> QED BY <1>1, <1>2, PTL DEF Spec

\* Whatever rand() returns, the array holds every test exactly once
\* (EveryTestOnce): no test of a round is dropped or run twice.
THEOREM ShuffleKeepsTests == Spec => []EveryTestOnce
<1>1. Init => EveryTestOnce
  BY DEF Init, EveryTestOnce
<1>2. TypeOK /\ EveryTestOnce /\ [Next]_vars => EveryTestOnce'
  <2> SUFFICES ASSUME TypeOK, EveryTestOnce, [Next]_vars PROVE EveryTestOnce'
    OBVIOUS
  <2>1. CASE Step
    <3>1. PICK n \in 1..i : arr' = swap(arr, i, n)
      BY <2>1 DEF Step, Choices
    <3>2. i \in 1..N /\ n \in 1..N /\ arr \in Arrays
      BY <2>1, <3>1, NAssumption DEF Step, TypeOK, Arrays
    <3>3. \A p, q \in 1..N : arr'[p] = arr'[q] => p = q
      <4>1. Distinct(arr)
        BY DEF EveryTestOnce, Distinct
      <4>2. Distinct(arr')
        BY <3>1, <3>2, <4>1, SwapKeepsDistinct
      <4> QED BY <4>2 DEF Distinct
    <3>4. ASSUME NEW test \in 1..N
          PROVE  \E p \in 1..N : arr'[p] = test
      <4>1. PICK p \in 1..N : arr[p] = test
        BY DEF EveryTestOnce
      <4> DEFINE r == Source(i, n, p)
      <4>2. r \in 1..N
        BY <3>2, SwapAt
      <4>3. Source(i, n, r) = p
        BY DEF Source
      <4> HIDE DEF r
      <4>4. swap(arr, i, n)[r] = arr[Source(i, n, r)]
        BY ONLY <3>2, <4>2, SwapAt
      <4> QED BY <3>1, <4>1, <4>2, <4>3, <4>4
    <3> QED BY <3>3, <3>4 DEF EveryTestOnce
  <2>2. CASE Done \/ UNCHANGED vars
    BY <2>2 DEF Done, vars, EveryTestOnce
  <2> QED BY <2>1, <2>2 DEF Next
<1> QED BY <1>1, <1>2, ShuffleTypeCorrect, PTL DEF Spec

\* A position the loop has gone past keeps its test (SettledStays).
THEOREM SettledPositionsStay == Spec => SettledStays
<1>1. TypeOK /\ [Next]_vars => [\A p \in 1..N : p > i => arr'[p] = arr[p]]_vars
  <2> SUFFICES ASSUME TypeOK, [Next]_vars, NEW p \in 1..N, p > i
               PROVE  arr'[p] = arr[p]
    OBVIOUS
  <2>1. CASE Step
    <3>1. PICK n \in 1..i : arr' = swap(arr, i, n)
      BY <2>1 DEF Step, Choices
    <3>2. i \in 1..N /\ n \in 1..N /\ p # i /\ p # n
      <4>1. i \in 0..N /\ i > 0
        BY <2>1 DEF Step, TypeOK
      <4> QED BY <3>1, <4>1, NAssumption
    <3>3. arr \in Arrays
      BY DEF TypeOK, Arrays
    <3>4. swap(arr, i, n)[p] = arr[p]
      BY <3>2, <3>3 DEF swap, Arrays
    <3> QED BY <3>1, <3>4
  <2>2. CASE Done \/ UNCHANGED vars
    BY <2>2 DEF Done, vars
  <2> QED BY <2>1, <2>2 DEF Next
<1> QED BY <1>1, ShuffleTypeCorrect, PTL DEF Spec, SettledStays

---------------------------------------------------------------------------
(* Induction. *)

Less == {p \in Nat \X Nat : p[1] < p[2]}

LEMMA LeastNumber ==
  ASSUME NEW T \in SUBSET Nat, T # {}
  PROVE  \E n \in T : \A m \in T : n <= m
<1>1. IsWellFoundedOn(Less, Nat)
  BY NatLessThanWellFounded DEF OpToRel, Less
<1>2. PICK n \in T : \A m \in T : <<m, n>> \notin Less
  BY <1>1, WFMin
<1>3. ASSUME NEW m \in T
      PROVE  n <= m
  <2>1. <<m, n>> \in Nat \X Nat /\ <<m, n>>[1] = m /\ <<m, n>>[2] = n
    OBVIOUS
  <2>2. ~(m < n)
    BY <1>2, <2>1 DEF Less
  <2> QED BY <2>2
<1> QED BY <1>3

\* Induction up to a bound, for a set of numbers in place of a predicate.
LEMMA Induction ==
  ASSUME NEW m \in Nat, NEW S, 0 \in S, \A n \in 1..m : n - 1 \in S => n \in S
  PROVE  0..m \subseteq S
<1> DEFINE T == (0..m) \ S
<1> SUFFICES ASSUME T # {}
             PROVE  FALSE
  OBVIOUS
<1>1. T \in SUBSET Nat
  OBVIOUS
<1>2. PICK n \in T : \A k \in T : n <= k
  <2> HIDE DEF T
  <2> QED BY <1>1, LeastNumber
<1>3. n \in 1..m /\ n - 1 \in 0..m /\ n - 1 \in S
  BY <1>2
<1> QED BY <1>2, <1>3

---------------------------------------------------------------------------
(* The orders the loop can make. *)

\* What k iterations can make, given what k - 1 can.
More(f, k) == [a \in Arrays |-> UNION {f[swap(a, k, n)] : n \in Choices(k)}]

IsOrders(f, m) ==
    f = [k \in 0..m |-> IF k = 0 THEN [a \in Arrays |-> {a}] ELSE More(f[k - 1], k)]

LEMMA OrdersIsChosen == Orders = CHOOSE f : IsOrders(f, N)
<1> DEFINE Body(f, k) == [a \in [1..N -> 1..N] |->
                IF k = 0 THEN {a} ELSE UNION {f[k - 1][swap(a, k, n)] : n \in Choices(k)}]
<1>1. Orders = CHOOSE f : f = [k \in 0..N |-> Body(f, k)]
  BY DEF Orders
<1>2. ASSUME NEW f
      PROVE  (f = [k \in 0..N |-> Body(f, k)]) <=> IsOrders(f, N)
  BY DEF IsOrders, More, Arrays
<1> HIDE DEF Body
<1> QED BY <1>1, <1>2

LEMMA OrdersExists ==
  ASSUME NEW m \in Nat
  PROVE  \E f : IsOrders(f, m)
<1> DEFINE S == {n \in 0..m : \E f : IsOrders(f, n)}
<1>1. 0 \in S
  <2> DEFINE f == [k \in 0..0 |-> [a \in Arrays |-> {a}]]
  <2>1. IsOrders(f, 0)
    BY DEF IsOrders
  <2> QED BY <2>1
<1>2. ASSUME NEW n \in 1..m, n - 1 \in S
      PROVE  n \in S
  <2>1. PICK f : IsOrders(f, n - 1)
    BY <1>2
  <2> DEFINE e == More(f[n - 1], n)
             g == [k \in 0..n |-> IF k = n THEN e ELSE f[k]]
  <2> HIDE DEF e
  <2>2. ASSUME NEW k \in 0..n
        PROVE  g[k] = IF k = 0 THEN [a \in Arrays |-> {a}] ELSE More(g[k - 1], k)
    <3>1. CASE k = n
      BY <3>1 DEF e
    <3>2. CASE k # n
      <4>1. k \in 0..(n - 1) /\ k - 1 # n
        BY <3>2
      <4>2. f[k] = IF k = 0 THEN [a \in Arrays |-> {a}] ELSE More(f[k - 1], k)
        BY <2>1, <4>1 DEF IsOrders
      <4>3. k # 0 => g[k - 1] = f[k - 1]
        BY <4>1
      <4> QED BY <3>2, <4>2, <4>3
    <3> QED BY <3>1, <3>2
  <2>3. IsOrders(g, n)
    BY <2>2 DEF IsOrders
  <2> QED BY <2>3
<1> QED
  <2> HIDE DEF S
  <2>1. 0..m \subseteq S
    BY <1>1, <1>2, Induction
  <2> USE DEF S
  <2> QED BY <2>1

LEMMA OrdersFacts ==
  /\ \A a \in Arrays : Orders[0][a] = {a}
  /\ \A k \in 1..N, a \in Arrays :
       Orders[k][a] = UNION {Orders[k - 1][swap(a, k, n)] : n \in 1..k}
<1> DEFINE P(f) == IsOrders(f, N)
<1>1. \E f : P(f)
  BY OrdersExists, NAssumption
<1> HIDE DEF P
<1>2. P(CHOOSE f : P(f))
  BY <1>1
<1>3. IsOrders(Orders, N)
  BY <1>2, OrdersIsChosen DEF P
<1>4. ASSUME NEW k \in 0..N
      PROVE  Orders[k] = IF k = 0 THEN [a \in Arrays |-> {a}] ELSE More(Orders[k - 1], k)
  <2> DEFINE Value(j) == IF j = 0 THEN [a \in Arrays |-> {a}] ELSE More(Orders[j - 1], j)
  <2>1. Orders = [j \in 0..N |-> Value(j)]
    BY <1>3 DEF IsOrders
  <2> HIDE DEF Value
  <2>2. Orders[k] = Value(k)
    BY <2>1
  <2> QED BY <2>2 DEF Value
<1>5. ASSUME NEW a \in Arrays
      PROVE  Orders[0][a] = {a}
  <2>1. Orders[0] = [b \in Arrays |-> {b}]
    BY <1>4, NAssumption
  <2> QED BY <2>1
<1>6. ASSUME NEW k \in 1..N, NEW a \in Arrays
      PROVE  Orders[k][a] = UNION {Orders[k - 1][swap(a, k, n)] : n \in 1..k}
  <2>1. Orders[k] = More(Orders[k - 1], k)
    <3>1. k \in 0..N /\ k # 0
      BY NAssumption
    <3> QED BY <1>4, <3>1
  <2> QED BY <2>1 DEF More, Choices
<1> QED BY <1>5, <1>6

\* An order leaves the positions the loop has gone past as they are.
LEMMA OrdersSettled ==
  ASSUME NEW k \in 0..N, NEW a \in Arrays, NEW o \in Orders[k][a]
  PROVE  o \in Arrays /\ \A p \in 1..N : p > k => o[p] = a[p]
<1> DEFINE S == {j \in 0..N : \A b \in Arrays : \A q \in Orders[j][b] :
                    q \in Arrays /\ \A p \in 1..N : p > j => q[p] = b[p]}
<1>1. 0 \in S
  BY OrdersFacts, NAssumption
<1>2. ASSUME NEW j \in 1..N, j - 1 \in S
      PROVE  j \in S
  <2>1. ASSUME NEW b \in Arrays, NEW q \in Orders[j][b]
        PROVE  q \in Arrays /\ \A p \in 1..N : p > j => q[p] = b[p]
    <3>1. PICK n \in 1..j : q \in Orders[j - 1][swap(b, j, n)]
      BY OrdersFacts
    <3>2. n \in 1..N /\ swap(b, j, n) \in Arrays
      <4>1. n \in 1..N
        BY NAssumption
      <4> QED BY <4>1, SwapFacts
    <3>3. q \in Arrays /\ \A p \in 1..N : p > j - 1 => q[p] = swap(b, j, n)[p]
      BY <1>2, <3>1, <3>2
    <3>4. ASSUME NEW p \in 1..N, p > j
          PROVE  q[p] = b[p]
      <4>1. p # j /\ p # n /\ p > j - 1
        BY <3>4, NAssumption
      <4>2. swap(b, j, n)[p] = b[Source(j, n, p)]
        BY <3>2, SwapAt
      <4>3. Source(j, n, p) = p
        BY <4>1 DEF Source
      <4> QED BY <3>3, <4>1, <4>2, <4>3
    <3> QED BY <3>3, <3>4
  <2> QED BY <2>1, NAssumption
<1>3. k \in S
  <2> HIDE DEF S
  <2> QED BY <1>1, <1>2, Induction, NAssumption
<1> QED BY <1>3

---------------------------------------------------------------------------
(* The choices that lead to them. *)

\* What rand() can return in the last k iterations.
Sequences(k) == {c \in [1..k -> 1..N] : \A j \in 1..k : c[j] \in Choices(j)}

Shorter(c, k) == [j \in 1..(k - 1) |-> c[j]]

LEMMA SequenceFacts ==
  ASSUME NEW k \in 1..N
  PROVE  /\ \A c \in Sequences(k) :
              /\ Shorter(c, k) \in Sequences(k - 1) /\ c[k] \in 1..k
              /\ \A j \in 1..(k - 1) : c[j] = Shorter(c, k)[j]
         /\ \A c, d \in Sequences(k) :
              Shorter(c, k) = Shorter(d, k) /\ c[k] = d[k] => c = d
         /\ \A c \in Sequences(k - 1), n \in 1..k :
              \E d \in Sequences(k) : Shorter(d, k) = c /\ d[k] = n
<1>1. ASSUME NEW c \in Sequences(k)
      PROVE  /\ Shorter(c, k) \in Sequences(k - 1) /\ c[k] \in 1..k
             /\ \A j \in 1..(k - 1) : c[j] = Shorter(c, k)[j]
  BY NAssumption DEF Sequences, Shorter, Choices
<1>2. ASSUME NEW c \in Sequences(k), NEW d \in Sequences(k),
             Shorter(c, k) = Shorter(d, k), c[k] = d[k]
      PROVE  c = d
  <2>1. \A j \in 1..k : c[j] = d[j]
    <3>1. ASSUME NEW j \in 1..k
          PROVE  j = k \/ j \in 1..(k - 1)
      BY NAssumption
    <3> QED BY <1>1, <1>2, <3>1
  <2> QED BY <2>1 DEF Sequences
<1>3. ASSUME NEW c \in Sequences(k - 1), NEW n \in 1..k
      PROVE  \E d \in Sequences(k) : Shorter(d, k) = c /\ d[k] = n
  <2> DEFINE d == [j \in 1..k |-> IF j = k THEN n ELSE c[j]]
  <2>1. k \in 1..k /\ d[k] = n
    BY NAssumption
  <2>2. ASSUME NEW j \in 1..(k - 1)
        PROVE  j \in 1..k /\ d[j] = c[j]
    BY NAssumption
  <2>3. c \in [1..(k - 1) -> 1..N] /\ \A j \in 1..(k - 1) : c[j] \in 1..j
    BY DEF Sequences, Choices
  <2>4. ASSUME NEW j \in 1..k
        PROVE  d[j] \in 1..j /\ d[j] \in 1..N
    <3>1. j = k \/ j \in 1..(k - 1)
      BY NAssumption
    <3>2. n \in 1..N
      BY NAssumption
    <3> QED BY <2>1, <2>2, <2>3, <3>1, <3>2
  <2>5. d \in [1..k -> 1..N]
    BY <2>4
  <2> HIDE DEF d
  <2>6. d \in Sequences(k)
    BY <2>4, <2>5 DEF Sequences, Choices
  <2>7. Shorter(d, k) = c
    BY <2>2, <2>3 DEF Shorter
  <2> QED BY <2>1, <2>6, <2>7
<1> QED BY <1>1, <1>2, <1>3

LEMMA SequencesFinite ==
  ASSUME NEW k \in 0..N
  PROVE  IsFiniteSet(Sequences(k))
<1> DEFINE S == {j \in 0..N : IsFiniteSet(Sequences(j))}
<1>1. 0 \in S
  <2>1. 1..0 = {}
    OBVIOUS
  <2>2. \A c, d \in Sequences(0) : c = d
    BY <2>1 DEF Sequences
  <2>3. Sequences(0) = {} \/ \E c : Sequences(0) = {c}
    BY <2>2
  <2>4. IsFiniteSet(Sequences(0))
    <3>1. CASE Sequences(0) = {}
      BY <3>1, FS_EmptySet
    <3>2. ASSUME NEW c, Sequences(0) = {c}
          PROVE  IsFiniteSet(Sequences(0))
      BY <3>2, FS_Singleton
    <3> QED BY <2>3, <3>1, <3>2
  <2> QED BY <2>4, NAssumption
<1>2. ASSUME NEW j \in 1..N, j - 1 \in S
      PROVE  j \in S
  <2> DEFINE Pairs == Sequences(j - 1) \X (1..j)
             f == [c \in Sequences(j) |-> <<Shorter(c, j), c[j]>>]
  <2>1. IsFiniteSet(Pairs)
    <3>1. IsFiniteSet(1..j)
      BY FS_Interval, NAssumption
    <3> QED BY <1>2, <3>1, FS_Product
  <2>2. f \in [Sequences(j) -> Pairs]
    BY SequenceFacts
  <2>3. ASSUME NEW c \in Sequences(j), NEW d \in Sequences(j), f[c] = f[d]
        PROVE  c = d
    <3>1. Shorter(c, j) = Shorter(d, j) /\ c[j] = d[j]
      BY <2>3
    <3> QED BY <3>1, SequenceFacts
  <2>4. f \in Injection(Sequences(j), Pairs)
    <3> HIDE DEF f, Pairs
    <3> QED BY <2>2, <2>3 DEF Injection, IsInjective
  <2>5. IsFiniteSet(Sequences(j))
    <3> HIDE DEF f, Pairs
    <3> QED BY <2>1, <2>4, FS_Injection
  <2> QED BY <2>5, NAssumption
<1>3. k \in S
  <2> HIDE DEF S
  <2> QED BY <1>1, <1>2, Induction, NAssumption
<1> QED BY <1>3

\* One more iteration: what is chosen for position k is seen in the order, and
\* the orders of two choices are never the same.
LEMMA OneMoreChoice ==
  ASSUME NEW k \in 1..N, NEW a \in Arrays, Distinct(a),
         \A b \in Arrays : Distinct(b) => ExistsBijection(Sequences(k - 1), Orders[k - 1][b])
  PROVE  ExistsBijection(Sequences(k), Orders[k][a])
<1> DEFINE B(n) == Bijection(Sequences(k - 1), Orders[k - 1][swap(a, k, n)])
           g == [n \in 1..k |-> CHOOSE f : f \in B(n)]
           F == [c \in Sequences(k) |-> g[c[k]][Shorter(c, k)]]
<1>1. ASSUME NEW n \in 1..k
      PROVE  n \in 1..N /\ swap(a, k, n) \in Arrays /\ Distinct(swap(a, k, n))
             /\ swap(a, k, n)[k] = a[n]
  <2>1. n \in 1..N
    BY NAssumption
  <2>2. swap(a, k, n)[k] = a[n]
    BY <2>1, SwapAt DEF Source
  <2> QED BY <2>1, <2>2, SwapFacts, SwapKeepsDistinct
<1>2. ASSUME NEW n \in 1..k
      PROVE  g[n] \in B(n)
  <2>1. \E f : f \in B(n)
    BY <1>1 DEF ExistsBijection
  <2> QED BY <2>1
<1> HIDE DEF g
<1>3. ASSUME NEW n \in 1..k
      PROVE  /\ \A c \in Sequences(k - 1) : g[n][c] \in Orders[k - 1][swap(a, k, n)]
             /\ \A c, d \in Sequences(k - 1) : g[n][c] = g[n][d] => c = d
             /\ \A o \in Orders[k - 1][swap(a, k, n)] : \E c \in Sequences(k - 1) : g[n][c] = o
  BY <1>2 DEF Bijection, Injection, Surjection, IsInjective
<1>4. Orders[k][a] = UNION {Orders[k - 1][swap(a, k, n)] : n \in 1..k}
  BY OrdersFacts
<1>5. ASSUME NEW c \in Sequences(k)
      PROVE  /\ F[c] \in Orders[k - 1][swap(a, k, c[k])] /\ F[c] \in Orders[k][a]
             /\ F[c][k] = a[c[k]]
  <2>1. Shorter(c, k) \in Sequences(k - 1) /\ c[k] \in 1..k /\ F[c] = g[c[k]][Shorter(c, k)]
    BY SequenceFacts
  <2> HIDE DEF F
  <2>2. F[c] \in Orders[k - 1][swap(a, k, c[k])]
    BY <1>3, <2>1
  <2>3. F[c][k] = swap(a, k, c[k])[k]
    <3>1. k - 1 \in 0..N /\ k > k - 1
      BY NAssumption
    <3>2. swap(a, k, c[k]) \in Arrays
      BY <1>1, <2>1
    <3> QED BY <2>2, <3>1, <3>2, OrdersSettled
  <2> QED BY <1>1, <1>4, <2>1, <2>2, <2>3
<1>6. ASSUME NEW c \in Sequences(k), NEW d \in Sequences(k), F[c] = F[d]
      PROVE  c = d
  <2>1. /\ Shorter(c, k) \in Sequences(k - 1) /\ c[k] \in 1..k /\ F[c] = g[c[k]][Shorter(c, k)]
        /\ Shorter(d, k) \in Sequences(k - 1) /\ d[k] \in 1..k /\ F[d] = g[d[k]][Shorter(d, k)]
    BY SequenceFacts
  <2>2. F[c][k] = a[c[k]] /\ F[d][k] = a[d[k]]
    BY <1>5
  <2> HIDE DEF F
  <2>3. c[k] = d[k]
    <3>1. c[k] \in 1..N /\ d[k] \in 1..N
      BY <1>1, <2>1
    <3> QED BY <1>6, <2>2, <3>1 DEF Distinct
  <2>4. Shorter(c, k) = Shorter(d, k)
    <3>1. g[c[k]][Shorter(c, k)] = g[c[k]][Shorter(d, k)]
      BY <1>6, <2>1, <2>3
    <3> QED BY <1>3, <2>1, <3>1
  <2> QED BY <2>3, <2>4, SequenceFacts
<1>7. ASSUME NEW o \in Orders[k][a]
      PROVE  \E c \in Sequences(k) : F[c] = o
  <2>1. PICK n \in 1..k : o \in Orders[k - 1][swap(a, k, n)]
    BY <1>4
  <2>2. PICK e \in Sequences(k - 1) : g[n][e] = o
    BY <1>3, <2>1
  <2>3. PICK c \in Sequences(k) : Shorter(c, k) = e /\ c[k] = n
    BY SequenceFacts
  <2> QED BY <2>2, <2>3
<1>8. F \in [Sequences(k) -> Orders[k][a]]
  BY <1>5
<1> HIDE DEF F
<1>9. F \in Bijection(Sequences(k), Orders[k][a])
  BY <1>6, <1>7, <1>8 DEF Bijection, Injection, Surjection, IsInjective
<1> QED BY <1>9 DEF ExistsBijection

LEMMA AChoiceForEveryOrder ==
  ASSUME NEW k \in 0..N, NEW a \in Arrays, Distinct(a)
  PROVE  ExistsBijection(Sequences(k), Orders[k][a])
<1> DEFINE S == {j \in 0..N : \A b \in Arrays :
                    Distinct(b) => ExistsBijection(Sequences(j), Orders[j][b])}
<1>1. 0 \in S
  <2>1. ASSUME NEW b \in Arrays
        PROVE  ExistsBijection(Sequences(0), Orders[0][b])
    <3> DEFINE empty == [j \in 1..0 |-> 1]
               f == [c \in Sequences(0) |-> b]
    <3>1. 1..0 = {}
      OBVIOUS
    <3>2. \A c, d \in Sequences(0) : c = d
      BY <3>1 DEF Sequences
    <3>3. empty \in Sequences(0)
      BY <3>1 DEF Sequences
    <3>4. Orders[0][b] = {b}
      BY OrdersFacts
    <3>5. f \in Bijection(Sequences(0), {b})
      <4> HIDE DEF empty
      <4> QED BY <3>2, <3>3 DEF Bijection, Injection, Surjection, IsInjective
    <3> QED BY <3>4, <3>5 DEF ExistsBijection
  <2> QED BY <2>1, NAssumption
<1>2. ASSUME NEW j \in 1..N, j - 1 \in S
      PROVE  j \in S
  <2>1. \A b \in Arrays : Distinct(b) => ExistsBijection(Sequences(j), Orders[j][b])
    BY <1>2, OneMoreChoice
  <2> QED BY <2>1, NAssumption
<1>3. k \in S
  <2> HIDE DEF S
  <2> QED BY <1>1, <1>2, Induction, NAssumption
<1> QED BY <1>3

\* In every state of the loop, the choices rand() % i has left to make and the
\* orders they lead to are equally many (EveryOrderAsLikely): no two series of
\* choices meet in one order, so none of the orders is favoured.
THEOREM ShuffleFavoursNoOrder == Spec => []EveryOrderAsLikely
<1>1. TypeOK /\ EveryTestOnce => EveryOrderAsLikely
  <2> SUFFICES ASSUME TypeOK, EveryTestOnce
               PROVE  EveryOrderAsLikely
    OBVIOUS
  <2>1. arr \in Arrays /\ i \in 0..N /\ Distinct(arr)
    BY DEF TypeOK, EveryTestOnce, Arrays, Distinct
  <2>2. IsFiniteSet(Sequences(i)) /\ ExistsBijection(Sequences(i), Orders[i][arr])
    BY <2>1, SequencesFinite, AChoiceForEveryOrder
  <2>3. Cardinality(Orders[i][arr]) = Cardinality(Sequences(i))
    BY <2>2, FS_Bijection
  <2> QED BY <2>3 DEF EveryOrderAsLikely, Sequences
<1> QED BY <1>1, ShuffleTypeCorrect, ShuffleKeepsTests, PTL
=============================================================================
