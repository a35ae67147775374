--------------------------- MODULE JsonHeapProofs ---------------------------
(***************************************************************************)
(* What the operators of JsonTree do to a whole heap, for every number of  *)
(* items: the invariant that ties the links and the memory of the items to *)
(* the lists they stand for, and for each operator that it restores it.    *)
(***************************************************************************)
EXTENDS JsonTree, JsonListProofs

---------------------------------------------------------------------------
(* Loops: a recursive function over 0..m whose step is itself a function.  *)

IsLoop(f, m, first, step) ==
    /\ f = [n \in 0..m |-> f[n]]
    /\ f[0] = first
    /\ \A n \in 1..m : f[n] = step[n][f[n - 1]]

\* Such a function there is, for every first value and every step.
LEMMA LoopExists ==
  ASSUME NEW m \in Nat, NEW first, NEW step
  PROVE  \E f : IsLoop(f, m, first, step)
<1> DEFINE N == {k \in 0..m : \E f : IsLoop(f, k, first, step)}
<1>1. 0 \in N
  <2> DEFINE f == [n \in 0..0 |-> first]
  <2>1. f[0] = first /\ f = [n \in 0..0 |-> f[n]]
    OBVIOUS
  <2> HIDE DEF f
  <2>2. IsLoop(f, 0, first, step)
    BY <2>1 DEF IsLoop
  <2>3. 0 \in 0..m
    OBVIOUS
  <2> QED BY <2>2, <2>3
<1>2. ASSUME NEW k \in 1..m, k - 1 \in N
      PROVE  k \in N
  <2>1. PICK f : IsLoop(f, k - 1, first, step)
    BY <1>2
  <2> DEFINE v == [n \in 0..k |-> IF n = k THEN step[k][f[k - 1]] ELSE f[n]]
  <2>2. v[0] = first
    BY <2>1 DEF IsLoop
  <2>3. ASSUME NEW n \in 1..k
        PROVE  v[n] = step[n][v[n - 1]]
    <3>1. n - 1 \in 0..k /\ n - 1 # k /\ n \in 0..k
      OBVIOUS
    <3>2. v[n - 1] = f[n - 1]
      BY <3>1
    <3>3. CASE n = k
      BY <3>1, <3>2, <3>3
    <3>4. CASE n # k
      <4>1. n \in 1..(k - 1) /\ v[n] = f[n]
        BY <3>1, <3>4
      <4> HIDE DEF v
      <4> QED BY <2>1, <3>2, <4>1 DEF IsLoop
    <3> QED BY <3>3, <3>4
  <2>4. v = [n \in 0..k |-> v[n]]
    OBVIOUS
  <2> HIDE DEF v
  <2>5. IsLoop(v, k, first, step)
    BY <2>2, <2>3, <2>4 DEF IsLoop
  <2> QED BY <2>5
<1>3. m \in N
  <2>1. m \in 0..m
    OBVIOUS
  <2> HIDE DEF N
  <2> QED BY <1>1, <1>2, <2>1, Induction
<1> QED BY <1>3

---------------------------------------------------------------------------
(* What edges lead to. *)

IsStages(f, S, edges) ==
    f = [n \in 0..Count |-> IF n = 0 THEN S
                            ELSE LET T == f[n - 1] IN T \cup UNION {edges[i] : i \in T}]

\* What edges lead to in n steps: such a function there is.
LEMMA StagesExist ==
  ASSUME NEW S \in SUBSET Items, NEW edges \in [Items -> SUBSET Items]
  PROVE  \E f : IsStages(f, S, edges)
<1> DEFINE Further(T) == T \cup UNION {edges[i] : i \in T}
           step == [n \in 1..Count |-> [T \in SUBSET Items |-> Further(T)]]
<1>1. PICK f : IsLoop(f, Count, S, step)
  BY LoopExists, CountIsNat
<1>2. \A T \in SUBSET Items : Further(T) \in SUBSET Items
  OBVIOUS
<1> DEFINE N == {n \in 0..Count : f[n] \in SUBSET Items}
<1> HIDE DEF Further
<1>3. \A n \in 1..Count : f[n - 1] \in SUBSET Items => f[n] = Further(f[n - 1])
  BY <1>1 DEF IsLoop
<1>4. 0..Count \subseteq N
  <2>1. 0 \in N
    BY <1>1, CountIsNat DEF IsLoop
  <2>2. ASSUME NEW n \in 1..Count, n - 1 \in N
        PROVE  n \in N
    BY <1>2, <1>3, <2>2
  <2> HIDE DEF N
  <2> QED BY <2>1, <2>2, CountIsNat, Induction
<1>5. \A n \in 0..Count : f[n] = IF n = 0 THEN S ELSE Further(f[n - 1])
  <2> SUFFICES ASSUME NEW n \in 0..Count
               PROVE  f[n] = IF n = 0 THEN S ELSE Further(f[n - 1])
    OBVIOUS
  <2>1. n # 0 => n \in 1..Count /\ n - 1 \in 0..Count
    BY CountIsNat
  <2>2. f[0] = S
    BY <1>1 DEF IsLoop
  <2> QED BY <1>3, <1>4, <2>1, <2>2
<1>6. f = [n \in 0..Count |-> f[n]]
  BY <1>1 DEF IsLoop
<1>7. IsStages(f, S, edges)
  BY <1>5, <1>6 DEF IsStages, Further
<1> QED BY <1>7

\* Closure is the last of its stages.
LEMMA ClosureIsChosen ==
  ASSUME NEW S, NEW edges
  PROVE  Forest!Closure(S, edges) = (CHOOSE f : IsStages(f, S, edges))[Count]
<1>1. Forest!Cardinality(Items) = Cardinality(Items)
  BY DEF Forest!Cardinality, Cardinality, Forest!IsFiniteSet, IsFiniteSet
<1> QED BY <1>1 DEF Forest!Closure, IsStages, Count

\* The closure holds S and all it leads to, and nothing else.
LEMMA ClosureFacts ==
  ASSUME NEW S \in SUBSET Items, NEW edges \in [Items -> SUBSET Items]
  PROVE  /\ S \subseteq Forest!Closure(S, edges)
         /\ Forest!Closure(S, edges) \subseteq Items
         /\ \A i \in Forest!Closure(S, edges) : edges[i] \subseteq Forest!Closure(S, edges)
         /\ \A T \in SUBSET Items :
               S \subseteq T /\ (\A i \in T : edges[i] \subseteq T)
                 => Forest!Closure(S, edges) \subseteq T
<1>1. PICK f : IsStages(f, S, edges) /\ Forest!Closure(S, edges) = f[Count]
  <2> DEFINE P(f) == IsStages(f, S, edges)
  <2> HIDE DEF P
  <2>1. P(CHOOSE f : P(f))
    BY StagesExist DEF P
  <2>2. Forest!Closure(S, edges) = (CHOOSE f : P(f))[Count]
    BY ClosureIsChosen DEF P
  <2> QED BY <2>1, <2>2 DEF P
<1>2. f[0] = S /\ \A n \in 1..Count : f[n] = f[n - 1] \cup UNION {edges[i] : i \in f[n - 1]}
  <2>1. /\ f[0] = S
        /\ \A n \in 1..Count : f[n] = LET T == f[n - 1] IN T \cup UNION {edges[i] : i \in T}
    <3>1. f = [n \in 0..Count |-> IF n = 0 THEN S
                 ELSE LET T == f[n - 1] IN T \cup UNION {edges[i] : i \in T}]
      BY <1>1 DEF IsStages
    <3>2. 0 \in 0..Count /\ \A n \in 1..Count : n \in 0..Count /\ n # 0
      BY CountIsNat
    <3> QED BY ONLY <3>1, <3>2, Zenon
  <2> QED BY <2>1
<1>3. IsFiniteSet(Items) /\ Count \in Nat /\ 0..Count \subseteq Nat
  BY CountIsNat, ItemsAssumption
<1> DEFINE Closed(T) == \A i \in T : edges[i] \subseteq T
           Good == {n \in 0..Count :
                      /\ f[n] \in SUBSET Items /\ S \subseteq f[n]
                      /\ Closed(f[n]) \/ Cardinality(f[n]) >= n + 1}
<1>4. 0 \in Good
  <2>1. S = {} => Closed(S)
    OBVIOUS
  <2>2. S # {} => Cardinality(S) >= 1
    <3>1. IsFiniteSet(S) /\ Cardinality(S) \in Nat
      BY <1>3, FS_Subset, FS_CardinalityType
    <3> QED BY <3>1, FS_EmptySet
  <2> QED BY <1>2, <1>3, <2>1, <2>2
<1>5. ASSUME NEW n \in 1..Count, n - 1 \in Good
      PROVE  n \in Good
  <2> DEFINE T == f[n - 1]
             U == T \cup UNION {edges[i] : i \in T}
  <2>1. f[n] = U /\ T \in SUBSET Items /\ S \subseteq T /\ n \in 0..Count
        /\ (Closed(T) \/ Cardinality(T) >= n)
    BY <1>2, <1>3, <1>5
  <2>2. U \in SUBSET Items /\ T \subseteq U
    BY <2>1
  <2>3. Closed(T) => U = T
    OBVIOUS
  <2>4. ~Closed(T) => U # T
    OBVIOUS
  <2> HIDE DEF T
  <2>5. U # T => Cardinality(U) > Cardinality(T)
    <3>1. IsFiniteSet(U)
      BY <1>3, <2>2, FS_Subset
    <3>2. Cardinality(T) <= Cardinality(U) /\ (Cardinality(U) = Cardinality(T) => U = T)
          /\ IsFiniteSet(T)
      <4> HIDE DEF U
      <4> QED BY <2>2, <3>1, FS_Subset
    <3>3. Cardinality(U) \in Nat /\ Cardinality(T) \in Nat
      BY <3>1, <3>2, FS_CardinalityType
    <3> QED BY <3>2, <3>3
  <2>6. Cardinality(T) \in Nat /\ Cardinality(U) \in Nat
    BY <1>3, <2>1, <2>2, FS_Subset, FS_CardinalityType
  <2> HIDE DEF U
  <2>7. Closed(U) \/ Cardinality(U) >= n + 1
    <3>1. CASE Closed(T)
      BY <2>3, <3>1
    <3>2. CASE ~Closed(T)
      <4> HIDE DEF Closed
      <4> QED BY <2>1, <2>4, <2>5, <2>6, <3>2
    <3> QED BY <3>1, <3>2
  <2> QED BY <2>1, <2>2, <2>7
<1>6. Count \in Good
  <2>1. Count \in 0..Count
    BY <1>3
  <2> HIDE DEF Good
  <2> QED BY <1>3, <1>4, <1>5, <2>1, Induction
<1>7. f[Count] \in SUBSET Items /\ S \subseteq f[Count] /\ Closed(f[Count])
  <2>1. f[Count] \in SUBSET Items /\ S \subseteq f[Count]
    BY <1>6
  <2>2. Cardinality(f[Count]) <= Count
    BY <1>3, <2>1, FS_Subset DEF Count
  <2>3. Cardinality(f[Count]) \in Nat
    BY <1>3, <2>1, FS_Subset, FS_CardinalityType
  <2> QED BY <1>3, <1>6, <2>1, <2>2, <2>3
<1>8. ASSUME NEW T \in SUBSET Items, S \subseteq T, Closed(T)
      PROVE  f[Count] \subseteq T
  <2> DEFINE In == {n \in 0..Count : f[n] \subseteq T}
  <2>1. 0 \in In
    BY <1>2, <1>3, <1>8
  <2>2. ASSUME NEW n \in 1..Count, n - 1 \in In
        PROVE  n \in In
    BY <1>2, <1>3, <1>8, <2>2
  <2>3. Count \in In
    <3>1. Count \in 0..Count
      BY <1>3
    <3> HIDE DEF In
    <3> QED BY <1>3, <2>1, <2>2, <3>1, Induction
  <2> QED BY <2>3
<1> QED BY <1>1, <1>7, <1>8

---------------------------------------------------------------------------
(* Trees.  L gives each item the list of its members.                      *)

Edges(L) == [j \in Items |-> ToSet(L[j])]

\* The tree of an item.
Tree(L, i) == Forest!Closure({i}, Edges(L))

IsMember(L, i) == \E p \in Items : i \in ToSet(L[p])

Acyclic(L) ==
    \A S \in SUBSET Items : S # {} => \E i \in S : \A p \in S : i \notin ToSet(L[p])

\* A tree is the least set with its root and the members of all that is in it.
LEMMA TreeFacts ==
  ASSUME NEW L \in [Items -> Seq(Items)], NEW i \in Items
  PROVE  /\ i \in Tree(L, i) /\ Tree(L, i) \subseteq Items
         /\ \A p \in Tree(L, i) : ToSet(L[p]) \subseteq Tree(L, i)
         /\ \A T \in SUBSET Items :
               i \in T /\ (\A p \in T : ToSet(L[p]) \subseteq T) => Tree(L, i) \subseteq T
         /\ \A j \in Tree(L, i) : j # i => \E p \in Tree(L, i) : j \in ToSet(L[p])
<1>1. Edges(L) \in [Items -> SUBSET Items] /\ \A p \in Items : Edges(L)[p] = ToSet(L[p])
  <2>1. \A p \in Items : ToSet(L[p]) \subseteq Items
    BY DEF ToSet
  <2> QED BY <2>1 DEF Edges
<1>2. {i} \in SUBSET Items
  OBVIOUS
<1> DEFINE C == Tree(L, i)
<1>3. /\ i \in C /\ C \subseteq Items
      /\ \A p \in C : Edges(L)[p] \subseteq C
      /\ \A T \in SUBSET Items : i \in T /\ (\A p \in T : Edges(L)[p] \subseteq T) => C \subseteq T
  <2>1. /\ {i} \subseteq C /\ C \subseteq Items
        /\ \A p \in C : Edges(L)[p] \subseteq C
        /\ \A T \in SUBSET Items :
              {i} \subseteq T /\ (\A p \in T : Edges(L)[p] \subseteq T) => C \subseteq T
    BY <1>1, <1>2, ClosureFacts DEF Tree
  <2> HIDE DEF C
  <2> QED BY <2>1
<1> HIDE DEF C
<1>4. /\ \A p \in C : ToSet(L[p]) \subseteq C
      /\ \A T \in SUBSET Items : i \in T /\ (\A p \in T : ToSet(L[p]) \subseteq T) => C \subseteq T
  <2>1. \A T \in SUBSET Items : (\A p \in T : ToSet(L[p]) \subseteq T)
                                  => (\A p \in T : Edges(L)[p] \subseteq T)
    BY <1>1
  <2> QED BY <1>1, <1>3, <2>1, ZenonT(60)
<1>5. ASSUME NEW j \in C, j # i
      PROVE  \E p \in C : j \in ToSet(L[p])
  <2> SUFFICES ASSUME \A p \in C : j \notin ToSet(L[p])
               PROVE  FALSE
    OBVIOUS
  <2> DEFINE T == C \ {j}
  <2>1. T \in SUBSET Items /\ i \in T /\ \A p \in T : ToSet(L[p]) \subseteq T
    BY <1>3, <1>4, <1>5
  <2>2. C \subseteq T
    <3> HIDE DEF T
    <3> QED BY <1>4, <2>1
  <2> QED BY <2>2
<1> QED BY <1>3, <1>4, <1>5 DEF C

\* A tree is what it was when the lists of its items are.
LEMMA TreeIsKept ==
  ASSUME NEW L \in [Items -> Seq(Items)], NEW M \in [Items -> Seq(Items)], NEW i \in Items,
         \A p \in Tree(L, i) : M[p] = L[p]
  PROVE  Tree(M, i) = Tree(L, i)
<1>1. Tree(M, i) \subseteq Tree(L, i)
  <2>1. /\ Tree(L, i) \in SUBSET Items /\ i \in Tree(L, i)
        /\ \A p \in Tree(L, i) : ToSet(M[p]) \subseteq Tree(L, i)
    BY TreeFacts
  <2> QED BY <2>1, TreeFacts
<1>2. Tree(L, i) \subseteq Tree(M, i)
  <2>1. /\ Tree(M, i) \in SUBSET Items /\ i \in Tree(M, i)
        /\ \A p \in Tree(M, i) : ToSet(M[p]) \subseteq Tree(M, i)
    BY TreeFacts
  <2>2. \A p \in Tree(M, i) : ToSet(L[p]) \subseteq Tree(M, i)
    BY <1>1, <2>1
  <2> QED BY <2>1, <2>2, TreeFacts
<1> QED BY <1>1, <1>2

\* The members of a list with one more.
LEMMA AppendMembers ==
  ASSUME NEW s \in Seq(Items), NEW item \in Items
  PROVE  ToSet(Append(s, item)) = ToSet(s) \cup {item}
<1>1. \A i : i \in ToSet(Append(s, item)) <=> \E k \in 1..Len(Append(s, item)) : Append(s, item)[k] = i
  BY AppendFacts, MemberFacts
<1>2. \A i : i \in ToSet(s) <=> \E k \in 1..Len(s) : s[k] = i
  BY MemberFacts
<1>3. Len(s) \in Nat /\ Len(Append(s, item)) = Len(s) + 1
      /\ \A k \in 1..(Len(s) + 1) : Append(s, item)[k] = IF k = Len(s) + 1 THEN item ELSE s[k]
  OBVIOUS
<1>4. ASSUME NEW i, i \in ToSet(Append(s, item))
      PROVE  i \in ToSet(s) \cup {item}
  <2>1. PICK k \in 1..(Len(s) + 1) : Append(s, item)[k] = i
    BY <1>1, <1>3, <1>4
  <2>2. k = Len(s) + 1 \/ k \in 1..Len(s)
    BY <1>3
  <2> QED BY <1>2, <1>3, <2>1, <2>2
<1>5. ASSUME NEW i, i \in ToSet(s) \cup {item}
      PROVE  i \in ToSet(Append(s, item))
  <2>1. CASE i = item
    <3>1. Len(s) + 1 \in 1..(Len(s) + 1) /\ Append(s, item)[Len(s) + 1] = i
      BY <1>3, <2>1
    <3> QED BY <1>1, <1>3, <3>1
  <2>2. CASE i # item
    <3>1. PICK k \in 1..Len(s) : s[k] = i
      BY <1>2, <1>5, <2>2
    <3>2. k \in 1..(Len(s) + 1) /\ k # Len(s) + 1
      BY <1>3
    <3> QED BY <1>1, <1>3, <3>1, <3>2
  <2> QED BY <2>1, <2>2
<1> QED BY <1>4, <1>5

\* A tree that is added to another becomes a part of it.
LEMMA TreeGrows ==
  ASSUME NEW L \in [Items -> Seq(Items)], NEW p \in Items, NEW i \in Items,
         p \notin Tree(L, i)
  PROVE  LET M == [L EXCEPT ![p] = Append(@, i)]
         IN  M \in [Items -> Seq(Items)] /\ Tree(M, p) = Tree(L, p) \cup Tree(L, i)
<1> DEFINE M == [L EXCEPT ![p] = Append(@, i)]
           T == Tree(L, p) \cup Tree(L, i)
<1>1. M \in [Items -> Seq(Items)]
  OBVIOUS
<1>2. \A q \in Items : ToSet(M[q]) = IF q = p THEN ToSet(L[p]) \cup {i} ELSE ToSet(L[q])
  <2>1. ToSet(Append(L[p], i)) = ToSet(L[p]) \cup {i}
    BY AppendMembers
  <2> QED BY <2>1
<1>3. \A q \in Items : q # p => M[q] = L[q]
  OBVIOUS
<1> HIDE DEF M
<1>4. /\ p \in Tree(L, p) /\ Tree(L, p) \subseteq Items
      /\ \A q \in Tree(L, p) : ToSet(L[q]) \subseteq Tree(L, p)
      /\ \A S \in SUBSET Items :
            p \in S /\ (\A q \in S : ToSet(L[q]) \subseteq S) => Tree(L, p) \subseteq S
  BY TreeFacts
<1>5. /\ i \in Tree(L, i) /\ Tree(L, i) \subseteq Items
      /\ \A q \in Tree(L, i) : ToSet(L[q]) \subseteq Tree(L, i)
      /\ \A S \in SUBSET Items :
            i \in S /\ (\A q \in S : ToSet(L[q]) \subseteq S) => Tree(L, i) \subseteq S
  BY TreeFacts
<1>6. Tree(M, p) \subseteq T
  <2>1. T \in SUBSET Items /\ p \in T
    BY <1>4, <1>5
  <2>2. ASSUME NEW q \in T
        PROVE  ToSet(M[q]) \subseteq T
    <3>1. ToSet(L[q]) \subseteq T
      BY <1>4, <1>5
    <3>2. ToSet(L[p]) \cup {i} \subseteq T
      BY <1>4, <1>5
    <3>3. q \in Items
      BY <2>1
    <3> HIDE DEF T
    <3> QED BY <1>2, <3>1, <3>2, <3>3
  <2> HIDE DEF T
  <2> QED BY <1>1, <2>1, <2>2, TreeFacts
<1>7. /\ p \in Tree(M, p) /\ Tree(M, p) \subseteq Items
      /\ \A q \in Tree(M, p) : ToSet(M[q]) \subseteq Tree(M, p)
  BY <1>1, TreeFacts
<1>8. Tree(L, p) \subseteq Tree(M, p)
  <2>1. \A q \in Tree(M, p) : ToSet(L[q]) \subseteq Tree(M, p)
    BY <1>2, <1>7
  <2> QED BY <1>4, <1>7, <2>1
<1>9. Tree(L, i) \subseteq Tree(M, p)
  <2>1. i \in Tree(M, p)
    BY <1>2, <1>7
  <2>2. \A q \in Tree(M, p) : ToSet(L[q]) \subseteq Tree(M, p)
    BY <1>2, <1>7
  <2> QED BY <1>5, <1>7, <2>1, <2>2
<1> QED BY <1>1, <1>6, <1>8, <1>9 DEF M

---------------------------------------------------------------------------
(* The invariant of a heap.  L gives the members of each item, R holds the *)
(* items that are in no list and O the lists still under construction,     *)
(* whose first member does not lead to the last one yet.                   *)

AnyHeap ==
    LET Pointers == [Items -> Items \cup {NULL}]
    IN  [live : SUBSET Items, ref : SUBSET Items, const : SUBSET Items,
         strings : Int, sound : BOOLEAN, fuel : Nat, ret : Items \cup {NULL, TRUE},
         next : Pointers, prev : Pointers, child : Pointers, text : Pointers,
         key : [Items -> Names \cup {NULL}]]

IsOpen(h, array, s) ==
    /\ Distinct(s)
    /\ h.child[array] = IF s = <<>> THEN NULL ELSE s[1]
    /\ \A k \in 1..Len(s) :
          /\ h.next[s[k]] = IF k = Len(s) THEN NULL ELSE s[k + 1]
          /\ h.prev[s[k]] = IF k = 1 THEN NULL ELSE s[k - 1]

\* The links: each item is a member of one list at most, of none if it is a root.
Shape(h, L, R, O) ==
    /\ L \in [Items -> Seq(Items)]
    /\ R \subseteq h.live /\ h.ref \subseteq h.live /\ h.const \subseteq h.live
    /\ \A p \in Items : p \notin h.live \ h.ref => L[p] = <<>>
    /\ \A p \in h.live \ h.ref : IF p \in O THEN IsOpen(h, p, L[p]) ELSE IsList(h, p, L[p])
    /\ \A p \in Items : ToSet(L[p]) \subseteq h.live \ R
    /\ \A p, q \in Items : p # q => ToSet(L[p]) \cap ToSet(L[q]) = {}
    /\ \A i \in Items : ~IsMember(L, i) => h.next[i] = NULL /\ h.prev[i] = NULL
    /\ Acyclic(L)

Strings(h) ==
    Cardinality({i \in h.live : OwnsKey(h, i)}) + Cardinality({i \in h.live : OwnsText(h, i)})

\* The memory: pointers lead to items and strings that are there.
Memory(h) ==
    /\ \A i \in Items : i \notin h.live => h.child[i] = NULL /\ h.key[i] = NULL /\ h.text[i] = NULL
    /\ \A i \in h.live : h.child[i] \in h.live \cup {NULL} /\ h.text[i] \in h.live \cup {NULL}
    /\ \A i \in h.live \ h.ref : h.text[i] \in {NULL, i}
    /\ h.strings = Strings(h)
    /\ h.sound = TRUE

\* What is in no list and no root is a reference without a name.
Kept(h, L, R) ==
    \A i \in h.live \ R : ~IsMember(L, i) => i \in h.ref /\ h.key[i] = NULL

HeapInv(h, L, R, O) == h \in AnyHeap /\ Shape(h, L, R, O) /\ Memory(h) /\ Kept(h, L, R)

\* The fields of a heap.
LEMMA AnyHeapTypes ==
  ASSUME NEW h \in AnyHeap
  PROVE  /\ h.live \in SUBSET Items /\ h.ref \in SUBSET Items /\ h.const \in SUBSET Items
         /\ h.strings \in Int /\ h.sound \in BOOLEAN /\ h.fuel \in Nat
         /\ h.ret \in Items \cup {NULL, TRUE}
         /\ h.next \in [Items -> Items \cup {NULL}] /\ h.prev \in [Items -> Items \cup {NULL}]
         /\ h.child \in [Items -> Items \cup {NULL}] /\ h.text \in [Items -> Items \cup {NULL}]
         /\ h.key \in [Items -> Names \cup {NULL}]
         /\ IsHeap(h)
BY DEF AnyHeap, IsHeap

\* h and g differ in fuel and ret only.
SameItems(h, g) ==
    /\ g \in AnyHeap
    /\ g.live = h.live /\ g.ref = h.ref /\ g.const = h.const
    /\ g.strings = h.strings /\ g.sound = h.sound
    /\ g.next = h.next /\ g.prev = h.prev /\ g.child = h.child
    /\ g.text = h.text /\ g.key = h.key

\* The result of a call is no part of the heap.
LEMMA RetFacts ==
  ASSUME NEW h \in AnyHeap, NEW r \in Items \cup {NULL, TRUE}
  PROVE  SameItems(h, Ret(h, r)) /\ Ret(h, r).ret = r
BY DEF AnyHeap, Ret, SameItems

---------------------------------------------------------------------------
(* What the operators of JsonList leave alone: all but the links.          *)

Relinked(h, g) ==
    /\ g \in AnyHeap
    /\ g.live = h.live /\ g.ref = h.ref /\ g.const = h.const
    /\ g.strings = h.strings /\ g.sound = h.sound /\ g.fuel = h.fuel
    /\ g.text = h.text /\ g.key = h.key

\* An assignment to one link leaves the rest alone ...
LEMMA OneLink ==
  ASSUME NEW h \in AnyHeap, NEW i \in Items, NEW v \in Items \cup {NULL},
         NEW r \in Items \cup {NULL, TRUE}
  PROVE  /\ Relinked(h, [h EXCEPT !.next[i] = v]) /\ Relinked(h, [h EXCEPT !.prev[i] = v])
         /\ Relinked(h, [h EXCEPT !.child[i] = v]) /\ Relinked(h, Ret(h, r))
         /\ Relinked(h, h)
BY DEF AnyHeap, Relinked, Ret

\* ... and so do several, one after the other.
LEMMA MoreLinks ==
  ASSUME NEW f, NEW g, NEW h, Relinked(f, g), Relinked(g, h)
  PROVE  Relinked(f, h)
BY DEF Relinked

\* A heap is a heap with other links too.
LEMMA RelinkedHeap ==
  ASSUME NEW h, NEW g, Relinked(h, g)
  PROVE  g \in AnyHeap
BY DEF Relinked

\* The pairs of assignments that JsonList makes at once.
LEMMA TwoLinks ==
  ASSUME NEW h \in AnyHeap, NEW i \in Items, NEW j \in Items,
         NEW v \in Items \cup {NULL}, NEW w \in Items \cup {NULL}
  PROVE  /\ Relinked(h, [h EXCEPT !.next[i] = v, !.prev[j] = w])
         /\ Relinked(h, [h EXCEPT !.prev[i] = v, !.child[j] = w])
         /\ Relinked(h, [h EXCEPT !.next[i] = v, !.prev[i] = v, !.prev[j] = w])
         /\ Relinked(h, [h EXCEPT !.prev[i] = v, !.next[j] = w])
BY DEF AnyHeap, Relinked

\* add_item_to_array() changes links only.
LEMMA AddRelinks ==
  ASSUME NEW h \in AnyHeap, NEW array \in Items, NEW item \in Items
  PROVE  Relinked(h, add_item_to_array(h, array, item))
<1> DEFINE g == add_item_to_array(h, array, item)
           head == h.child[array]
<1>1. array # NULL /\ item # NULL /\ head \in Items \cup {NULL}
  BY ItemsAssumption, AnyHeapTypes
<1>2. CASE array = item
  <2>1. g = Ret(h, NULL)
    BY <1>2 DEF add_item_to_array
  <2> QED BY <2>1, OneLink
<1>3. CASE array # item /\ head = NULL
  <2> DEFINE f == [h EXCEPT !.child[array] = item, !.prev[item] = item, !.next[item] = NULL]
  <2>1. Relinked(h, f)
    BY DEF AnyHeap, Relinked
  <2>2. g = Ret(f, TRUE)
    BY <1>1, <1>3 DEF add_item_to_array
  <2> HIDE DEF f
  <2>3. Relinked(f, Ret(f, TRUE))
    BY <2>1, RelinkedHeap, OneLink
  <2> QED BY <2>1, <2>2, <2>3, MoreLinks
<1>4. CASE array # item /\ head # NULL /\ h.prev[head] = NULL
  <2>1. g = Ret(h, TRUE)
    BY <1>1, <1>4 DEF add_item_to_array
  <2> QED BY <2>1, OneLink
<1>5. CASE array # item /\ head # NULL /\ h.prev[head] # NULL
  <2> DEFINE last == h.prev[head]
             e == suffix_object(h, last, item)
             f == [e EXCEPT !.prev[head] = item]
  <2>1. head \in Items /\ last \in Items
    BY <1>1, <1>5, AnyHeapTypes
  <2>2. Relinked(h, e)
    <3> HIDE DEF last
    <3> QED BY <2>1, TwoLinks DEF suffix_object
  <2>3. g = Ret(f, TRUE)
    BY <1>1, <1>5 DEF add_item_to_array
  <2> HIDE DEF e, head
  <2>4. Relinked(e, f)
    BY <2>1, <2>2, RelinkedHeap, OneLink
  <2> HIDE DEF f
  <2>5. Relinked(f, Ret(f, TRUE))
    BY <2>4, RelinkedHeap, OneLink
  <2> QED BY <2>2, <2>3, <2>4, <2>5, MoreLinks
<1> QED BY <1>2, <1>3, <1>4, <1>5

\* cJSON_DetachItemViaPointer() changes links only.
LEMMA DetachRelinks ==
  ASSUME NEW h \in AnyHeap, NEW parent \in Items, NEW item \in Items,
         item # h.child[parent] => h.prev[item] # NULL,
         h.child[parent] # NULL
  PROVE  Relinked(h, DetachItemViaPointer(h, parent, item))
<1> DEFINE first == item = h.child[parent]
           last == h.next[item] = NULL
           before == IF first THEN h ELSE [h EXCEPT !.next[h.prev[item]] = h.next[item]]
           after == IF last THEN before ELSE [before EXCEPT !.prev[h.next[item]] = h.prev[item]]
           head == IF first THEN [after EXCEPT !.child[parent] = h.next[item]]
                   ELSE IF last THEN [after EXCEPT !.prev[after.child[parent]] = h.prev[item]]
                   ELSE after
           clear == [head EXCEPT !.prev[item] = NULL, !.next[item] = NULL]
<1> HIDE DEF first, last
<1>0. (first <=> item = h.child[parent]) /\ (last <=> h.next[item] = NULL)
  BY DEF first, last
<1>1. /\ parent # NULL /\ item # NULL /\ NULL \in Items \cup {NULL}
      /\ h.next[item] \in Items \cup {NULL} /\ h.prev[item] \in Items \cup {NULL}
      /\ h.child[parent] \in Items /\ (~first => h.prev[item] \in Items)
      /\ (~last => h.next[item] \in Items)
  <2>1. /\ h.next \in [Items -> Items \cup {NULL}] /\ h.prev \in [Items -> Items \cup {NULL}]
        /\ h.child \in [Items -> Items \cup {NULL}]
    BY AnyHeapTypes
  <2> QED BY <1>0, <2>1, ItemsAssumption
<1>2. DetachItemViaPointer(h, parent, item) = Ret(clear, item)
  <2>1. ~(parent = NULL \/ item = NULL \/ (item # h.child[parent] /\ h.prev[item] = NULL))
    BY <1>1
  <2> QED BY <2>1, Zenon DEF DetachItemViaPointer, first, last
<1>3. Relinked(h, before) /\ before.child = h.child
  <2>1. CASE first
    BY <2>1, OneLink
  <2>2. CASE ~first
    <3>1. before = [h EXCEPT !.next[h.prev[item]] = h.next[item]]
      BY <2>2
    <3> HIDE DEF before, first
    <3>2. before.child = h.child
      BY <3>1 DEF AnyHeap
    <3> QED BY <1>1, <2>2, <3>1, <3>2, OneLink
  <2> QED BY <2>1, <2>2
<1> HIDE DEF before
<1>4. Relinked(before, after) /\ after.child = h.child
  <2>1. CASE last
    BY <1>3, <2>1, RelinkedHeap, OneLink
  <2>2. CASE ~last
    <3>1. after = [before EXCEPT !.prev[h.next[item]] = h.prev[item]]
      BY <2>2
    <3>2. before \in AnyHeap
      BY <1>3 DEF Relinked
    <3> HIDE DEF after, last
    <3>3. after.child = before.child
      BY <3>1, <3>2 DEF AnyHeap
    <3> QED BY <1>1, <1>3, <2>2, <3>1, <3>2, <3>3, OneLink
  <2> QED BY <2>1, <2>2
<1> HIDE DEF after
<1>5. Relinked(after, head)
  <2>1. after \in AnyHeap
    BY <1>4 DEF Relinked
  <2> HIDE DEF first, last
  <2> QED BY <1>1, <1>4, <2>1, OneLink
<1> HIDE DEF head
<1>6. Relinked(head, clear)
  <2>1. head \in AnyHeap
    BY <1>5 DEF Relinked
  <2> QED BY <1>1, <2>1, TwoLinks
<1> HIDE DEF clear
<1>7. Relinked(clear, Ret(clear, item))
  BY <1>6, RelinkedHeap, OneLink
<1> QED BY <1>2, <1>3, <1>4, <1>5, <1>6, <1>7, MoreLinks

\* cJSON_InsertItemInArray() changes links only.
LEMMA InsertRelinks ==
  ASSUME NEW h \in AnyHeap, NEW array \in Items, NEW which \in Nat, NEW newitem \in Items,
         get_array_item(h, array, which) \in Items \cup {NULL}
  PROVE  Relinked(h, InsertItemInArray(h, array, which, newitem))
<1> DEFINE after == get_array_item(h, array, which)
           g == InsertItemInArray(h, array, which, newitem)
           linked == [h EXCEPT !.next[newitem] = after, !.prev[newitem] = h.prev[after],
                               !.prev[after] = newitem]
           end == IF after = h.child[array] THEN [linked EXCEPT !.child[array] = newitem]
                  ELSE [linked EXCEPT !.next[h.prev[after]] = newitem]
<1>1. after \in Items \cup {NULL} /\ newitem # NULL
  BY ItemsAssumption
<1>2. g = IF after = NULL THEN add_item_to_array(h, array, newitem)
          ELSE IF after # h.child[array] /\ h.prev[after] = NULL THEN Ret(h, NULL)
          ELSE Ret(end, TRUE)
  BY <1>1, Zenon DEF InsertItemInArray
<1> HIDE DEF after, g
<1>3. CASE after = NULL
  BY <1>2, <1>3, AddRelinks DEF g
<1>4. CASE after # NULL /\ after # h.child[array] /\ h.prev[after] = NULL
  BY <1>2, <1>4, OneLink DEF g
<1>5. CASE after # NULL /\ (after = h.child[array] \/ h.prev[after] # NULL)
  <2>1. after \in Items /\ h.prev[after] \in Items \cup {NULL}
    BY <1>1, <1>5, AnyHeapTypes
  <2>2. Relinked(h, linked)
    BY <2>1 DEF AnyHeap, Relinked
  <2> HIDE DEF linked
  <2>3. Relinked(linked, end)
    <3>1. after # h.child[array] => h.prev[after] \in Items
      BY <1>5, <2>1
    <3>2. linked \in AnyHeap
      BY <2>2 DEF Relinked
    <3> QED BY <3>1, <3>2, OneLink
  <2> HIDE DEF end
  <2>4. Relinked(end, Ret(end, TRUE))
    BY <2>3, RelinkedHeap, OneLink
  <2> QED BY <1>2, <1>5, <2>2, <2>3, <2>4, MoreLinks DEF g
<1> QED BY <1>3, <1>4, <1>5

\* The links of cJSON_ReplaceItemViaPointer() are all it changes before it
\* deletes.
LEMMA ReplaceRelinks ==
  ASSUME NEW h \in AnyHeap, NEW parent \in Items, NEW item \in Items,
         NEW replacement \in Items, h.child[parent] \in Items
  PROVE  Relinked(h, ReplaceLinks(h, parent, item, replacement))
<1> DEFINE moved == [h EXCEPT !.next[replacement] = h.next[item],
                              !.prev[replacement] = h.prev[item]]
           after == IF h.next[item] = NULL THEN moved
                    ELSE [moved EXCEPT !.prev[h.next[item]] = replacement]
           first == [after EXCEPT
                       !.prev[replacement] = IF h.prev[item] = item THEN replacement ELSE @,
                       !.child[parent] = replacement]
           before == IF h.prev[item] = NULL THEN after
                     ELSE [after EXCEPT !.next[h.prev[item]] = replacement]
           around == IF h.child[parent] = item THEN first
                     ELSE IF h.next[item] = NULL
                     THEN [before EXCEPT !.prev[h.child[parent]] = replacement] ELSE before
           clear == [around EXCEPT !.next[item] = NULL, !.prev[item] = NULL]
<1>1. h.next[item] \in Items \cup {NULL} /\ h.prev[item] \in Items \cup {NULL}
  BY AnyHeapTypes
<1>2. ReplaceLinks(h, parent, item, replacement) = clear
  BY Zenon DEF ReplaceLinks
<1>3. Relinked(h, moved)
  BY <1>1, TwoLinks
<1> HIDE DEF moved
<1>4. Relinked(moved, after)
  <2>1. moved \in AnyHeap
    BY <1>3 DEF Relinked
  <2> QED BY <1>1, <2>1, OneLink
<1> HIDE DEF after
<1>5. after \in AnyHeap
  BY <1>4 DEF Relinked
<1>6. Relinked(after, first)
  <2>1. after.prev[replacement] \in Items \cup {NULL}
    BY <1>5, AnyHeapTypes
  <2> DEFINE v == IF h.prev[item] = item THEN replacement ELSE after.prev[replacement]
  <2>2. first = [after EXCEPT !.prev[replacement] = v, !.child[parent] = replacement]
    OBVIOUS
  <2>3. v \in Items \cup {NULL}
    BY <2>1
  <2> HIDE DEF v, first
  <2> QED BY <1>5, <2>2, <2>3, TwoLinks
<1>7. Relinked(after, before)
  BY <1>1, <1>5, OneLink
<1> HIDE DEF first, before
<1>8. Relinked(before, [before EXCEPT !.prev[h.child[parent]] = replacement])
  <2>1. before \in AnyHeap
    BY <1>7, RelinkedHeap
  <2> QED BY <2>1, OneLink
<1>9. Relinked(after, around)
  <2> DEFINE closed == [before EXCEPT !.prev[h.child[parent]] = replacement]
  <2>1. Relinked(after, closed)
    <3> HIDE DEF closed
    <3> QED BY <1>7, <1>8, MoreLinks DEF closed
  <2> HIDE DEF closed
  <2>2. around = IF h.child[parent] = item THEN first
                 ELSE IF h.next[item] = NULL THEN closed ELSE before
    BY DEF closed
  <2> HIDE DEF around
  <2> QED BY <1>6, <1>7, <2>1, <2>2
<1> HIDE DEF around
<1>10. Relinked(around, clear)
  BY <1>9, RelinkedHeap, TwoLinks
<1> QED BY <1>2, <1>3, <1>4, <1>9, <1>10, MoreLinks

---------------------------------------------------------------------------
(* Changes of a heap that keep the invariant. *)

\* What the invariant of a heap says of its sets.
LEMMA HeapFacts ==
  ASSUME NEW h, NEW L, NEW R, NEW O, HeapInv(h, L, R, O)
  PROVE  /\ h \in AnyHeap /\ Shape(h, L, R, O) /\ Memory(h) /\ Kept(h, L, R)
         /\ L \in [Items -> Seq(Items)] /\ IsHeap(h)
         /\ h.live \in SUBSET Items /\ R \subseteq h.live /\ R \subseteq Items
         /\ h.ref \subseteq h.live /\ h.const \subseteq h.live
         /\ \A p \in Items : p \notin h.live \ h.ref => L[p] = <<>>
         /\ \A p \in Items : ToSet(L[p]) \subseteq h.live \ R
         /\ \A i \in Items : ~IsMember(L, i) => h.next[i] = NULL /\ h.prev[i] = NULL
<1>1. h \in AnyHeap /\ Shape(h, L, R, O) /\ Memory(h) /\ Kept(h, L, R)
  BY DEF HeapInv
<1>2. h.live \in SUBSET Items /\ IsHeap(h)
  BY <1>1, AnyHeapTypes
<1> QED BY <1>1, <1>2 DEF Shape

\* The links do not depend on the names, the texts and the strings ...
LEMMA ShapeIsKept ==
  ASSUME NEW h, NEW L, NEW R, NEW O, Shape(h, L, R, O),
         NEW g, g.live = h.live, g.ref = h.ref, g.const \subseteq h.live,
         g.next = h.next, g.prev = h.prev, g.child = h.child
  PROVE  Shape(g, L, R, O)
BY DEF Shape, IsList, IsOpen

\* ... nor the memory on next and prev ...
LEMMA MemoryIsKept ==
  ASSUME NEW h, Memory(h), NEW g, g.live = h.live, g.ref = h.ref, g.const = h.const,
         g.child = h.child, g.key = h.key, g.text = h.text,
         g.strings = h.strings, g.sound = h.sound
  PROVE  Memory(g)
<1>1. Strings(g) = Strings(h)
  BY DEF Strings, OwnsKey, OwnsText
<1> QED BY <1>1 DEF Memory

\* ... and neither on fuel and ret.
LEMMA SameItemsKeep ==
  ASSUME NEW h, NEW L, NEW R, NEW O, HeapInv(h, L, R, O), NEW g, SameItems(h, g)
  PROVE  HeapInv(g, L, R, O)
<1>1. Shape(h, L, R, O) /\ Memory(h) /\ Kept(h, L, R) /\ h.const \subseteq h.live
  BY HeapFacts
<1>2. Shape(g, L, R, O)
  BY <1>1, ShapeIsKept DEF SameItems
<1>3. Memory(g)
  BY <1>1, MemoryIsKept DEF SameItems
<1>4. Kept(g, L, R)
  BY <1>1 DEF Kept, SameItems
<1> QED BY <1>2, <1>3, <1>4 DEF HeapInv, SameItems

\* A result that is returned changes nothing.
LEMMA RetKeeps ==
  ASSUME NEW h, NEW L, NEW R, NEW O, HeapInv(h, L, R, O), NEW r \in Items \cup {NULL, TRUE}
  PROVE  HeapInv(Ret(h, r), L, R, O)
<1>1. SameItems(h, Ret(h, r))
  <2>1. h \in AnyHeap
    BY HeapFacts
  <2> QED BY <2>1, RetFacts
<1> QED BY <1>1, SameItemsKeep

\* A list with no member among those that were touched is what it was.
LEMMA ListIsKept ==
  ASSUME NEW h, NEW g, NEW p, NEW touched, OnlyTouches(h, g, p, touched),
         NEW q \in Items \ {p}, NEW s \in Seq(Items), ToSet(s) \cap touched = {}
  PROVE  /\ IsList(h, q, s) => IsList(g, q, s)
         /\ IsOpen(h, q, s) => IsOpen(g, q, s)
<1>1. \A k \in 1..Len(s) : s[k] \in Items \ touched
  BY DEF ToSet
<1>2. \A k \in 1..Len(s) : g.next[s[k]] = h.next[s[k]] /\ g.prev[s[k]] = h.prev[s[k]]
  BY <1>1 DEF OnlyTouches
<1>3. g.child[q] = h.child[q]
  BY DEF OnlyTouches
<1> QED BY <1>2, <1>3 DEF IsList, IsOpen

\* No cycle comes about when what is added leads to items of B only, and the
\* list it is added to belongs to an item that is not among them.
LEMMA StaysAcyclic ==
  ASSUME NEW L \in [Items -> Seq(Items)], Acyclic(L), NEW p \in Items, NEW s \in Seq(Items),
         NEW B \in SUBSET Items, p \notin B, \A q \in B : ToSet(L[q]) \subseteq B,
         ToSet(s) \subseteq ToSet(L[p]) \cup B
  PROVE  Acyclic([L EXCEPT ![p] = s])
<1> DEFINE M == [L EXCEPT ![p] = s]
<1>1. \A q \in Items : M[q] = IF q = p THEN s ELSE L[q]
  OBVIOUS
<1> HIDE DEF M
<1> SUFFICES ASSUME NEW S \in SUBSET Items, S # {},
                    \A i \in S : \E q \in S : i \in ToSet(M[q])
             PROVE  FALSE
  BY DEF Acyclic, M
<1>0. \A U \in SUBSET Items : U # {} => \E i \in U : \A q \in U : i \notin ToSet(L[q])
  BY DEF Acyclic
<1>2. CASE p \notin S
  <2>1. \A q \in S : M[q] = L[q]
    BY <1>1, <1>2
  <2>2. PICK i \in S : \A q \in S : i \notin ToSet(L[q])
    BY <1>0
  <2> QED BY <2>1, <2>2
<1>3. CASE p \in S
  <2> DEFINE U == S \ B
  <2>1. U \in SUBSET Items /\ U # {}
    BY <1>3
  <2>2. ASSUME NEW i \in U
        PROVE  \E q \in U : i \in ToSet(L[q])
    <3>1. PICK q \in S : i \in ToSet(M[q])
      OBVIOUS
    <3>2. i \in ToSet(L[q])
      BY <1>1, <3>1
    <3>3. q \notin B
      BY <3>2
    <3> QED BY <3>2, <3>3
  <2> HIDE DEF U
  <2> QED BY <1>0, <2>1, <2>2
<1> QED BY <1>2, <1>3

\* One list changes: the items of In, roots before, come in, and those of Out go
\* and are roots after that.  O becomes P, when the list was open and is closed.
LEMMA RelinkKeeps ==
  ASSUME NEW h, NEW L, NEW R, NEW O, HeapInv(h, L, R, O), NEW p \in h.live \ h.ref,
         NEW g, Relinked(h, g), NEW s \in Seq(Items), NEW P,
         \A q \in Items \ {p} : q \in P <=> q \in O,
         IF p \in P THEN IsOpen(g, p, s) ELSE IsList(g, p, s),
         NEW In \in SUBSET R, NEW Out \in SUBSET ToSet(L[p]),
         OnlyTouches(h, g, p, ToSet(L[p]) \cup In),
         ToSet(s) = (ToSet(L[p]) \ Out) \cup In,
         \A i \in Out : g.next[i] = NULL /\ g.prev[i] = NULL,
         NEW B \in SUBSET Items, In \subseteq B, p \notin B, \A q \in B : ToSet(L[q]) \subseteq B
  PROVE  HeapInv(g, [L EXCEPT ![p] = s], (R \ In) \cup Out, P)
<1> DEFINE M == [L EXCEPT ![p] = s]
           Q == (R \ In) \cup Out
<1>1. /\ h \in AnyHeap /\ Shape(h, L, R, O) /\ Memory(h) /\ Kept(h, L, R)
      /\ L \in [Items -> Seq(Items)] /\ p \in Items /\ h.live \in SUBSET Items
      /\ R \subseteq h.live /\ h.ref \subseteq h.live /\ h.const \subseteq h.live
      /\ \A q \in Items : ToSet(L[q]) \subseteq h.live \ R
  BY HeapFacts
<1>2. /\ g \in AnyHeap /\ g.live = h.live /\ g.ref = h.ref /\ g.const = h.const
      /\ g.strings = h.strings /\ g.sound = h.sound /\ g.text = h.text /\ g.key = h.key
  BY DEF Relinked
<1>3. M \in [Items -> Seq(Items)] /\ \A q \in Items : M[q] = IF q = p THEN s ELSE L[q]
  BY <1>1
<1> HIDE DEF M
<1>4. \A i \in Items : IsMember(M, i) <=> (IsMember(L, i) \/ i \in In) /\ i \notin Out
  <2>1. \A q, r \in Items : q # r => ToSet(L[q]) \cap ToSet(L[r]) = {}
    BY <1>1 DEF Shape
  <2>2. \A i \in In : i \notin Out
    BY <1>1
  <2> QED BY <1>1, <1>3, <2>1, <2>2 DEF IsMember
<1>5. Shape(g, M, Q, P)
  <2>1. Q \subseteq g.live /\ g.ref \subseteq g.live /\ g.const \subseteq g.live
    BY <1>1, <1>2
  <2>2. \A q \in Items : q \notin g.live \ g.ref => M[q] = <<>>
    BY <1>1, <1>2, <1>3 DEF Shape
  <2>3. ASSUME NEW q \in g.live \ g.ref
        PROVE  IF q \in P THEN IsOpen(g, q, M[q]) ELSE IsList(g, q, M[q])
    <3>1. CASE q = p
      BY <1>1, <1>3, <3>1
    <3>2. CASE q # p
      <4>1. q \in Items /\ M[q] = L[q] /\ L[q] \in Seq(Items)
            /\ IF q \in P THEN IsOpen(h, q, L[q]) ELSE IsList(h, q, L[q])
        BY <1>1, <1>2, <1>3, <3>2 DEF Shape
      <4>2. ToSet(L[q]) \cap (ToSet(L[p]) \cup In) = {}
        BY <1>1, <3>2, <4>1 DEF Shape
      <4> QED BY <3>2, <4>1, <4>2, ListIsKept
    <3> QED BY <3>1, <3>2
  <2>4. \A q \in Items : ToSet(M[q]) \subseteq g.live \ Q
    <3> SUFFICES ASSUME NEW q \in Items, NEW i \in ToSet(M[q])
                 PROVE  i \in h.live \ Q
      BY <1>2
    <3>1. CASE q = p
      BY <1>1, <1>3, <3>1
    <3>2. CASE q # p
      BY <1>1, <1>3, <3>2 DEF Shape
    <3> QED BY <3>1, <3>2
  <2>5. \A q, r \in Items : q # r => ToSet(M[q]) \cap ToSet(M[r]) = {}
    <3>1. \A q, r \in Items : q # r => ToSet(L[q]) \cap ToSet(L[r]) = {}
      BY <1>1 DEF Shape
    <3>2. \A q \in Items : ToSet(L[q]) \cap In = {}
      BY <1>1
    <3> QED BY <1>1, <1>3, <3>1, <3>2
  <2>6. ASSUME NEW i \in Items, ~IsMember(M, i)
        PROVE  g.next[i] = NULL /\ g.prev[i] = NULL
    <3>1. CASE i \in Out
      BY <3>1
    <3>2. CASE i \notin Out
      <4>1. ~IsMember(L, i) /\ i \notin In
        BY <1>4, <2>6, <3>2
      <4>2. i \notin ToSet(L[p])
        BY <1>1, <4>1 DEF IsMember
      <4>3. h.next[i] = NULL /\ h.prev[i] = NULL
        BY <1>1, <4>1 DEF Shape
      <4> QED BY <4>1, <4>2, <4>3 DEF OnlyTouches
    <3> QED BY <3>1, <3>2
  <2>7. Acyclic(M)
    <3>1. Acyclic(L)
      BY <1>1 DEF Shape
    <3>2. ToSet(s) \subseteq ToSet(L[p]) \cup B
      OBVIOUS
    <3> QED BY <1>1, <3>1, <3>2, StaysAcyclic DEF M
  <2> HIDE DEF Q
  <2> QED BY <1>3, <2>1, <2>2, <2>3, <2>4, <2>5, <2>6, <2>7 DEF Shape
<1>6. Memory(g)
  <2>1. Strings(g) = Strings(h)
    BY <1>2 DEF Strings, OwnsKey, OwnsText
  <2>2. \A i \in Items : i # p => g.child[i] = h.child[i]
    BY DEF OnlyTouches
  <2>3. g.child[p] \in h.live \cup {NULL}
    <3>1. \A k \in 1..Len(s) : s[k] \in ToSet(s)
      BY MemberFacts
    <3>2. ToSet(s) \subseteq h.live
      BY <1>1
    <3>3. s = <<>> \/ 1 \in 1..Len(s)
      OBVIOUS
    <3>4. g.child[p] = IF s = <<>> THEN NULL ELSE s[1]
      BY DEF IsList, IsOpen
    <3> QED BY <3>1, <3>2, <3>3, <3>4
  <2> QED BY <1>1, <1>2, <2>1, <2>2, <2>3, ZenonT(60) DEF Memory
<1>7. Kept(g, M, Q)
  <2> SUFFICES ASSUME NEW i \in h.live \ Q, ~IsMember(M, i)
               PROVE  i \in h.ref /\ h.key[i] = NULL
    BY <1>2 DEF Kept
  <2>1. i \in Items /\ i \notin Out /\ ~IsMember(L, i) /\ i \notin In
    BY <1>1, <1>4
  <2> QED BY <1>1, <2>1 DEF Kept
<1> QED BY <1>2, <1>5, <1>6, <1>7 DEF HeapInv, M

---------------------------------------------------------------------------
(* Allocation. *)

\* From h to g the item n was allocated, and nothing else was changed.
Allocated(h, g, n) ==
    /\ n \in Items \ h.live
    /\ g.live = h.live \cup {n} /\ g.ref = h.ref /\ g.const = h.const
    /\ g.strings = h.strings /\ g.sound = h.sound
    /\ g.next = h.next /\ g.prev = h.prev /\ g.child = h.child
    /\ g.text = h.text /\ g.key = h.key
    /\ g.child[n] = NULL /\ g.next[n] = NULL /\ g.prev[n] = NULL
    /\ g.key[n] = NULL /\ g.text[n] = NULL

\* cJSON_New_Item() gives an item that was free, all of whose fields are NULL, or
\* NULL.
LEMMA NewItemFacts ==
  ASSUME NEW h, NEW L, NEW R, NEW O, HeapInv(h, L, R, O), NEW g, g = cJSON_New_Item(h)
  PROVE  \/ g.ret = NULL /\ g = Ret(h, NULL)
         \/ /\ Allocated(h, g, g.ret) /\ HeapInv(g, L, R \cup {g.ret}, O)
            /\ L[g.ret] = <<>> /\ ~IsMember(L, g.ret)
<1>1. /\ h \in AnyHeap /\ Shape(h, L, R, O) /\ Memory(h) /\ Kept(h, L, R)
      /\ L \in [Items -> Seq(Items)] /\ h.live \in SUBSET Items
      /\ R \subseteq h.live /\ h.ref \subseteq h.live /\ h.const \subseteq h.live
      /\ \A q \in Items : ToSet(L[q]) \subseteq h.live \ R
      /\ \A q \in Items : q \notin h.live \ h.ref => L[q] = <<>>
      /\ \A i \in Items : ~IsMember(L, i) => h.next[i] = NULL /\ h.prev[i] = NULL
  BY HeapFacts
<1>2. CASE h.fuel = 0 \/ h.live = Items
  <2>1. g = Ret(h, NULL)
    BY <1>2 DEF cJSON_New_Item
  <2>2. Ret(h, NULL).ret = NULL
    BY <1>1, RetFacts
  <2> QED BY <2>1, <2>2
<1>3. CASE ~(h.fuel = 0 \/ h.live = Items)
  <2> DEFINE i == CHOOSE free \in Items \ h.live : TRUE
             f == [h EXCEPT !.fuel = @ - 1, !.live = @ \cup {i}]
  <2>1. g = Ret(f, i)
    BY <1>3 DEF cJSON_New_Item
  <2>2. i \in Items \ h.live
    BY <1>1, <1>3
  <2> HIDE DEF i
  <2>3. h.fuel - 1 \in Nat
    <3>1. h.fuel \in Nat
      BY <1>1, AnyHeapTypes
    <3> QED BY <1>3, <3>1
  <2>4. /\ g \in AnyHeap /\ g.ret = i
        /\ g.live = h.live \cup {i} /\ g.ref = h.ref /\ g.const = h.const
        /\ g.strings = h.strings /\ g.sound = h.sound
        /\ g.next = h.next /\ g.prev = h.prev /\ g.child = h.child
        /\ g.text = h.text /\ g.key = h.key
    <3>1. h.live \cup {i} \in SUBSET Items
      BY <1>1, <2>2
    <3>2. /\ f \in AnyHeap
          /\ f.live = h.live \cup {i} /\ f.ref = h.ref /\ f.const = h.const
          /\ f.strings = h.strings /\ f.sound = h.sound
          /\ f.next = h.next /\ f.prev = h.prev /\ f.child = h.child
          /\ f.text = h.text /\ f.key = h.key
      BY <1>1, <2>3, <3>1 DEF AnyHeap
    <3> HIDE DEF f
    <3>3. i \in Items \cup {NULL, TRUE}
      BY <2>2
    <3>4. SameItems(f, g) /\ g.ret = i
      <4>1. f \in AnyHeap
        BY <3>2
      <4> QED BY <2>1, <3>3, <4>1, RetFacts
    <3> QED BY <3>2, <3>4 DEF SameItems
  <2>5. L[i] = <<>> /\ ~IsMember(L, i)
    BY <1>1, <2>2 DEF IsMember
  <2>6. g.child[i] = NULL /\ g.next[i] = NULL /\ g.prev[i] = NULL /\ g.key[i] = NULL /\ g.text[i] = NULL
    BY <1>1, <2>2, <2>4, <2>5 DEF Memory
  <2>7. Shape(g, L, R \cup {i}, O)
    <3>1. ASSUME NEW p \in g.live \ g.ref
          PROVE  IF p \in O THEN IsOpen(g, p, L[p]) ELSE IsList(g, p, L[p])
      <4>1. CASE p = i
        <5>1. IsOpen(g, i, <<>>) /\ IsList(g, i, <<>>)
          BY <2>6 DEF IsOpen, IsList, Distinct
        <5> QED BY <2>5, <4>1, <5>1
      <4>2. CASE p # i
        <5>1. IF p \in O THEN IsOpen(h, p, L[p]) ELSE IsList(h, p, L[p])
          BY <1>1, <2>4, <4>2 DEF Shape
        <5>2. (IsOpen(h, p, L[p]) => IsOpen(g, p, L[p])) /\ (IsList(h, p, L[p]) => IsList(g, p, L[p]))
          BY <2>4 DEF IsOpen, IsList
        <5> QED BY <5>1, <5>2
      <4> QED BY <4>1, <4>2
    <3>2. \A p \in Items : ToSet(L[p]) \subseteq g.live \ (R \cup {i})
      BY <1>1, <2>4, <2>5 DEF IsMember
    <3> QED BY <1>1, <2>2, <2>4, <3>1, <3>2 DEF Shape
  <2>8. Memory(g)
    <3>1. /\ {j \in g.live : OwnsKey(g, j)} = {j \in h.live : OwnsKey(h, j)}
          /\ {j \in g.live : OwnsText(g, j)} = {j \in h.live : OwnsText(h, j)}
      BY <2>4, <2>6 DEF OwnsKey, OwnsText
    <3>2. Strings(g) = Strings(h)
      BY <3>1 DEF Strings
    <3> QED BY <1>1, <2>4, <2>6, <3>2 DEF Memory
  <2>9. Kept(g, L, R \cup {i})
    BY <1>1, <2>4 DEF Kept
  <2> QED BY <2>2, <2>4, <2>5, <2>6, <2>7, <2>8, <2>9 DEF HeapInv, Allocated
<1> QED BY <1>2, <1>3

---------------------------------------------------------------------------
(* Deletion. *)

\* A set with the first member of a list, and with each member the next one, has
\* them all.
LEMMA MembersByNumber ==
  ASSUME NEW s \in Seq(Items), NEW T, s # <<>> => s[1] \in T,
         \A k \in 1..(Len(s) - 1) : s[k] \in T => s[k + 1] \in T
  PROVE  ToSet(s) \subseteq T
<1>1. CASE s = <<>>
  BY <1>1 DEF ToSet
<1>2. CASE s # <<>>
  <2> DEFINE n == Len(s) - 1
             N == {k \in Nat : s[k + 1] \in T}
  <2>1. n \in Nat /\ Len(s) = n + 1
    BY <1>2
  <2>2. 0 \in N
    BY <1>2
  <2>3. ASSUME NEW k \in 1..n, k - 1 \in N
        PROVE  k \in N
    BY <2>1, <2>3
  <2>4. 0..n \subseteq N
    <3> HIDE DEF N, n
    <3> QED BY <2>1, <2>2, <2>3, Induction
  <2>5. ASSUME NEW k \in 1..Len(s)
        PROVE  s[k] \in T
    <3>1. k - 1 \in 0..n
      BY <2>1
    <3>2. k - 1 \in N
      BY <2>4, <3>1
    <3> QED BY <3>2
  <2> QED BY <2>5, MemberFacts
<1> QED BY <1>1, <1>2

\* next and child in a heap whose lists may be open.
LEMMA LinkFacts ==
  ASSUME NEW h, NEW L, NEW R, NEW O, HeapInv(h, L, R, O), NEW p \in h.live \ h.ref
  PROVE  /\ p \in Items /\ L[p] \in Seq(Items) /\ DOMAIN L[p] = 1..Len(L[p])
         /\ h.child[p] = IF L[p] = <<>> THEN NULL ELSE L[p][1]
         /\ \A k \in 1..Len(L[p]) : h.next[L[p][k]] = IF k = Len(L[p]) THEN NULL ELSE L[p][k + 1]
         /\ \A j, k \in 1..Len(L[p]) : L[p][j] = L[p][k] => j = k
<1>1. p \in Items /\ L[p] \in Seq(Items) /\ Shape(h, L, R, O) /\ DOMAIN L[p] = 1..Len(L[p])
  BY HeapFacts
<1>2. IsOpen(h, p, L[p]) \/ IsList(h, p, L[p])
  BY <1>1 DEF Shape
<1> QED BY <1>1, <1>2 DEF IsOpen, IsList, Distinct

\* Each member has one place.
LEMMA PlaceFacts ==
  ASSUME NEW h, NEW L, NEW R, NEW O, HeapInv(h, L, R, O),
         NEW i \in Items, IsMember(L, i)
  PROVE  \E p \in h.live \ h.ref : \E k \in 1..Len(L[p]) :
            /\ L[p][k] = i /\ i \in ToSet(L[p])
            /\ \A q \in Items : i \in ToSet(L[q]) => q = p
            /\ \A q \in h.live \ h.ref : \A m \in 1..Len(L[q]) : L[q][m] = i => q = p /\ m = k
<1>1. PICK p \in Items : i \in ToSet(L[p])
  BY DEF IsMember
<1>2. /\ L \in [Items -> Seq(Items)] /\ Shape(h, L, R, O)
      /\ \A q \in Items : q \notin h.live \ h.ref => L[q] = <<>>
      /\ h.live \subseteq Items
  BY HeapFacts
<1>3. p \in h.live \ h.ref
  <2>1. L[p] # <<>>
    BY <1>1 DEF ToSet
  <2> QED BY <1>2, <2>1
<1>4. PICK k \in 1..Len(L[p]) : L[p][k] = i
  BY <1>1, <1>2, MemberFacts
<1>5. \A q \in Items : i \in ToSet(L[q]) => q = p
  BY <1>1, <1>2 DEF Shape
<1>6. ASSUME NEW q \in h.live \ h.ref, NEW m \in 1..Len(L[q]), L[q][m] = i
      PROVE  q = p /\ m = k
  <2>1. L[q] \in Seq(Items) /\ q \in Items
    BY <1>2
  <2>2. i \in ToSet(L[q])
    BY <1>6, <2>1, MemberFacts
  <2>3. q = p
    BY <1>5, <2>1, <2>2
  <2> QED BY <1>3, <1>4, <1>6, <2>3, LinkFacts
<1> QED BY <1>1, <1>3, <1>4, <1>5, <1>6

\* A link leads from j to i if i is the member after j, or the first one of j's.
LEMMA LinksLeadToPlaces ==
  ASSUME NEW h, NEW L, NEW R, NEW O, HeapInv(h, L, R, O),
         NEW j \in Items, NEW i \in Items, h.next[j] = i
  PROVE  \E p \in h.live \ h.ref : \E m \in 1..Len(L[p]) :
            m # Len(L[p]) /\ j = L[p][m] /\ i = L[p][m + 1] /\ m + 1 \in 1..Len(L[p])
<1>1. i # NULL
  BY ItemsAssumption
<1>2. IsMember(L, j)
  BY <1>1, HeapFacts
<1>3. PICK p \in h.live \ h.ref : \E m \in 1..Len(L[p]) : L[p][m] = j
  BY <1>2, PlaceFacts
<1>4. PICK m \in 1..Len(L[p]) : L[p][m] = j
  BY <1>3
<1>5. h.next[j] = (IF m = Len(L[p]) THEN NULL ELSE L[p][m + 1]) /\ L[p] \in Seq(Items)
  BY <1>4, LinkFacts
<1>6. m # Len(L[p]) /\ i = L[p][m + 1]
  BY <1>1, <1>5
<1> QED BY <1>4, <1>5, <1>6

\* cJSON_Delete() comes to the items of the tree and to no other.
LEMMA DeleteReaches ==
  ASSUME NEW h, NEW L, NEW R, NEW O, HeapInv(h, L, R, O), NEW item \in R
  PROVE  Reached(h, item) = Tree(L, item) /\ Tree(L, item) \subseteq h.live
<1> DEFINE F == [i \in Items |-> Followed(h, i)]
           D == Tree(L, item)
           V == Reached(h, item)
<1>1. /\ L \in [Items -> Seq(Items)] /\ h.live \in SUBSET Items /\ IsHeap(h)
      /\ R \subseteq h.live /\ item \in Items /\ item \in h.live /\ Shape(h, L, R, O)
      /\ \A p \in Items : ToSet(L[p]) \subseteq h.live \ R
      /\ \A p \in Items : p \notin h.live \ h.ref => L[p] = <<>>
  BY HeapFacts
<1>2. /\ \A i \in Items : F[i] = {h.next[i], IF i \in h.ref THEN NULL ELSE h.child[i]} \ {NULL}
      /\ F \in [Items -> SUBSET Items]
  BY <1>1 DEF Followed, IsHeap
<1>3. /\ item \in D /\ D \subseteq Items
      /\ \A p \in D : ToSet(L[p]) \subseteq D
      /\ \A T \in SUBSET Items : item \in T /\ (\A p \in T : ToSet(L[p]) \subseteq T) => D \subseteq T
      /\ \A j \in D : j # item => \E p \in D : j \in ToSet(L[p])
  BY <1>1, TreeFacts
<1>4. /\ item \in V /\ V \subseteq Items
      /\ \A p \in V : F[p] \subseteq V
      /\ \A T \in SUBSET Items : item \in T /\ (\A p \in T : F[p] \subseteq T) => V \subseteq T
  <2>1. {item} \in SUBSET Items
    BY <1>1
  <2> HIDE DEF F
  <2>2. Forest!Closure({item}, F) = V
    BY DEF Reached, F
  <2> HIDE DEF V
  <2>3. /\ {item} \subseteq V /\ V \subseteq Items
        /\ \A p \in V : F[p] \subseteq V
        /\ \A T \in SUBSET Items : {item} \subseteq T /\ (\A p \in T : F[p] \subseteq T) => V \subseteq T
    BY <1>2, <2>1, <2>2, ClosureFacts
  <2> QED BY <2>3
<1> HIDE DEF F, D, V
<1>5. D \subseteq h.live
  BY <1>1, <1>3
<1>6. ASSUME NEW j \in D, NEW i \in F[j]
      PROVE  i \in D
  <2>1. j \in Items /\ i \in Items /\ j \in h.live
    BY <1>2, <1>3, <1>5
  <2>2. CASE h.next[j] = i
    <3>1. PICK p \in h.live \ h.ref : \E m \in 1..Len(L[p]) :
             m # Len(L[p]) /\ j = L[p][m] /\ i = L[p][m + 1] /\ m + 1 \in 1..Len(L[p])
      BY <2>1, <2>2, LinksLeadToPlaces
    <3>2. p \in Items /\ j \in ToSet(L[p]) /\ i \in ToSet(L[p])
      BY <1>1, <3>1, MemberFacts
    <3>3. j # item
      BY <1>1, <3>2
    <3>4. PICK q \in D : j \in ToSet(L[q])
      BY <1>3, <3>3
    <3>5. q = p
      BY <1>1, <1>3, <3>2, <3>4 DEF Shape
    <3> QED BY <1>3, <3>2, <3>4, <3>5
  <2>3. CASE h.next[j] # i
    <3>1. j \in h.live \ h.ref /\ h.child[j] = i /\ i # NULL
      BY <1>2, <2>1, <2>3
    <3>2. L[j] \in Seq(Items) /\ L[j] # <<>> /\ i = L[j][1]
      BY <3>1, LinkFacts
    <3>3. 1 \in 1..Len(L[j])
      BY <3>2
    <3> QED BY <1>3, <3>2, <3>3, MemberFacts
  <2> QED BY <2>2, <2>3
<1>7. V \subseteq D
  BY <1>3, <1>4, <1>6
<1>8. ASSUME NEW p \in V
      PROVE  ToSet(L[p]) \subseteq V
  <2>1. p \in Items
    BY <1>4
  <2>2. CASE p \notin h.live \ h.ref
    BY <1>1, <2>1, <2>2 DEF ToSet
  <2>3. CASE p \in h.live \ h.ref
    <3>1. /\ L[p] \in Seq(Items)
          /\ h.child[p] = IF L[p] = <<>> THEN NULL ELSE L[p][1]
          /\ \A k \in 1..Len(L[p]) : h.next[L[p][k]] = IF k = Len(L[p]) THEN NULL ELSE L[p][k + 1]
      BY <2>3, LinkFacts
    <3>2. \A k \in 1..Len(L[p]) : L[p][k] \in Items /\ L[p][k] # NULL
      <4>1. \A k \in 1..Len(L[p]) : L[p][k] \in Items
        BY <3>1
      <4> QED BY <4>1, ItemsAssumption
    <3>3. L[p] # <<>> => L[p][1] \in V
      <4>1. L[p] # <<>> => 1 \in 1..Len(L[p])
        BY <3>1
      <4>2. h.child[p] # NULL => h.child[p] \in F[p]
        BY <1>2, <2>1, <2>3
      <4> QED BY <1>4, <3>1, <3>2, <4>1, <4>2
    <3>4. ASSUME NEW k \in 1..(Len(L[p]) - 1), L[p][k] \in V
          PROVE  L[p][k + 1] \in V
      <4>1. k \in 1..Len(L[p]) /\ k + 1 \in 1..Len(L[p]) /\ k # Len(L[p])
        BY <3>1
      <4>2. h.next[L[p][k]] = L[p][k + 1] /\ L[p][k + 1] # NULL
        BY <3>1, <3>2, <4>1
      <4>3. L[p][k + 1] \in F[L[p][k]]
        BY <1>2, <3>2, <4>1, <4>2
      <4> QED BY <1>4, <3>4, <4>3
    <3> QED BY <3>1, <3>3, <3>4, MembersByNumber
  <2> QED BY <2>2, <2>3
<1>9. D \subseteq V
  BY <1>3, <1>4, <1>8
<1> QED BY <1>5, <1>7, <1>9 DEF V, D

\* It comes to each of them once.
LEMMA DeleteVisitsOnce ==
  ASSUME NEW h, NEW L, NEW R, NEW O, HeapInv(h, L, R, O), NEW item \in R, NEW i \in Tree(L, item)
  PROVE  Visits(h, item, i) = 1
<1> DEFINE D == Tree(L, item)
           X == {j \in D : h.next[j] = i}
           Y == {j \in D \ h.ref : h.child[j] = i}
<1>1. /\ L \in [Items -> Seq(Items)] /\ h.live \in SUBSET Items
      /\ R \subseteq h.live /\ item \in Items /\ Shape(h, L, R, O)
      /\ \A p \in Items : ToSet(L[p]) \subseteq h.live \ R
  BY HeapFacts
<1>2. Visits(h, item, i) = Cardinality(X) + Cardinality(Y) + (IF i = item THEN 1 ELSE 0)
  BY DeleteReaches DEF Visits
<1>3. /\ item \in D /\ i \in D /\ D \subseteq Items /\ i \in Items /\ i # NULL /\ D \subseteq h.live
      /\ \A p \in D : ToSet(L[p]) \subseteq D
      /\ \A j \in D : j # item => \E p \in D : j \in ToSet(L[p])
  BY <1>1, TreeFacts, DeleteReaches, ItemsAssumption
<1> HIDE DEF D
<1>4. ASSUME NEW j \in D, h.next[j] = i
      PROVE  \E p \in h.live \ h.ref : \E m \in 1..Len(L[p]) :
                j = L[p][m] /\ i = L[p][m + 1] /\ m + 1 \in 1..Len(L[p])
  BY <1>3, <1>4, LinksLeadToPlaces
<1>5. ASSUME NEW j \in D \ h.ref, h.child[j] = i
      PROVE  j \in h.live \ h.ref /\ 1 \in 1..Len(L[j]) /\ L[j][1] = i
  <2>1. j \in h.live \ h.ref
    BY <1>3
  <2>2. L[j] \in Seq(Items) /\ h.child[j] = IF L[j] = <<>> THEN NULL ELSE L[j][1]
    BY <2>1, LinkFacts
  <2> QED BY <1>3, <1>5, <2>1, <2>2
<1>6. Cardinality({}) = 0 /\ \A x : Cardinality({x}) = 1
  BY FS_EmptySet, FS_Singleton
<1>7. CASE i = item
  <2>1. \A p \in Items : i \notin ToSet(L[p])
    BY <1>1, <1>7
  <2>2. \A p \in Items : \A m \in 1..Len(L[p]) : L[p][m] # i
    BY <1>1, <2>1, MemberFacts
  <2>3. X = {} /\ Y = {}
    <3>1. \A j \in D : h.next[j] # i
      BY <1>1, <1>4, <2>2
    <3>2. \A j \in D \ h.ref : h.child[j] # i
      BY <1>1, <1>5, <2>2
    <3> QED BY <3>1, <3>2
  <2> HIDE DEF X, Y
  <2> QED BY <1>2, <1>6, <1>7, <2>3
<1>8. CASE i # item
  <2>1. PICK q \in D : i \in ToSet(L[q])
    BY <1>3, <1>8
  <2>2. IsMember(L, i)
    BY <1>3, <2>1 DEF IsMember
  <2>3. PICK p \in h.live \ h.ref : \E k \in 1..Len(L[p]) :
            /\ L[p][k] = i /\ i \in ToSet(L[p])
            /\ \A r \in Items : i \in ToSet(L[r]) => r = p
            /\ \A r \in h.live \ h.ref : \A m \in 1..Len(L[r]) : L[r][m] = i => r = p /\ m = k
    BY <1>3, <2>2, PlaceFacts
  <2>4. PICK k \in 1..Len(L[p]) :
            /\ L[p][k] = i /\ i \in ToSet(L[p])
            /\ \A r \in Items : i \in ToSet(L[r]) => r = p
            /\ \A r \in h.live \ h.ref : \A m \in 1..Len(L[r]) : L[r][m] = i => r = p /\ m = k
    BY <2>3
  <2>5. p \in D /\ p \in Items
    BY <1>3, <2>1, <2>4
  <2>6. /\ L[p] \in Seq(Items) /\ k \in 1..Len(L[p]) /\ Len(L[p]) \in Nat
        /\ h.child[p] = IF L[p] = <<>> THEN NULL ELSE L[p][1]
        /\ \A m \in 1..Len(L[p]) : h.next[L[p][m]] = IF m = Len(L[p]) THEN NULL ELSE L[p][m + 1]
        /\ \A m, n \in 1..Len(L[p]) : L[p][m] = L[p][n] => m = n
    BY LinkFacts
  <2>7. CASE k = 1
    <3>1. X = {}
      <4>1. \A m \in 1..Len(L[p]) : m + 1 # 1
        OBVIOUS
      <4> QED BY <1>4, <2>4, <2>7, <4>1
    <3>2. Y = {p}
      <4>1. p \in Y
        BY <2>4, <2>5, <2>6, <2>7
      <4>2. \A j \in Y : j = p
        BY <1>5, <2>4
      <4> QED BY <4>1, <4>2
    <3> HIDE DEF X, Y
    <3>3. Cardinality(X) = 0 /\ Cardinality(Y) = 1
      BY <1>6, <3>1, <3>2
    <3> QED BY <1>2, <1>8, <3>3
  <2>8. CASE k # 1
    <3> DEFINE b == L[p][k - 1]
    <3>1. k - 1 \in 1..Len(L[p]) /\ k - 1 # Len(L[p]) /\ (k - 1) + 1 = k
      BY <2>6, <2>8
    <3>2. h.next[b] = i /\ b \in ToSet(L[p])
      BY <2>4, <2>6, <3>1, MemberFacts
    <3>3. b \in D
      BY <1>3, <2>5, <3>2
    <3>4. X = {b}
      <4>1. ASSUME NEW j \in X
            PROVE  j = b
        <5>1. PICK r \in h.live \ h.ref : \E m \in 1..Len(L[r]) :
                j = L[r][m] /\ i = L[r][m + 1] /\ m + 1 \in 1..Len(L[r])
          BY <1>4
        <5>2. PICK m \in 1..Len(L[r]) : j = L[r][m] /\ i = L[r][m + 1] /\ m + 1 \in 1..Len(L[r])
          BY <5>1
        <5>3. r = p /\ m + 1 = k
          BY <2>4, <5>2
        <5>4. m = k - 1
          BY <5>3
        <5> QED BY <5>2, <5>3, <5>4
      <4> QED BY <3>2, <3>3, <4>1
    <3>5. Y = {}
      BY <1>5, <2>4, <2>8
    <3> HIDE DEF X, Y, b
    <3>6. Cardinality(X) = 1 /\ Cardinality(Y) = 0
      BY <1>6, <3>4, <3>5
    <3> QED BY <1>2, <1>8, <3>6
  <2> QED BY <2>7, <2>8
<1> QED BY <1>7, <1>8

Pruned(L, D) == [i \in Items |-> IF i \in D THEN <<>> ELSE L[i]]

\* g is h after cJSON_Delete(item), which came to the items of D.
Deleted(h, g, item, D) ==
    /\ g \in AnyHeap /\ g.ret = h.ret
    /\ g.live = h.live \ D /\ g.ref = h.ref \ D /\ g.const = h.const \ D
    /\ g.strings = h.strings - Cardinality({i \in D : OwnsKey(h, i)})
                             - Cardinality({i \in D : OwnsText(h, i)})
    /\ g.sound = (h.sound /\ \A i \in D : i \in h.live /\ Visits(h, item, i) = 1)
    /\ g.next = Clear(h.next, D) /\ g.prev = Clear(h.prev, D) /\ g.child = Clear(h.child, D)
    /\ g.key = Clear(h.key, D) /\ g.text = Clear(h.text, D)

\* The fields of the heap that cJSON_Delete() leaves.
LEMMA DeleteFields ==
  ASSUME NEW h \in AnyHeap, NEW item \in Items, Reached(h, item) \subseteq h.live,
         NEW g, g = cJSON_Delete(h, item)
  PROVE  Deleted(h, g, item, Reached(h, item))
<1> DEFINE D == Reached(h, item)
<1>1. item # NULL
  BY ItemsAssumption
<1> DEFINE strings == h.strings - Cardinality({i \in D : OwnsKey(h, i)})
                                - Cardinality({i \in D : OwnsText(h, i)})
           sound == (h.sound /\ \A i \in D : i \in h.live /\ Visits(h, item, i) = 1)
<1>2. g = [h EXCEPT
            !.live = @ \ D, !.ref = @ \ D, !.const = @ \ D,
            !.next = Clear(@, D), !.prev = Clear(@, D), !.child = Clear(@, D),
            !.key = Clear(@, D), !.text = Clear(@, D),
            !.strings = @ - Cardinality({i \in D : OwnsKey(h, i)})
                          - Cardinality({i \in D : OwnsText(h, i)}),
            !.sound = @ /\ \A i \in D : i \in h.live /\ Visits(h, item, i) = 1]
  BY <1>1, Zenon DEF cJSON_Delete
<1>0. D \subseteq h.live
  OBVIOUS
<1> HIDE DEF D
<1>3. g = [h EXCEPT
            !.live = h.live \ D, !.ref = h.ref \ D, !.const = h.const \ D,
            !.next = Clear(h.next, D), !.prev = Clear(h.prev, D), !.child = Clear(h.child, D),
            !.key = Clear(h.key, D), !.text = Clear(h.text, D),
            !.strings = strings, !.sound = sound]
  BY <1>2
<1>4. D \subseteq Items /\ h.live \in SUBSET Items /\ h.ref \in SUBSET Items
      /\ h.const \in SUBSET Items
  BY <1>0, AnyHeapTypes
<1>5. \A f \in [Items -> Items \cup {NULL}] : Clear(f, D) \in [Items -> Items \cup {NULL}]
  BY DEF Clear
<1>6. Clear(h.key, D) \in [Items -> Names \cup {NULL}]
  BY AnyHeapTypes DEF Clear
<1>7. strings \in Int
  <2>1. IsFiniteSet({i \in D : OwnsKey(h, i)}) /\ IsFiniteSet({i \in D : OwnsText(h, i)})
    BY <1>4, ItemsAssumption, FS_Subset
  <2>2. h.strings \in Int
    BY AnyHeapTypes
  <2> QED BY <2>1, <2>2, FS_CardinalityType
<1>8. sound \in BOOLEAN
  OBVIOUS
<1> HIDE DEF strings, sound
<1>9. /\ h.next \in [Items -> Items \cup {NULL}] /\ h.prev \in [Items -> Items \cup {NULL}]
      /\ h.child \in [Items -> Items \cup {NULL}] /\ h.text \in [Items -> Items \cup {NULL}]
  BY AnyHeapTypes
<1>10. /\ Clear(h.next, D) \in [Items -> Items \cup {NULL}]
       /\ Clear(h.prev, D) \in [Items -> Items \cup {NULL}]
       /\ Clear(h.child, D) \in [Items -> Items \cup {NULL}]
       /\ Clear(h.text, D) \in [Items -> Items \cup {NULL}]
  BY <1>5, <1>9
<1>11. h.live \ D \in SUBSET Items /\ h.ref \ D \in SUBSET Items /\ h.const \ D \in SUBSET Items
  BY <1>4
<1>12. /\ g \in AnyHeap /\ g.ret = h.ret
       /\ g.live = h.live \ D /\ g.ref = h.ref \ D /\ g.const = h.const \ D
       /\ g.strings = strings /\ g.sound = sound
       /\ g.next = Clear(h.next, D) /\ g.prev = Clear(h.prev, D) /\ g.child = Clear(h.child, D)
       /\ g.key = Clear(h.key, D) /\ g.text = Clear(h.text, D)
  <2> DEFINE live == h.live \ D
             ref == h.ref \ D
             const == h.const \ D
             next == Clear(h.next, D)
             prev == Clear(h.prev, D)
             child == Clear(h.child, D)
             text == Clear(h.text, D)
             key == Clear(h.key, D)
  <2>1. g = [h EXCEPT !.live = live, !.ref = ref, !.const = const,
                      !.next = next, !.prev = prev, !.child = child,
                      !.key = key, !.text = text, !.strings = strings, !.sound = sound]
    BY <1>3
  <2>2. live \in SUBSET Items /\ ref \in SUBSET Items /\ const \in SUBSET Items
    BY <1>11
  <2>3. /\ next \in [Items -> Items \cup {NULL}] /\ prev \in [Items -> Items \cup {NULL}]
        /\ child \in [Items -> Items \cup {NULL}] /\ text \in [Items -> Items \cup {NULL}]
        /\ key \in [Items -> Names \cup {NULL}]
    BY <1>6, <1>10
  <2> HIDE DEF live, ref, const, next, prev, child, text, key
  <2>4. /\ g \in AnyHeap /\ g.ret = h.ret
        /\ g.live = live /\ g.ref = ref /\ g.const = const
        /\ g.strings = strings /\ g.sound = sound
        /\ g.next = next /\ g.prev = prev /\ g.child = child
        /\ g.key = key /\ g.text = text
    BY <1>7, <1>8, <2>1, <2>2, <2>3, ZenonT(60) DEF AnyHeap
  <2> QED BY <2>4 DEF live, ref, const, next, prev, child, text, key
<1> QED BY <1>12 DEF strings, sound, Deleted, D

\* What is left of a finite set.
LEMMA CardinalityOfRest ==
  ASSUME NEW S \in SUBSET Items, NEW T \in SUBSET S
  PROVE  Cardinality(S \ T) = Cardinality(S) - Cardinality(T)
<1>1. IsFiniteSet(S) /\ S \cap T = T
  BY ItemsAssumption, FS_Subset
<1> QED BY <1>1, FS_Difference

\* Deleting a root leaves a heap without its tree, when no reference needs it.
THEOREM DeleteKeeps ==
  ASSUME NEW h, NEW L, NEW R, NEW O, HeapInv(h, L, R, O), NEW item \in R,
         \A r \in h.ref \ Tree(L, item) :
            h.child[r] \notin Tree(L, item) /\ h.text[r] \notin Tree(L, item),
         NEW g, g = cJSON_Delete(h, item)
  PROVE  /\ HeapInv(g, Pruned(L, Tree(L, item)), R \ {item}, O)
         /\ g.live = h.live \ Tree(L, item) /\ g.ref = h.ref \ Tree(L, item) /\ g.ret = h.ret
         /\ \A i \in Items : i \notin Tree(L, item) =>
               g.child[i] = h.child[i] /\ g.text[i] = h.text[i] /\ g.key[i] = h.key[i]
<1> DEFINE D == Tree(L, item)
           M == Pruned(L, D)
<1>1. /\ h \in AnyHeap /\ Shape(h, L, R, O) /\ Memory(h) /\ Kept(h, L, R)
      /\ L \in [Items -> Seq(Items)] /\ h.live \in SUBSET Items
      /\ R \subseteq h.live /\ h.ref \subseteq h.live /\ h.const \subseteq h.live /\ item \in Items
      /\ \A q \in Items : ToSet(L[q]) \subseteq h.live \ R
      /\ \A q \in Items : q \notin h.live \ h.ref => L[q] = <<>>
      /\ \A i \in Items : ~IsMember(L, i) => h.next[i] = NULL /\ h.prev[i] = NULL
  BY HeapFacts
<1>2. /\ item \in D /\ D \subseteq Items /\ D \subseteq h.live /\ D = Reached(h, item)
      /\ \A p \in D : ToSet(L[p]) \subseteq D
      /\ \A j \in D : j # item => \E p \in D : j \in ToSet(L[p])
  <2>1. D \subseteq h.live /\ D = Reached(h, item)
    BY DeleteReaches
  <2>2. /\ item \in D /\ D \subseteq Items
        /\ \A p \in D : ToSet(L[p]) \subseteq D
        /\ \A j \in D : j # item => \E p \in D : j \in ToSet(L[p])
    BY <1>1, TreeFacts
  <2> QED BY <2>1, <2>2
<1>3. \A i \in D : Visits(h, item, i) = 1
  BY DeleteVisitsOnce
<1>4. \A r \in h.ref \ D : h.child[r] \notin D /\ h.text[r] \notin D
  OBVIOUS
<1> HIDE DEF D
<1>5. /\ g \in AnyHeap /\ g.ret = h.ret
      /\ g.live = h.live \ D /\ g.ref = h.ref \ D /\ g.const = h.const \ D
      /\ g.strings = h.strings - Cardinality({i \in D : OwnsKey(h, i)})
                               - Cardinality({i \in D : OwnsText(h, i)})
      /\ g.sound = (h.sound /\ \A i \in D : i \in h.live /\ Visits(h, item, i) = 1)
      /\ g.next = Clear(h.next, D) /\ g.prev = Clear(h.prev, D) /\ g.child = Clear(h.child, D)
      /\ g.key = Clear(h.key, D) /\ g.text = Clear(h.text, D)
  <2>1. h \in AnyHeap /\ item \in Items
    BY <1>1
  <2>2. Reached(h, item) \subseteq h.live /\ D = Reached(h, item)
    BY <1>2
  <2>3. Deleted(h, g, item, D)
    BY <2>1, <2>2, DeleteFields
  <2> QED BY <2>3 DEF Deleted
<1>6. /\ \A i \in Items : i \notin D =>
            /\ g.next[i] = h.next[i] /\ g.prev[i] = h.prev[i] /\ g.child[i] = h.child[i]
            /\ g.text[i] = h.text[i] /\ g.key[i] = h.key[i]
      /\ \A i \in D : g.next[i] = NULL /\ g.prev[i] = NULL /\ g.child[i] = NULL
                      /\ g.text[i] = NULL /\ g.key[i] = NULL
  BY <1>2, <1>5 DEF Clear
<1>7. M \in [Items -> Seq(Items)] /\ \A q \in Items : M[q] = IF q \in D THEN <<>> ELSE L[q]
  BY <1>1 DEF Pruned
<1> HIDE DEF M
<1>8. \A q \in Items : q \notin D => ToSet(L[q]) \cap D = {}
  <2> SUFFICES ASSUME NEW q \in Items, q \notin D, NEW i \in D, i \in ToSet(L[q])
               PROVE  FALSE
    OBVIOUS
  <2>1. i # item
    BY <1>1
  <2>2. PICK p \in D : i \in ToSet(L[p])
    BY <1>2, <2>1
  <2> QED BY <1>1, <1>2, <2>2 DEF Shape
<1>9. ToSet(<<>>) = {}
  BY DEF ToSet
<1>10. \A i \in Items : i \notin D => (IsMember(M, i) <=> IsMember(L, i))
  BY <1>2, <1>7, <1>9 DEF IsMember
<1>11. Shape(g, M, R \ {item}, O)
  <2>1. R \ {item} \subseteq g.live
    <3> SUFFICES ASSUME NEW i \in R, i # item
                 PROVE  i \notin D
      BY <1>1, <1>5
    <3> QED BY <1>1, <1>2
  <2>2. g.ref \subseteq g.live /\ g.const \subseteq g.live
    BY <1>1, <1>5
  <2>3. \A p \in Items : p \notin g.live \ g.ref => M[p] = <<>>
    BY <1>1, <1>5, <1>7
  <2>4. ASSUME NEW p \in g.live \ g.ref
        PROVE  IF p \in O THEN IsOpen(g, p, M[p]) ELSE IsList(g, p, M[p])
    <3>1. p \in h.live \ h.ref /\ p \notin D /\ p \in Items /\ M[p] = L[p] /\ L[p] \in Seq(Items)
      BY <1>1, <1>5, <1>7
    <3>2. IF p \in O THEN IsOpen(h, p, L[p]) ELSE IsList(h, p, L[p])
      BY <1>1, <3>1 DEF Shape
    <3>3. \A k \in 1..Len(L[p]) : L[p][k] \in Items /\ L[p][k] \notin D
      BY <1>8, <3>1, MemberFacts
    <3>4. /\ \A k \in 1..Len(L[p]) :
                g.next[L[p][k]] = h.next[L[p][k]] /\ g.prev[L[p][k]] = h.prev[L[p][k]]
          /\ g.child[p] = h.child[p]
      BY <1>6, <3>1, <3>3
    <3>5. (IsOpen(h, p, L[p]) => IsOpen(g, p, L[p])) /\ (IsList(h, p, L[p]) => IsList(g, p, L[p]))
      BY <3>4 DEF IsOpen, IsList
    <3> QED BY <3>1, <3>2, <3>5
  <2>5. \A p \in Items : ToSet(M[p]) \subseteq g.live \ (R \ {item})
    <3> SUFFICES ASSUME NEW p \in Items
                 PROVE  ToSet(M[p]) \subseteq g.live \ (R \ {item})
      OBVIOUS
    <3>1. CASE p \in D
      BY <1>7, <1>9, <3>1
    <3>2. CASE p \notin D
      BY <1>1, <1>5, <1>7, <1>8, <3>2
    <3> QED BY <3>1, <3>2
  <2>6. \A p, q \in Items : p # q => ToSet(M[p]) \cap ToSet(M[q]) = {}
    <3>1. \A p, q \in Items : p # q => ToSet(L[p]) \cap ToSet(L[q]) = {}
      BY <1>1 DEF Shape
    <3> QED BY <1>7, <1>9, <3>1
  <2>7. \A i \in Items : ~IsMember(M, i) => g.next[i] = NULL /\ g.prev[i] = NULL
    BY <1>1, <1>6, <1>10
  <2>8. Acyclic(M)
    <3>1. Acyclic(L)
      BY <1>1 DEF Shape
    <3>2. \A q \in Items : ToSet(M[q]) \subseteq ToSet(L[q])
      BY <1>7, <1>9
    <3> QED BY <3>1, <3>2 DEF Acyclic
  <2> QED BY <1>7, <2>1, <2>2, <2>3, <2>4, <2>5, <2>6, <2>7, <2>8 DEF Shape
<1>12. Memory(g)
  <2>1. \A i \in Items : i \notin g.live => g.child[i] = NULL /\ g.key[i] = NULL /\ g.text[i] = NULL
    BY <1>1, <1>5, <1>6 DEF Memory
  <2>2. ASSUME NEW i \in g.live
        PROVE  /\ g.child[i] \in g.live \cup {NULL} /\ g.text[i] \in g.live \cup {NULL}
               /\ i \notin g.ref => g.text[i] \in {NULL, i}
    <3>1. /\ i \in h.live /\ i \notin D /\ i \in Items
          /\ g.child[i] = h.child[i] /\ g.text[i] = h.text[i]
          /\ h.child[i] \in h.live \cup {NULL} /\ h.text[i] \in h.live \cup {NULL}
          /\ (i \in g.ref <=> i \in h.ref)
      BY <1>1, <1>5, <1>6 DEF Memory
    <3>2. CASE i \in h.ref
      BY <1>4, <1>5, <3>1, <3>2
    <3>3. CASE i \notin h.ref
      <4>1. h.text[i] \in {NULL, i}
        BY <1>1, <3>1, <3>3 DEF Memory
      <4>2. h.child[i] # NULL => h.child[i] \in ToSet(L[i])
        <5>1. L[i] \in Seq(Items) /\ h.child[i] = IF L[i] = <<>> THEN NULL ELSE L[i][1]
          BY <3>1, <3>3, LinkFacts
        <5>2. L[i] # <<>> => 1 \in 1..Len(L[i])
          BY <5>1
        <5> QED BY <5>1, <5>2, MemberFacts
      <4>3. h.child[i] \notin D
        <5>1. NULL \notin D
          BY <1>2, ItemsAssumption
        <5> QED BY <1>8, <3>1, <4>2, <5>1
      <4> QED BY <1>5, <3>1, <4>1, <4>3
    <3> QED BY <3>2, <3>3
  <2>3. g.strings = Strings(g)
    <3> DEFINE K == {i \in h.live : OwnsKey(h, i)}
               T == {i \in h.live : OwnsText(h, i)}
               KD == {i \in D : OwnsKey(h, i)}
               TD == {i \in D : OwnsText(h, i)}
    <3>1. {i \in g.live : OwnsKey(g, i)} = K \ KD
      BY <1>1, <1>5, <1>6 DEF OwnsKey
    <3>2. {i \in g.live : OwnsText(g, i)} = T \ TD
      BY <1>1, <1>5, <1>6 DEF OwnsText
    <3>3. /\ K \in SUBSET Items /\ T \in SUBSET Items /\ KD \in SUBSET K /\ TD \in SUBSET T
          /\ h.strings = Cardinality(K) + Cardinality(T)
          /\ g.strings = h.strings - Cardinality(KD) - Cardinality(TD)
      BY <1>1, <1>2, <1>5 DEF Memory, Strings
    <3> HIDE DEF K, T, KD, TD
    <3>4. /\ Cardinality(K \ KD) = Cardinality(K) - Cardinality(KD)
          /\ Cardinality(T \ TD) = Cardinality(T) - Cardinality(TD)
      BY <3>3, CardinalityOfRest
    <3>5. /\ Cardinality(K) \in Nat /\ Cardinality(T) \in Nat
          /\ Cardinality(KD) \in Nat /\ Cardinality(TD) \in Nat
      <4>1. \A S \in SUBSET Items : Cardinality(S) \in Nat
        BY ItemsAssumption, FS_Subset, FS_CardinalityType
      <4>2. KD \in SUBSET Items /\ TD \in SUBSET Items
        BY <3>3
      <4> QED BY <3>3, <4>1, <4>2
    <3>6. Strings(g) = Cardinality(K \ KD) + Cardinality(T \ TD)
      BY <3>1, <3>2 DEF Strings
    <3> QED BY <3>3, <3>4, <3>5, <3>6
  <2>4. g.sound = TRUE
    BY <1>1, <1>2, <1>3, <1>5 DEF Memory
  <2> QED BY <2>1, <2>2, <2>3, <2>4 DEF Memory
<1>13. Kept(g, M, R \ {item})
  <2> SUFFICES ASSUME NEW i \in g.live \ (R \ {item}), ~IsMember(M, i)
               PROVE  i \in g.ref /\ g.key[i] = NULL
    BY DEF Kept
  <2>1. i \in h.live /\ i \notin D /\ i \in Items /\ i # item /\ i \notin R /\ ~IsMember(L, i)
    BY <1>1, <1>2, <1>5, <1>10
  <2>2. i \in h.ref /\ h.key[i] = NULL
    BY <1>1, <2>1 DEF Kept
  <2> QED BY <1>5, <1>6, <2>1, <2>2
<1> QED BY <1>5, <1>6, <1>11, <1>12, <1>13 DEF HeapInv, D, M

---------------------------------------------------------------------------
(* Names and strings. *)

\* g differs from h in the name of one item and in who owns it.
Renamed(h, g, item) ==
    /\ g \in AnyHeap
    /\ g.live = h.live /\ g.ref = h.ref /\ g.sound = h.sound
    /\ g.next = h.next /\ g.prev = h.prev /\ g.child = h.child /\ g.text = h.text
    /\ \A i \in Items : i # item => g.key[i] = h.key[i] /\ (i \in g.const <=> i \in h.const)
    /\ g.const \subseteq h.live
    /\ g.strings = h.strings + (IF OwnsKey(g, item) THEN 1 ELSE 0)
                             - (IF OwnsKey(h, item) THEN 1 ELSE 0)

\* A root or a member may get another name, with the count of the strings right.
LEMMA RenameKeeps ==
  ASSUME NEW h, NEW L, NEW R, NEW O, HeapInv(h, L, R, O), NEW item \in h.live,
         item \in R \/ IsMember(L, item), NEW g, Renamed(h, g, item)
  PROVE  HeapInv(g, L, R, O)
<1>1. /\ Shape(h, L, R, O) /\ Memory(h) /\ Kept(h, L, R) /\ h.live \in SUBSET Items /\ item \in Items
  BY HeapFacts
<1>2. /\ g.live = h.live /\ g.ref = h.ref /\ g.sound = h.sound
      /\ g.next = h.next /\ g.prev = h.prev /\ g.child = h.child /\ g.text = h.text
      /\ \A i \in Items : i # item => g.key[i] = h.key[i] /\ (i \in g.const <=> i \in h.const)
      /\ g.const \subseteq h.live
      /\ g.strings = h.strings + (IF OwnsKey(g, item) THEN 1 ELSE 0)
                               - (IF OwnsKey(h, item) THEN 1 ELSE 0)
  BY DEF Renamed
<1>3. Shape(g, L, R, O)
  BY <1>1, <1>2, ShapeIsKept
<1>4. Memory(g)
  <2> DEFINE K == {i \in h.live : OwnsKey(h, i)}
             J == {i \in g.live : OwnsKey(g, i)}
             T == {i \in h.live : OwnsText(h, i)}
  <2>1. {i \in g.live : OwnsText(g, i)} = T
    BY <1>2 DEF OwnsText
  <2>2. /\ OwnsKey(h, item) => K = (J \ {item}) \cup {item}
        /\ ~OwnsKey(h, item) => K = J \ {item}
        /\ item \in J <=> OwnsKey(g, item)
    BY <1>1, <1>2 DEF OwnsKey
  <2>3. h.strings = Cardinality(K) + Cardinality(T) /\ K \subseteq Items /\ J \subseteq Items
        /\ T \subseteq Items
    BY <1>1, <1>2 DEF Memory, Strings
  <2>4. Strings(g) = Cardinality(J) + Cardinality(T)
    BY <2>1 DEF Strings
  <2> HIDE DEF K, J, T
  <2>5. IsFiniteSet(J) /\ IsFiniteSet(K) /\ IsFiniteSet(T)
    BY <2>3, ItemsAssumption, FS_Subset
  <2>6. Cardinality(J \ {item}) = (IF item \in J THEN Cardinality(J) - 1 ELSE Cardinality(J))
        /\ IsFiniteSet(J \ {item}) /\ Cardinality(J) \in Nat /\ Cardinality(K) \in Nat
        /\ Cardinality(T) \in Nat
    BY <2>5, FS_RemoveElement, FS_CardinalityType
  <2>7. Cardinality((J \ {item}) \cup {item}) = Cardinality(J \ {item}) + 1
    BY <2>6, FS_AddElement
  <2>8. g.strings = Strings(g)
    <3>1. Cardinality(K) = Cardinality(J \ {item}) + (IF OwnsKey(h, item) THEN 1 ELSE 0)
      <4>1. CASE OwnsKey(h, item)
        <5>1. Cardinality(K) = Cardinality(J \ {item}) + 1
          BY <2>2, <2>7, <4>1
        <5> QED BY <4>1, <5>1
      <4>2. CASE ~OwnsKey(h, item)
        <5>1. Cardinality(K) = Cardinality(J \ {item})
          BY <2>2, <4>2
        <5> QED BY <2>6, <4>2, <5>1
      <4> QED BY <4>1, <4>2
    <3>2. Cardinality(J \ {item}) = Cardinality(J) - (IF OwnsKey(g, item) THEN 1 ELSE 0)
      BY <2>2, <2>6
    <3>3. g.strings = h.strings + (IF OwnsKey(g, item) THEN 1 ELSE 0)
                                - (IF OwnsKey(h, item) THEN 1 ELSE 0)
      BY <1>2
    <3>4. h.strings = Cardinality(K) + Cardinality(T) /\ Strings(g) = Cardinality(J) + Cardinality(T)
      BY <2>3, <2>4
    <3>5. Cardinality(J) \in Nat /\ Cardinality(K) \in Nat /\ Cardinality(T) \in Nat
      BY <2>6
    <3> QED BY <3>1, <3>2, <3>3, <3>4, <3>5
  <2> QED BY <1>1, <1>2, <2>8 DEF Memory
<1>5. Kept(g, L, R)
  BY <1>1, <1>2 DEF Kept
<1> QED BY <1>3, <1>4, <1>5 DEF HeapInv, Renamed

\* g differs from h in the string of an item that had none.
Texted(h, g, item) ==
    /\ g \in AnyHeap
    /\ g.live = h.live /\ g.ref = h.ref /\ g.const = h.const /\ g.sound = h.sound
    /\ g.next = h.next /\ g.prev = h.prev /\ g.child = h.child /\ g.key = h.key
    /\ g.text = [h.text EXCEPT ![item] = item]
    /\ g.strings = h.strings + 1

\* A new item gets a string of its own.
LEMMA TextKeeps ==
  ASSUME NEW h, NEW L, NEW R, NEW O, HeapInv(h, L, R, O), NEW item \in h.live \ h.ref,
         h.text[item] = NULL, NEW g, Texted(h, g, item)
  PROVE  HeapInv(g, L, R, O)
<1>1. /\ Shape(h, L, R, O) /\ Memory(h) /\ Kept(h, L, R) /\ h.live \in SUBSET Items /\ item \in Items
      /\ item # NULL /\ h \in AnyHeap /\ h.const \subseteq h.live
  BY HeapFacts, ItemsAssumption
<1>2. /\ g.live = h.live /\ g.ref = h.ref /\ g.const = h.const /\ g.sound = h.sound
      /\ g.next = h.next /\ g.prev = h.prev /\ g.child = h.child /\ g.key = h.key
      /\ g.strings = h.strings + 1
  BY DEF Texted
<1>3. \A i \in Items : g.text[i] = IF i = item THEN item ELSE h.text[i]
  <2>1. h.text \in [Items -> Items \cup {NULL}]
    BY <1>1, AnyHeapTypes
  <2> QED BY <2>1 DEF Texted
<1>4. Shape(g, L, R, O)
  BY <1>1, <1>2, ShapeIsKept
<1>5. Memory(g)
  <2> DEFINE K == {i \in h.live : OwnsKey(h, i)}
             T == {i \in h.live : OwnsText(h, i)}
  <2>1. {i \in g.live : OwnsText(g, i)} = T \cup {item} /\ item \notin T
    BY <1>1, <1>2, <1>3 DEF OwnsText
  <2>2. {i \in g.live : OwnsKey(g, i)} = K
    BY <1>2 DEF OwnsKey
  <2>3. h.strings = Cardinality(K) + Cardinality(T) /\ K \subseteq Items /\ T \subseteq Items
    BY <1>1 DEF Memory, Strings
  <2>4. Strings(g) = Cardinality(K) + Cardinality(T \cup {item})
    BY <2>1, <2>2 DEF Strings
  <2> HIDE DEF K, T
  <2>5. IsFiniteSet(K) /\ IsFiniteSet(T)
    BY <2>3, ItemsAssumption, FS_Subset
  <2>6. Cardinality(T \cup {item}) = Cardinality(T) + 1
        /\ Cardinality(T) \in Nat /\ Cardinality(K) \in Nat
    BY <2>1, <2>5, FS_AddElement, FS_CardinalityType
  <2>7. g.strings = Strings(g)
    BY <1>2, <2>3, <2>4, <2>6
  <2> QED BY <1>1, <1>2, <1>3, <2>7 DEF Memory
<1>6. Kept(g, L, R)
  BY <1>1, <1>2 DEF Kept
<1> QED BY <1>4, <1>5, <1>6 DEF HeapInv, Texted

---------------------------------------------------------------------------
(* Lists under construction. *)

\* One link of one item.
LEMMA NextLink ==
  ASSUME NEW h \in AnyHeap, NEW i \in Items, NEW v \in Items \cup {NULL},
         NEW g, g = [h EXCEPT !.next[i] = v]
  PROVE  Relinked(h, g)
BY DEF AnyHeap, Relinked

\* The same for prev ...
LEMMA PrevLink ==
  ASSUME NEW h \in AnyHeap, NEW i \in Items, NEW v \in Items \cup {NULL},
         NEW g, g = [h EXCEPT !.prev[i] = v]
  PROVE  Relinked(h, g)
BY DEF AnyHeap, Relinked

\* ... and for child.
LEMMA ChildLink ==
  ASSUME NEW h \in AnyHeap, NEW i \in Items, NEW v \in Items \cup {NULL},
         NEW g, g = [h EXCEPT !.child[i] = v]
  PROVE  Relinked(h, g)
BY DEF AnyHeap, Relinked

\* suffix_object() changes links only.
LEMMA SuffixRelinks ==
  ASSUME NEW h \in AnyHeap, NEW i \in Items, NEW j \in Items
  PROVE  Relinked(h, suffix_object(h, i, j))
BY DEF AnyHeap, Relinked, suffix_object

\* Only lists with members are open or closed.
LEMMA OpenKeeps ==
  ASSUME NEW h, NEW L, NEW R, NEW O, HeapInv(h, L, R, O), NEW P,
         \A q \in h.live \ h.ref : L[q] # <<>> => (q \in P <=> q \in O)
  PROVE  HeapInv(h, L, R, P)
<1>1. h \in AnyHeap /\ Shape(h, L, R, O) /\ Memory(h) /\ Kept(h, L, R)
  BY HeapFacts
<1>2. ASSUME NEW p \in h.live \ h.ref
      PROVE  IF p \in P THEN IsOpen(h, p, L[p]) ELSE IsList(h, p, L[p])
  <2>1. IF p \in O THEN IsOpen(h, p, L[p]) ELSE IsList(h, p, L[p])
    BY <1>1 DEF Shape
  <2>2. CASE L[p] # <<>>
    BY <2>1, <2>2
  <2>3. CASE L[p] = <<>>
    <3>1. h.child[p] = NULL
      BY <2>1, <2>3 DEF IsOpen, IsList
    <3>2. IsOpen(h, p, <<>>) /\ IsList(h, p, <<>>)
      BY <3>1 DEF IsOpen, IsList, Distinct
    <3> QED BY <2>3, <3>2
  <2> QED BY <2>2, <2>3
<1>3. Shape(h, L, R, P)
  BY <1>1, <1>2 DEF Shape
<1> QED BY <1>1, <1>3 DEF HeapInv

\* A root becomes the last member of an open list.
LEMMA OpenAppend ==
  ASSUME NEW h, NEW L, NEW R, NEW O, HeapInv(h, L, R, O),
         NEW p \in h.live \ h.ref, p \in O, NEW c \in R, p \notin Tree(L, c),
         NEW g, g = IF L[p] = <<>> THEN [h EXCEPT !.child[p] = c]
                    ELSE suffix_object(h, L[p][Len(L[p])], c)
  PROVE  HeapInv(g, [L EXCEPT ![p] = Append(@, c)], R \ {c}, O) /\ Relinked(h, g)
<1> DEFINE s == L[p]
           n == Len(s)
           t == Append(s, c)
<1>1. /\ h \in AnyHeap /\ L \in [Items -> Seq(Items)] /\ p \in Items /\ c \in Items /\ c # NULL
      /\ Shape(h, L, R, O) /\ R \subseteq Items
      /\ \A q \in Items : c \notin ToSet(L[q])
      /\ h.next \in [Items -> Items \cup {NULL}] /\ h.prev \in [Items -> Items \cup {NULL}]
      /\ h.child \in [Items -> Items \cup {NULL}]
  <2>1. h \in AnyHeap /\ p \in Items /\ c \in Items /\ \A q \in Items : ToSet(L[q]) \subseteq h.live \ R
    BY HeapFacts
  <2> QED BY <2>1, HeapFacts, AnyHeapTypes, ItemsAssumption
<1>2. h.next[c] = NULL /\ h.prev[c] = NULL
  BY <1>1 DEF Shape, IsMember
<1>3. /\ s \in Seq(Items) /\ n \in Nat /\ (n = 0 <=> s = <<>>)
      /\ \A j, k \in 1..n : s[j] = s[k] => j = k
      /\ h.child[p] = IF s = <<>> THEN NULL ELSE s[1]
      /\ \A k \in 1..n : s[k] \in Items /\ s[k] # c
      /\ \A k \in 1..n : /\ h.next[s[k]] = IF k = n THEN NULL ELSE s[k + 1]
                         /\ h.prev[s[k]] = IF k = 1 THEN NULL ELSE s[k - 1]
  <2>1. IsOpen(h, p, s) /\ s \in Seq(Items)
    BY <1>1 DEF Shape
  <2>2. \A k \in 1..n : s[k] \in Items /\ s[k] # c
    BY <1>1, <2>1, MemberFacts
  <2> QED BY <2>1, <2>2 DEF IsOpen, Distinct
<1>4. /\ t \in Seq(Items) /\ Len(t) = n + 1 /\ t # <<>>
      /\ \A k \in 1..(n + 1) : t[k] = IF k = n + 1 THEN c ELSE s[k]
  <2>1. s \in Seq(Items) /\ c \in Items
    BY <1>1, <1>3
  <2> HIDE DEF s
  <2> QED BY <2>1
<1>5. ToSet(t) = (ToSet(s) \ {}) \cup {c}
  BY <1>1, <1>3, AppendMembers
<1> HIDE DEF t
<1>6. Relinked(h, g) /\ OnlyTouches(h, g, p, ToSet(s) \cup {c}) /\ IsOpen(g, p, t)
  <2>1. CASE s = <<>>
    <3>1. g = [h EXCEPT !.child[p] = c]
      BY <2>1
    <3>2. Relinked(h, g)
      <4>1. h \in AnyHeap /\ p \in Items /\ c \in Items \cup {NULL}
        BY <1>1
      <4> QED BY <3>1, <4>1, ChildLink
    <3>3. /\ g.next = h.next /\ g.prev = h.prev
          /\ \A q \in Items : g.child[q] = IF q = p THEN c ELSE h.child[q]
      BY <1>1, <3>1 DEF AnyHeap
    <3>4. IsHeap(g)
      BY <3>2, RelinkedHeap, AnyHeapTypes
    <3>5. OnlyTouches(h, g, p, ToSet(s) \cup {c})
      BY <3>3, <3>4 DEF OnlyTouches
    <3>6. Len(t) = 1 /\ t[1] = c /\ DOMAIN t = 1..1
      BY <1>3, <1>4, <2>1
    <3>7. IsOpen(g, p, t)
      <4>1. Distinct(t)
        BY <3>6 DEF Distinct
      <4>2. g.child[p] = t[1] /\ g.next[t[1]] = NULL /\ g.prev[t[1]] = NULL
        BY <1>1, <1>2, <3>3, <3>6
      <4> QED BY <1>4, <3>6, <4>1, <4>2 DEF IsOpen
    <3> QED BY <3>2, <3>5, <3>7
  <2>2. CASE s # <<>>
    <3> DEFINE b == s[n]
    <3>0. n \in 1..n /\ 1 \in 1..n
      BY <1>3, <2>2
    <3>1. g = [h EXCEPT !.next[b] = c, !.prev[c] = b] /\ b \in Items /\ b # c
      BY <1>3, <2>2, <3>0 DEF suffix_object
    <3>2. Relinked(h, g)
      <4>1. h \in AnyHeap /\ b \in Items /\ c \in Items /\ g = suffix_object(h, b, c)
        BY <1>1, <2>2, <3>1
      <4> HIDE DEF b
      <4>2. Relinked(h, suffix_object(h, b, c))
        BY <4>1, SuffixRelinks
      <4> QED BY <4>1, <4>2
    <3>3. /\ g.child = h.child
          /\ \A i \in Items : g.next[i] = IF i = b THEN c ELSE h.next[i]
          /\ \A i \in Items : g.prev[i] = IF i = c THEN b ELSE h.prev[i]
      <4> HIDE DEF b
      <4>1. h \in AnyHeap /\ b \in Items /\ c \in Items
        BY <1>1, <3>1
      <4>2. /\ g.child = h.child /\ g.next = [h.next EXCEPT ![b] = c]
            /\ g.prev = [h.prev EXCEPT ![c] = b]
        BY <3>1, <4>1 DEF AnyHeap
      <4> QED BY <1>1, <4>1, <4>2
    <3>4. IsHeap(g)
      BY <3>2, RelinkedHeap, AnyHeapTypes
    <3>5. OnlyTouches(h, g, p, ToSet(s) \cup {c})
      <4>1. b \in ToSet(s)
        BY <1>3, <3>0, MemberFacts
      <4> HIDE DEF b
      <4> QED BY <3>3, <3>4, <4>1 DEF OnlyTouches
    <3>6. /\ DOMAIN t = 1..(n + 1)
          /\ \A j, k \in 1..(n + 1) : t[j] = t[k] => j = k
      <4>1. DOMAIN t = 1..(n + 1)
        BY <1>4
      <4>2. ASSUME NEW j \in 1..(n + 1), NEW k \in 1..(n + 1), t[j] = t[k]
            PROVE  j = k
        <5>1. j = n + 1 \/ j \in 1..n
          BY <1>3
        <5>2. k = n + 1 \/ k \in 1..n
          BY <1>3
        <5>3. n + 1 \notin 1..n
          BY <1>3
        <5> QED BY <1>3, <1>4, <4>2, <5>1, <5>2, <5>3
      <4> QED BY <4>1, <4>2
    <3>7. g.child[p] = t[1]
      <4>1. 1 \in 1..(n + 1) /\ 1 # n + 1
        BY <1>3, <3>0
      <4> QED BY <1>3, <1>4, <2>2, <3>3, <4>1
    <3>8. ASSUME NEW k \in 1..(n + 1)
          PROVE  /\ g.next[t[k]] = IF k = n + 1 THEN NULL ELSE t[k + 1]
                 /\ g.prev[t[k]] = IF k = 1 THEN NULL ELSE t[k - 1]
      <4>1. CASE k = n + 1
        <5>1. t[k] = c /\ k # 1 /\ k - 1 = n /\ k - 1 \in 1..(n + 1) /\ k - 1 # n + 1
          BY <1>3, <1>4, <3>0, <4>1
        <5>2. t[k - 1] = b
          BY <1>4, <5>1
        <5> QED BY <1>1, <1>2, <3>1, <3>3, <4>1, <5>1, <5>2
      <4>2. CASE k # n + 1
        <5>1. k \in 1..n /\ t[k] = s[k] /\ s[k] \in Items /\ s[k] # c
          BY <1>3, <1>4, <4>2
        <5>2. g.prev[t[k]] = IF k = 1 THEN NULL ELSE t[k - 1]
          <6>1. k # 1 => k - 1 \in 1..(n + 1) /\ k - 1 # n + 1
            BY <5>1
          <6> QED BY <1>3, <1>4, <3>3, <5>1, <6>1
        <5>3. g.next[t[k]] = t[k + 1]
          <6>1. k + 1 \in 1..(n + 1)
            BY <1>3, <5>1
          <6>2. CASE k = n
            <7>1. t[k + 1] = c /\ s[k] = b
              BY <1>4, <6>1, <6>2
            <7> QED BY <3>3, <5>1, <7>1
          <6>3. CASE k # n
            <7>1. s[k] # b
              BY <1>3, <3>0, <5>1, <6>3
            <7>2. k + 1 # n + 1
              BY <5>1, <6>3
            <7>3. t[k + 1] = s[k + 1]
              BY <1>4, <6>1, <7>2
            <7> QED BY <1>3, <3>3, <5>1, <6>3, <7>1, <7>3
          <6> QED BY <6>2, <6>3
        <5> QED BY <4>2, <5>2, <5>3
      <4> QED BY <4>1, <4>2
    <3>9. IsOpen(g, p, t)
      BY <1>4, <3>6, <3>7, <3>8 DEF IsOpen, Distinct
    <3> QED BY <3>2, <3>5, <3>9
  <2> QED BY <2>1, <2>2
<1>7. /\ c \in Tree(L, c) /\ Tree(L, c) \in SUBSET Items
      /\ \A q \in Tree(L, c) : ToSet(L[q]) \subseteq Tree(L, c)
  BY <1>1, TreeFacts
<1>8. HeapInv(g, [L EXCEPT ![p] = t], (R \ {c}) \cup {}, O)
  <2>1. {c} \in SUBSET R /\ {} \in SUBSET ToSet(L[p]) /\ {c} \subseteq Tree(L, c)
    BY <1>7
  <2>2. IF p \in O THEN IsOpen(g, p, t) ELSE IsList(g, p, t)
    BY <1>6
  <2> QED BY <1>4, <1>5, <1>6, <1>7, <2>1, <2>2, RelinkKeeps
<1>9. (R \ {c}) \cup {} = R \ {c} /\ [L EXCEPT ![p] = t] = [L EXCEPT ![p] = Append(@, c)]
  BY DEF t
<1> QED BY <1>6, <1>8, <1>9

\* The first member is led to the last one: the list is whole.
LEMMA CloseList ==
  ASSUME NEW h, NEW L, NEW R, NEW O, HeapInv(h, L, R, O),
         NEW p \in h.live \ h.ref, p \in O, L[p] # <<>>,
         NEW g, g = [h EXCEPT !.prev[h.child[p]] = L[p][Len(L[p])]]
  PROVE  HeapInv(g, L, R, O \ {p}) /\ Relinked(h, g)
<1> DEFINE s == L[p]
           n == Len(s)
           b == s[n]
<1>1. /\ h \in AnyHeap /\ L \in [Items -> Seq(Items)] /\ p \in Items /\ Shape(h, L, R, O)
      /\ h.prev \in [Items -> Items \cup {NULL}]
  <2>1. h \in AnyHeap
    BY HeapFacts
  <2> QED BY <2>1, HeapFacts, AnyHeapTypes
<1>2. IsOpen(h, p, s) /\ s \in Seq(Items) /\ n \in Nat \ {0} /\ n \in 1..n /\ 1 \in 1..n
  BY <1>1 DEF Shape
<1>3. /\ \A j, k \in 1..n : s[j] = s[k] => j = k
      /\ h.child[p] = s[1]
      /\ \A k \in 1..n : s[k] \in Items
      /\ \A k \in 1..n : /\ h.next[s[k]] = IF k = n THEN NULL ELSE s[k + 1]
                         /\ h.prev[s[k]] = IF k = 1 THEN NULL ELSE s[k - 1]
  <2>1. \A k \in 1..n : s[k] \in Items
    BY <1>2
  <2> QED BY <1>2, <2>1 DEF IsOpen, Distinct
<1>4. b \in Items /\ s[1] \in Items /\ g = [h EXCEPT !.prev[s[1]] = b]
  BY <1>2, <1>3
<1>5. Relinked(h, g)
  <2> HIDE DEF b, s
  <2>1. h \in AnyHeap /\ b \in Items /\ s[1] \in Items
    BY <1>1, <1>4
  <2> QED BY <1>4, <2>1, PrevLink
<1>6. /\ g.child = h.child /\ g.next = h.next
      /\ \A i \in Items : g.prev[i] = IF i = s[1] THEN b ELSE h.prev[i]
  <2> HIDE DEF b, s
  <2> QED BY <1>1, <1>4 DEF AnyHeap
<1>7. OnlyTouches(h, g, p, ToSet(s) \cup {})
  <2>1. IsHeap(g)
    BY <1>5, RelinkedHeap, AnyHeapTypes
  <2>2. s[1] \in ToSet(s)
    BY <1>2, MemberFacts
  <2> QED BY <1>6, <2>1, <2>2 DEF OnlyTouches
<1>8. IsList(g, p, s)
  <2>1. g.child[p] = IF Len(s) = 0 THEN NULL ELSE s[1]
    BY <1>2, <1>3, <1>6
  <2>2. \A k \in 1..Len(s) : g.next[s[k]] = IF k = Len(s) THEN NULL ELSE s[k + 1]
    BY <1>3, <1>6
  <2>3. \A k \in 1..Len(s) : g.prev[s[k]] = IF k = 1 THEN s[Len(s)] ELSE s[k - 1]
    BY <1>2, <1>3, <1>6
  <2> QED BY <1>2, <1>3, <2>1, <2>2, <2>3, ListByLinks
<1>9. HeapInv(g, [L EXCEPT ![p] = s], (R \ {}) \cup {}, O \ {p})
  <2>1. /\ \A q \in Items \ {p} : q \in O \ {p} <=> q \in O
        /\ IF p \in O \ {p} THEN IsOpen(g, p, s) ELSE IsList(g, p, s)
        /\ {} \in SUBSET R /\ {} \in SUBSET ToSet(L[p])
        /\ ToSet(s) = (ToSet(L[p]) \ {}) \cup {}
        /\ \A i \in {} : g.next[i] = NULL /\ g.prev[i] = NULL
        /\ {} \in SUBSET Items /\ p \notin {} /\ {} \subseteq {}
        /\ \A q \in {} : ToSet(L[q]) \subseteq {}
    BY <1>8
  <2> QED BY <1>2, <1>5, <1>7, <2>1, RelinkKeeps
<1>10. [L EXCEPT ![p] = s] = L /\ (R \ {}) \cup {} = R
  BY <1>1
<1> QED BY <1>5, <1>9, <1>10
---------------------------------------------------------------------------
(* What a call that makes a tree does: a new tree, or nothing.             *)

\* The heap is as it was before the call.
Undone(h, g, L, R, O) ==
    /\ HeapInv(g, L, R, O) /\ g.live = h.live /\ g.ref = h.ref
    /\ \A r \in h.ref : g.child[r] = h.child[r] /\ g.text[r] = h.text[r]

\* From h, with the members L, to g, with the members M, the tree of n was added.
Grown(h, L, g, M, n) ==
    /\ n \in g.live \ h.live /\ h.live \subseteq g.live /\ g.ref = h.ref
    /\ \A r \in h.ref : g.child[r] = h.child[r] /\ g.text[r] = h.text[r]
    /\ \A p \in h.live : M[p] = L[p]
    /\ Tree(M, n) = g.live \ h.live

\* ... and is whole.
IsMade(h, L, R, O, g, n, M) == HeapInv(g, M, R \cup {n}, O) /\ Grown(h, L, g, M, n)

\* ... and the list of n is still open.
Growing(h, L, R, O, g, n, M) ==
    HeapInv(g, M, R \cup {n}, O \cup {n}) /\ Grown(h, L, g, M, n)

Made(h, g, L, R, O) == \E M : IsMade(h, L, R, O, g, g.ret, M)

Makes(h, g, L, R, O) ==
    IF g.ret = NULL THEN Undone(h, g, L, R, O) ELSE Made(h, g, L, R, O)

\* What has grown, by parts.
LEMMA GrownFacts ==
  ASSUME NEW h, NEW L, NEW g, NEW M, NEW n, Grown(h, L, g, M, n)
  PROVE  /\ n \in g.live \ h.live /\ h.live \subseteq g.live /\ g.ref = h.ref
         /\ \A r \in h.ref : g.child[r] = h.child[r] /\ g.text[r] = h.text[r]
         /\ \A p \in h.live : M[p] = L[p]
         /\ Tree(M, n) = g.live \ h.live
BY DEF Grown

\* The links, the names and the flags of a new tree may still change.
LEMMA GrownKeeps ==
  ASSUME NEW h, NEW L, NEW f, NEW M, NEW n, Grown(h, L, f, M, n),
         NEW g, g.live = f.live, g.ref = f.ref,
         \A r \in h.ref : g.child[r] = f.child[r] /\ g.text[r] = f.text[r]
  PROVE  Grown(h, L, g, M, n)
BY DEF Grown

\* Neither fuel nor ret matter to what has grown ...
LEMMA SameItemsAreGrown ==
  ASSUME NEW h, NEW L, NEW f, NEW M, NEW n, Grown(h, L, f, M, n), NEW g, SameItems(f, g)
  PROVE  Grown(h, L, g, M, n)
<1>1. g.live = f.live /\ g.ref = f.ref /\ g.child = f.child /\ g.text = f.text
  BY DEF SameItems
<1> QED BY <1>1, GrownKeeps

\* ... nor to what was made or is being made.
LEMMA SameItemsAreMade ==
  ASSUME NEW h, NEW L, NEW R, NEW O, NEW f, NEW n, NEW M, NEW g, SameItems(f, g)
  PROVE  /\ IsMade(h, L, R, O, f, n, M) => IsMade(h, L, R, O, g, n, M)
         /\ Growing(h, L, R, O, f, n, M) => Growing(h, L, R, O, g, n, M)
BY SameItemsAreGrown, SameItemsKeep DEF IsMade, Growing

\* A new tree is its caller's, and no reference.
LEMMA MadeFacts ==
  ASSUME NEW h, NEW L, NEW R, NEW O, HeapInv(h, L, R, O), NEW f, NEW n, NEW M,
         IsMade(h, L, R, O, f, n, M) \/ Growing(h, L, R, O, f, n, M)
  PROVE  /\ n \in f.live \ f.ref /\ n \in f.live \ h.live /\ n \in Items /\ n # NULL
         /\ h.live \subseteq f.live /\ f.ref = h.ref /\ M[n] \in Seq(Items)
         /\ f \in AnyHeap /\ f.live \in SUBSET Items /\ f.const \subseteq f.live
         /\ f.child[n] = IF M[n] = <<>> THEN NULL ELSE M[n][1]
         /\ M[n] # <<>> => M[n][1] \in Items
<1>1. PICK P : HeapInv(f, M, R \cup {n}, P) /\ Grown(h, L, f, M, n)
  BY DEF IsMade, Growing
<1>2. /\ n \in f.live \ h.live /\ f.ref = h.ref /\ h.ref \subseteq h.live /\ h.live \subseteq f.live
      /\ f.live \in SUBSET Items /\ f \in AnyHeap /\ M \in [Items -> Seq(Items)]
      /\ f.const \subseteq f.live
  BY <1>1, GrownFacts, HeapFacts
<1>3. M[n] \in Seq(Items) /\ n \in Items /\ n \in f.live \ f.ref
  BY <1>2
<1>4. f.child[n] = IF M[n] = <<>> THEN NULL ELSE M[n][1]
  BY <1>1, <1>3, LinkFacts
<1>5. M[n] # <<>> => M[n][1] \in Items
  BY <1>3
<1>6. n # NULL
  BY <1>3, ItemsAssumption
<1> QED BY <1>2, <1>3, <1>4, <1>5, <1>6

\* The tree of an item without members.
LEMMA LeafTree ==
  ASSUME NEW L \in [Items -> Seq(Items)], NEW i \in Items, L[i] = <<>>
  PROVE  Tree(L, i) = {i}
<1>1. ToSet(L[i]) = {}
  BY DEF ToSet
<1>2. {i} \in SUBSET Items /\ i \in {i} /\ \A p \in {i} : ToSet(L[p]) \subseteq {i}
  BY <1>1
<1> QED BY <1>2, TreeFacts

\* Its list is empty.
LEMMA NewItemIsBlank ==
  ASSUME NEW h, NEW L, NEW R, NEW O, HeapInv(h, L, R, O), NEW g, g = cJSON_New_Item(h),
         NEW n, n = g.ret, n # NULL
  PROVE  Allocated(h, g, n) /\ L[n] = <<>>
BY NewItemFacts

\* A new item is a tree of its own.
LEMMA NewItemIsMade ==
  ASSUME NEW h, NEW L, NEW R, NEW O, HeapInv(h, L, R, O), NEW g, g = cJSON_New_Item(h),
         NEW n, n = g.ret, n # NULL
  PROVE  IsMade(h, L, R, O, g, n, L) /\ Growing(h, L, R, O, g, n, L)
<1>1. L \in [Items -> Seq(Items)]
  BY HeapFacts
<1>2. Allocated(h, g, n) /\ HeapInv(g, L, R \cup {n}, O) /\ L[n] = <<>>
  BY NewItemFacts
<1>3. Tree(L, n) = {n}
  BY <1>1, <1>2, LeafTree DEF Allocated
<1>4. Grown(h, L, g, L, n)
  BY <1>2, <1>3 DEF Grown, Allocated
<1>5. HeapInv(g, L, R \cup {n}, O \cup {n})
  <2>1. \A q \in g.live \ g.ref : L[q] # <<>> => (q \in O \cup {n} <=> q \in O)
    BY <1>2
  <2> QED BY <1>2, <2>1, OpenKeeps
<1> QED BY <1>2, <1>4, <1>5 DEF IsMade, Growing

\* cJSON_New_Item() makes a tree of one item, or nothing.
LEMMA NewItemMakes ==
  ASSUME NEW h, NEW L, NEW R, NEW O, HeapInv(h, L, R, O), NEW g, g = cJSON_New_Item(h)
  PROVE  Makes(h, g, L, R, O)
<1>1. CASE g.ret = NULL
  <2>1. h \in AnyHeap /\ ~(g.ret \in Items)
    BY <1>1, HeapFacts, ItemsAssumption
  <2>2. g = Ret(h, NULL)
    BY <2>1, NewItemFacts DEF Allocated
  <2>3. HeapInv(g, L, R, O)
    BY <2>2, RetKeeps
  <2>4. SameItems(h, g)
    BY <2>1, <2>2, RetFacts
  <2> QED BY <1>1, <2>3, <2>4 DEF Makes, Undone, SameItems
<1>2. CASE g.ret # NULL
  <2>1. IsMade(h, L, R, O, g, g.ret, L)
    BY <1>2, NewItemIsMade
  <2> QED BY <1>2, <2>1 DEF Makes, Made
<1> QED BY <1>1, <1>2

\* When the new tree is deleted again, the heap is as it was.
LEMMA UndoGrown ==
  ASSUME NEW h, NEW L, NEW R, NEW O, HeapInv(h, L, R, O),
         NEW f, NEW M, NEW n, NEW P, HeapInv(f, M, R \cup {n}, P), Grown(h, L, f, M, n),
         \A q \in h.live : q \in P <=> q \in O,
         NEW g, g = Ret(cJSON_Delete(f, n), NULL)
  PROVE  Undone(h, g, L, R, O) /\ g.ret = NULL
<1> DEFINE k == cJSON_Delete(f, n)
           T == Tree(M, n)
<1>1. /\ n \in f.live \ h.live /\ h.live \subseteq f.live /\ f.ref = h.ref
      /\ \A r \in h.ref : f.child[r] = h.child[r] /\ f.text[r] = h.text[r]
      /\ \A p \in h.live : M[p] = L[p]
      /\ T = f.live \ h.live
  BY GrownFacts
<1>2. /\ Memory(h) /\ h.live \in SUBSET Items /\ h.ref \subseteq h.live /\ R \subseteq h.live
      /\ \A p \in Items : p \notin h.live \ h.ref => L[p] = <<>>
      /\ L \in [Items -> Seq(Items)]
  BY HeapFacts
<1>3. /\ f.live \in SUBSET Items /\ M \in [Items -> Seq(Items)]
      /\ \A p \in Items : p \notin f.live \ f.ref => M[p] = <<>>
  BY HeapFacts
<1> HIDE DEF T
<1>4. \A r \in f.ref \ T : f.child[r] \notin T /\ f.text[r] \notin T
  <2>1. \A r \in h.ref : h.child[r] \in h.live \cup {NULL} /\ h.text[r] \in h.live \cup {NULL}
    BY <1>2 DEF Memory
  <2>2. NULL \notin T /\ T \cap h.live = {}
    BY <1>1, <1>3, ItemsAssumption
  <2> QED BY <1>1, <2>1, <2>2
<1>5. /\ HeapInv(k, Pruned(M, T), (R \cup {n}) \ {n}, P)
      /\ k.live = f.live \ T /\ k.ref = f.ref \ T
      /\ \A i \in Items : i \notin T => k.child[i] = f.child[i] /\ k.text[i] = f.text[i]
  <2> DEFINE Q == R \cup {n}
  <2>1. n \in Q /\ HeapInv(f, M, Q, P)
    OBVIOUS
  <2>2. \A r \in f.ref \ Tree(M, n) : f.child[r] \notin Tree(M, n) /\ f.text[r] \notin Tree(M, n)
    BY <1>4 DEF T
  <2> HIDE DEF Q
  <2>3. /\ HeapInv(k, Pruned(M, Tree(M, n)), Q \ {n}, P)
        /\ k.live = f.live \ Tree(M, n) /\ k.ref = f.ref \ Tree(M, n)
        /\ \A i \in Items : i \notin Tree(M, n) =>
              k.child[i] = f.child[i] /\ k.text[i] = f.text[i]
    BY <2>1, <2>2, DeleteKeeps
  <2> QED BY <2>3 DEF Q, T
<1> HIDE DEF k
<1>6. /\ k.live = h.live /\ k.ref = h.ref
      /\ \A r \in h.ref : k.child[r] = h.child[r] /\ k.text[r] = h.text[r]
  BY <1>1, <1>2, <1>5
<1>7. Pruned(M, T) = L
  <2>1. \A i \in Items : (IF i \in T THEN <<>> ELSE M[i]) = L[i]
    BY <1>1, <1>2, <1>3
  <2>2. Pruned(M, T) = [i \in Items |-> L[i]]
    BY <2>1 DEF Pruned
  <2> QED BY <1>2, <2>2
<1>8. (R \cup {n}) \ {n} = R
  BY <1>1, <1>2
<1>9. HeapInv(k, L, R, O)
  <2>1. HeapInv(k, L, R, P)
    BY <1>5, <1>7, <1>8
  <2>2. \A q \in k.live \ k.ref : L[q] # <<>> => (q \in O <=> q \in P)
    BY <1>6
  <2> QED BY <2>1, <2>2, OpenKeeps
<1>10. g = Ret(k, NULL) /\ k \in AnyHeap
  BY <1>9, HeapFacts DEF k
<1>11. HeapInv(g, L, R, O)
  BY <1>9, <1>10, RetKeeps
<1>12. SameItems(k, g) /\ g.ret = NULL
  BY <1>10, RetFacts
<1> QED BY <1>6, <1>11, <1>12 DEF Undone, SameItems

\* The tree that was made is deleted, and all is as it was.
LEMMA UndoMade ==
  ASSUME NEW h, NEW L, NEW R, NEW O, HeapInv(h, L, R, O), NEW f, NEW n, NEW M,
         IsMade(h, L, R, O, f, n, M) \/ Growing(h, L, R, O, f, n, M),
         NEW g, g = Ret(cJSON_Delete(f, n), NULL)
  PROVE  Undone(h, g, L, R, O) /\ g.ret = NULL
<1>1. n \notin h.live
  BY MadeFacts
<1>2. CASE IsMade(h, L, R, O, f, n, M)
  BY <1>2, UndoGrown DEF IsMade
<1>3. CASE Growing(h, L, R, O, f, n, M)
  <2>1. \A q \in h.live : q \in O \cup {n} <=> q \in O
    BY <1>1
  <2> QED BY <1>3, <2>1, UndoGrown DEF Growing
<1> QED BY <1>2, <1>3

\* What is undone within a growing tree leaves it.
LEMMA UndoneIsGrowing ==
  ASSUME NEW h, NEW L, NEW R, NEW O, NEW f, NEW n, NEW M, Growing(h, L, R, O, f, n, M),
         NEW Q, Q = R \cup {n}, NEW P, P = O \cup {n}, NEW g, Undone(f, g, M, Q, P)
  PROVE  Growing(h, L, R, O, g, n, M)
<1>1. Grown(h, L, g, M, n)
  BY GrownKeeps DEF Undone, Grown, Growing
<1> QED BY <1>1 DEF Growing, Undone
---------------------------------------------------------------------------
(* Strings. *)

\* g is h with one string more, which no item owns yet.
Spare(h, g) ==
    /\ g \in AnyHeap
    /\ g.live = h.live /\ g.ref = h.ref /\ g.const = h.const /\ g.sound = h.sound
    /\ g.next = h.next /\ g.prev = h.prev /\ g.child = h.child
    /\ g.text = h.text /\ g.key = h.key
    /\ g.strings = h.strings + 1

\* cJSON_strdup() counts one string more, or returns NULL.
LEMMA StrdupFacts ==
  ASSUME NEW h \in AnyHeap, NEW g, g = cJSON_strdup(h)
  PROVE  \/ g.ret = NULL /\ SameItems(h, g) /\ g = Ret(h, NULL)
         \/ g.ret = TRUE /\ g.ret # NULL /\ Spare(h, g)
<1>1. CASE h.fuel = 0
  <2>1. g = Ret(h, NULL)
    BY <1>1 DEF cJSON_strdup
  <2> QED BY <2>1, RetFacts
<1>2. CASE h.fuel # 0
  <2> DEFINE f == [h EXCEPT !.fuel = @ - 1, !.strings = @ + 1]
  <2>1. g = Ret(f, TRUE)
    BY <1>2 DEF cJSON_strdup
  <2>2. h.fuel - 1 \in Nat /\ h.strings + 1 \in Int
    <3>1. h.fuel \in Nat /\ h.strings \in Int
      BY AnyHeapTypes
    <3> QED BY <1>2, <3>1
  <2>3. Spare(h, f) /\ f \in AnyHeap
    BY <2>2 DEF AnyHeap, Spare
  <2> HIDE DEF f
  <2>4. SameItems(f, g) /\ g.ret = TRUE
    BY <2>1, <2>3, RetFacts
  <2>5. Spare(h, g)
    BY <2>3, <2>4 DEF Spare, SameItems
  <2>6. NULL # TRUE
    BY TreeAssumption
  <2> QED BY <2>4, <2>5, <2>6
<1> QED BY <1>1, <1>2

\* The string becomes the text of an item.
LEMMA SpareIsText ==
  ASSUME NEW h, NEW f, Spare(h, f), NEW i \in Items, NEW g, g = [f EXCEPT !.text[i] = i]
  PROVE  Texted(h, g, i)
<1>1. f \in AnyHeap
  BY DEF Spare
<1>2. /\ g \in AnyHeap
      /\ g.live = f.live /\ g.ref = f.ref /\ g.const = f.const /\ g.sound = f.sound
      /\ g.next = f.next /\ g.prev = f.prev /\ g.child = f.child /\ g.key = f.key
      /\ g.text = [f.text EXCEPT ![i] = i] /\ g.strings = f.strings
  BY <1>1 DEF AnyHeap
<1> QED BY <1>2 DEF Spare, Texted

\* A new tree whose root gets a string.
LEMMA TextedIsMade ==
  ASSUME NEW h, NEW L, NEW R, NEW O, HeapInv(h, L, R, O), NEW f, NEW n, NEW M,
         IsMade(h, L, R, O, f, n, M), f.text[n] = NULL, NEW g, Texted(f, g, n)
  PROVE  IsMade(h, L, R, O, g, n, M)
<1>1. /\ n \in f.live \ f.ref /\ n \notin h.live /\ n \in Items /\ f \in AnyHeap
      /\ h.ref \subseteq h.live /\ h.live \subseteq Items
  BY MadeFacts, HeapFacts
<1>2. HeapInv(f, M, R \cup {n}, O) /\ Grown(h, L, f, M, n)
  BY DEF IsMade
<1>3. HeapInv(g, M, R \cup {n}, O)
  BY <1>1, <1>2, TextKeeps
<1>4. g.live = f.live /\ g.ref = f.ref /\ g.child = f.child /\ \A r \in h.ref : g.text[r] = f.text[r]
  <2>1. f.text \in [Items -> Items \cup {NULL}]
    BY <1>1, AnyHeapTypes
  <2>2. h.ref \subseteq Items /\ n \notin h.ref
    BY <1>1
  <2> QED BY <1>1, <2>1, <2>2 DEF Texted
<1>5. Grown(h, L, g, M, n)
  BY <1>2, <1>4, GrownKeeps
<1> QED BY <1>3, <1>5 DEF IsMade

\* ... and the new tree is one item.
MakesOne(h, g, L, R, O) ==
    IF g.ret = NULL THEN Undone(h, g, L, R, O) ELSE IsMade(h, L, R, O, g, g.ret, L)

\* cJSON_CreateString() makes a tree of one item with its string, or nothing.
LEMMA CreateStringMakes ==
  ASSUME NEW h, NEW L, NEW R, NEW O, HeapInv(h, L, R, O), NEW g, g = cJSON_CreateString(h)
  PROVE  MakesOne(h, g, L, R, O)
<1> DEFINE new == cJSON_New_Item(h)
           copy == cJSON_strdup(new)
           n == new.ret
<1>1. g = IF n = NULL THEN new
          ELSE IF copy.ret = NULL THEN Ret(cJSON_Delete(copy, n), NULL)
          ELSE Ret([copy EXCEPT !.text[n] = n], n)
  BY DEF cJSON_CreateString
<1>2. MakesOne(h, new, L, R, O)
  BY NewItemMakes, NewItemIsMade DEF Makes, MakesOne
<1>3. n # NULL => IsMade(h, L, R, O, new, n, L) /\ Allocated(h, new, n)
  <2> HIDE DEF copy
  <2> QED BY NewItemIsBlank, NewItemIsMade
<1> HIDE DEF n
<1>4. n # NULL => new.text[n] = NULL /\ n \in Items /\ new \in AnyHeap
  <2> HIDE DEF new, copy
  <2> QED BY <1>3, MadeFacts DEF Allocated
<1>5. n # NULL => \/ copy.ret = NULL /\ SameItems(new, copy)
                  \/ copy.ret # NULL /\ Spare(new, copy)
  <2> HIDE DEF new
  <2> QED BY <1>4, StrdupFacts
<1> HIDE DEF new, copy
<1>6. CASE n = NULL
  BY <1>1, <1>2, <1>6
<1>7. CASE n # NULL /\ copy.ret = NULL
  <2>1. g = Ret(cJSON_Delete(copy, n), NULL)
    BY <1>1, <1>7
  <2>2. IsMade(h, L, R, O, copy, n, L)
    BY <1>3, <1>5, <1>7, SameItemsAreMade
  <2>3. Undone(h, g, L, R, O) /\ g.ret = NULL
    BY <2>1, <2>2, UndoMade
  <2> QED BY <2>3 DEF MakesOne
<1>8. CASE n # NULL /\ copy.ret # NULL
  <2> DEFINE f == [copy EXCEPT !.text[n] = n]
  <2>1. g = Ret(f, n) /\ Spare(new, copy) /\ n \in Items
    BY <1>1, <1>4, <1>5, <1>8
  <2>2. Texted(new, f, n)
    BY <2>1, SpareIsText
  <2> HIDE DEF f
  <2>3. IsMade(h, L, R, O, f, n, L)
    BY <1>3, <1>4, <1>8, <2>2, TextedIsMade
  <2>4. f \in AnyHeap
    BY <2>3, MadeFacts
  <2>5. SameItems(f, g) /\ g.ret = n
    BY <2>1, <2>4, RetFacts
  <2>6. IsMade(h, L, R, O, g, n, L)
    BY <2>3, <2>5, SameItemsAreMade
  <2> QED BY <1>8, <2>5, <2>6 DEF MakesOne
<1> QED BY <1>6, <1>7, <1>8

\* cJSON_Create*: a new item, or nothing when an allocation fails.
LEMMA CreateMakesOne ==
  ASSUME NEW h, NEW L, NEW R, NEW O, HeapInv(h, L, R, O), NEW string \in BOOLEAN,
         NEW g, g = Create(h, string)
  PROVE  MakesOne(h, g, L, R, O)
<1>1. CASE string
  BY <1>1, CreateStringMakes DEF Create
<1>2. CASE ~string
  <2>1. g = cJSON_New_Item(h)
    BY <1>2 DEF Create, cJSON_CreateItem
  <2> QED BY <2>1, NewItemMakes, NewItemIsMade DEF Makes, MakesOne
<1> QED BY <1>1, <1>2

\* ... so it makes a tree, or nothing.
LEMMA CreateMakes ==
  ASSUME NEW h, NEW L, NEW R, NEW O, HeapInv(h, L, R, O), NEW string \in BOOLEAN,
         NEW g, g = Create(h, string)
  PROVE  Makes(h, g, L, R, O)
BY CreateMakesOne DEF MakesOne, Makes, Made

---------------------------------------------------------------------------
(* Lists that grow. *)

\* The last member so far.
LastOf(s) == IF s = <<>> THEN NULL ELSE s[Len(s)]

\* An item is added to the list of a that is open, s so far.
Hung(k, a, s, c, g) ==
    g = IF s = <<>> THEN [k EXCEPT !.child[a] = c] ELSE suffix_object(k, LastOf(s), c)

Longer(M, a, c, G) == G = [M EXCEPT ![a] = Append(@, c)]

\* A tree that was made becomes the last member of a list under construction.
LEMMA GrowingGrows ==
  ASSUME NEW h, NEW L, NEW R, NEW O, HeapInv(h, L, R, O),
         NEW f, NEW a, NEW F, Growing(h, L, R, O, f, a, F),
         NEW Q, Q = R \cup {a}, NEW P, P = O \cup {a},
         NEW k, NEW c, NEW M, IsMade(f, F, Q, P, k, c, M),
         NEW s, s = F[a], NEW g, Hung(k, a, s, c, g), NEW G, Longer(M, a, c, G)
  PROVE  Growing(h, L, R, O, g, a, G)
<1> g = IF F[a] = <<>> THEN [k EXCEPT !.child[a] = c] ELSE suffix_object(k, LastOf(F[a]), c)
  BY DEF Hung
<1> G = [M EXCEPT ![a] = Append(@, c)]
  BY DEF Longer
<1>1. /\ a \in f.live \ h.live /\ h.live \subseteq f.live /\ f.ref = h.ref
      /\ \A r \in h.ref : f.child[r] = h.child[r] /\ f.text[r] = h.text[r]
      /\ \A p \in h.live : F[p] = L[p]
      /\ Tree(F, a) = f.live \ h.live
      /\ HeapInv(f, F, R \cup {a}, O \cup {a})
  BY DEF Growing, Grown
<1>0. HeapInv(k, M, Q \cup {c}, P) /\ Grown(f, F, k, M, c)
  BY DEF IsMade
<1>2. /\ c \in k.live \ f.live /\ f.live \subseteq k.live /\ k.ref = f.ref
      /\ \A r \in f.ref : k.child[r] = f.child[r] /\ k.text[r] = f.text[r]
      /\ \A p \in f.live : M[p] = F[p]
      /\ Tree(M, c) = k.live \ f.live
  BY <1>0, GrownFacts
<1>3. h.ref \subseteq h.live /\ R \subseteq h.live /\ h.live \subseteq Items
  BY HeapFacts
<1>4. F \in [Items -> Seq(Items)] /\ f.live \subseteq Items
  BY <1>1, HeapFacts
<1>5. M \in [Items -> Seq(Items)] /\ k.live \subseteq Items /\ k \in AnyHeap
  BY <1>0, HeapFacts
<1>6. M[a] = F[a] /\ a \in k.live \ k.ref /\ a \notin Tree(M, c) /\ a # c /\ a \in Items /\ c \in Items
  BY <1>1, <1>2, <1>3, <1>4, <1>5
<1>7. HeapInv(g, G, (Q \cup {c}) \ {c}, P) /\ Relinked(k, g)
  <2> DEFINE N == Q \cup {c}
  <2>1. HeapInv(k, M, N, P) /\ a \in P /\ c \in N
    BY <1>0
  <2>2. g = IF M[a] = <<>> THEN [k EXCEPT !.child[a] = c]
            ELSE suffix_object(k, M[a][Len(M[a])], c)
    BY <1>6 DEF LastOf
  <2> HIDE DEF N
  <2>3. HeapInv(g, [M EXCEPT ![a] = Append(@, c)], N \ {c}, P) /\ Relinked(k, g)
    BY <1>6, <2>1, <2>2, OpenAppend
  <2> QED BY <2>3 DEF N
<1>8. (Q \cup {c}) \ {c} = R \cup {a} /\ P = O \cup {a}
  BY <1>1, <1>2, <1>3
<1>9. \A r \in h.ref : g.child[r] = k.child[r] /\ g.ret = k.ret
  <2>1. \A r \in h.ref : r # a /\ r \in Items
    BY <1>1, <1>3
  <2>2. CASE F[a] = <<>>
    <3>1. g = [k EXCEPT !.child[a] = c]
      BY <2>2
    <3> QED BY <1>5, <1>6, <2>1, <3>1 DEF AnyHeap
  <2>3. CASE F[a] # <<>>
    <3>1. g.child = k.child /\ g.ret = k.ret
      BY <1>5, <2>3 DEF AnyHeap, suffix_object
    <3> QED BY <3>1
  <2> QED BY <2>2, <2>3
<1>10. g.ret = k.ret
  <2>1. CASE F[a] = <<>>
    <3>1. g = [k EXCEPT !.child[a] = c]
      BY <2>1
    <3> QED BY <1>5, <3>1 DEF AnyHeap
  <2>2. CASE F[a] # <<>>
    BY <1>5, <2>2 DEF AnyHeap, suffix_object
  <2> QED BY <2>1, <2>2
<1>11. g.live = k.live /\ g.ref = k.ref /\ g.text = k.text
  BY <1>7 DEF Relinked
<1>12. G[a] = Append(F[a], c) /\ \A p \in Items : p # a => G[p] = M[p]
  BY <1>5, <1>6
<1>13. Tree(G, a) = g.live \ h.live
  <2>1. Tree(M, a) = Tree(F, a)
    <3>1. \A p \in Tree(F, a) : M[p] = F[p]
      BY <1>1, <1>2
    <3> QED BY <1>4, <1>5, <1>6, <3>1, TreeIsKept
  <2>2. Tree(G, a) = Tree(M, a) \cup Tree(M, c)
    BY <1>5, <1>6, TreeGrows
  <2>3. h.live \subseteq f.live /\ f.live \subseteq k.live
    BY <1>1, <1>2
  <2> QED BY <1>1, <1>2, <1>11, <2>1, <2>2, <2>3
<1>14. Grown(h, L, g, G, a)
  <2>1. \A p \in h.live : G[p] = L[p]
    BY <1>1, <1>2, <1>3, <1>12
  <2>2. \A r \in h.ref : g.child[r] = h.child[r] /\ g.text[r] = h.text[r]
    BY <1>1, <1>2, <1>9, <1>11
  <2> QED BY <1>1, <1>2, <1>11, <1>13, <2>1, <2>2 DEF Grown
<1> QED BY <1>7, <1>8, <1>10, <1>12, <1>14 DEF Growing

\* The list is what it was, with one member more.
LEMMA LongerFacts ==
  ASSUME NEW h, NEW L, NEW R, NEW O, HeapInv(h, L, R, O), NEW a \in h.live,
         NEW k, NEW c, NEW M, IsMade(h, L, R, O, k, c, M), NEW G, Longer(M, a, c, G)
  PROVE  G[a] = Append(L[a], c)
<1>1. HeapInv(k, M, R \cup {c}, O) /\ M[a] = L[a]
  BY DEF IsMade, Grown
<1>2. M \in [Items -> Seq(Items)] /\ a \in Items
  BY <1>1, HeapFacts
<1> QED BY <1>1, <1>2 DEF Longer

\* The list is closed.
LEMMA GrowingCloses ==
  ASSUME NEW h, NEW L, NEW R, NEW O, HeapInv(h, L, R, O), O \subseteq h.live,
         NEW f, NEW a, NEW F, Growing(h, L, R, O, f, a, F),
         NEW g, g = IF F[a] = <<>> THEN f ELSE [f EXCEPT !.prev[f.child[a]] = LastOf(F[a])]
  PROVE  IsMade(h, L, R, O, g, a, F) /\ g.ret = f.ret
<1>1. HeapInv(f, F, R \cup {a}, O \cup {a}) /\ Grown(h, L, f, F, a)
  BY DEF Growing
<1>2. a \in f.live \ f.ref /\ a \notin O /\ f \in AnyHeap
  BY MadeFacts
<1>3. CASE F[a] = <<>>
  <2>1. \A q \in f.live \ f.ref : F[q] # <<>> => (q \in O <=> q \in O \cup {a})
    BY <1>3
  <2>2. HeapInv(f, F, R \cup {a}, O)
    BY <1>1, <2>1, OpenKeeps
  <2> QED BY <1>1, <1>3, <2>2 DEF IsMade
<1>4. CASE F[a] # <<>>
  <2> DEFINE Q == R \cup {a}
             P == O \cup {a}
  <2>1. HeapInv(f, F, Q, P) /\ a \in P /\ P \ {a} = O
    BY <1>1, <1>2
  <2>2. g = [f EXCEPT !.prev[f.child[a]] = F[a][Len(F[a])]]
    BY <1>4 DEF LastOf
  <2> HIDE DEF Q, P
  <2>3. HeapInv(g, F, Q, P \ {a}) /\ Relinked(f, g)
    BY <1>2, <1>4, <2>1, <2>2, CloseList
  <2>4. g.child = f.child /\ g.ret = f.ret
    BY <1>2, <2>2 DEF AnyHeap
  <2>5. Grown(h, L, g, F, a)
    BY <1>1, <2>3, <2>4, GrownKeeps DEF Relinked
  <2> QED BY <2>1, <2>3, <2>4, <2>5 DEF Q, IsMade
<1> QED BY <1>3, <1>4
---------------------------------------------------------------------------
(* cJSON_CreateIntArray and the three like it.                             *)

ArrayStart(a) == [heap |-> a, p |-> NULL, done |-> a.ret = NULL]

ArrayStep(a, b, i, string) ==
    LET n == Create(b.heap, string)
    IN  IF b.done THEN b
        ELSE IF n.ret = NULL
        THEN [b EXCEPT !.heap = Ret(cJSON_Delete(n, a.ret), NULL), !.done = TRUE]
        ELSE [b EXCEPT !.p = n.ret,
                !.heap = IF i = 1 THEN [n EXCEPT !.child[a.ret] = n.ret]
                         ELSE suffix_object(n, b.p, n.ret)]

IsArrayLoop(f, a, m, string) ==
    f = [i \in 0..m |-> IF i = 0 THEN ArrayStart(a) ELSE ArrayStep(a, f[i - 1], i, string)]

\* The loop of cJSON_CreateIntArray() is a function ...
LEMMA ArrayLoopExists ==
  ASSUME NEW m \in Nat, NEW a, NEW string
  PROVE  \E f : IsArrayLoop(f, a, m, string)
<1> DEFINE N == {k \in 0..m : \E f : IsArrayLoop(f, a, k, string)}
<1>1. 0 \in N
  <2> DEFINE f == [i \in 0..0 |-> ArrayStart(a)]
  <2>1. f = [i \in 0..0 |-> IF i = 0 THEN ArrayStart(a) ELSE ArrayStep(a, f[i - 1], i, string)]
    OBVIOUS
  <2> HIDE DEF f
  <2>2. IsArrayLoop(f, a, 0, string) /\ 0 \in 0..m
    BY <2>1 DEF IsArrayLoop
  <2> QED BY <2>2
<1>2. ASSUME NEW k \in 1..m, k - 1 \in N
      PROVE  k \in N
  <2>1. PICK f : IsArrayLoop(f, a, k - 1, string)
    BY <1>2
  <2> DEFINE v == [i \in 0..k |-> IF i = k THEN ArrayStep(a, f[k - 1], k, string) ELSE f[i]]
  <2>2. ASSUME NEW i \in 0..k
        PROVE  v[i] = IF i = 0 THEN ArrayStart(a) ELSE ArrayStep(a, v[i - 1], i, string)
    <3>1. i # 0 => i - 1 \in 0..k /\ i - 1 # k /\ v[i - 1] = f[i - 1]
      OBVIOUS
    <3>2. CASE i = k
      BY <3>1, <3>2
    <3>3. CASE i # k
      <4>1. i \in 0..(k - 1) /\ v[i] = f[i]
        BY <3>3
      <4>2. f[i] = IF i = 0 THEN ArrayStart(a) ELSE ArrayStep(a, f[i - 1], i, string)
        BY <2>1, <4>1 DEF IsArrayLoop
      <4> HIDE DEF v
      <4> QED BY <3>1, <4>1, <4>2
    <3> QED BY <3>2, <3>3
  <2>3. v = [i \in 0..k |-> v[i]]
    OBVIOUS
  <2> HIDE DEF v
  <2>4. IsArrayLoop(v, a, k, string)
    BY <2>2, <2>3 DEF IsArrayLoop
  <2> QED BY <2>4
<1>3. m \in N
  <2>1. m \in 0..m
    OBVIOUS
  <2> HIDE DEF N
  <2> QED BY <1>1, <1>2, <2>1, Induction
<1> QED BY <1>3

ArrayEnd(a, end) ==
    IF end.done \/ end.heap.child[a.ret] = NULL
    THEN IF end.done THEN end.heap ELSE Ret(end.heap, a.ret)
    ELSE Ret([end.heap EXCEPT !.prev[end.heap.child[a.ret]] = end.p], a.ret)

\* ... whose last value, its list closed, is what the call returns.
LEMMA ArrayIsChosen ==
  ASSUME NEW h, NEW count, NEW string
  PROVE  cJSON_CreateArrayOf(h, count, string)
           = ArrayEnd(cJSON_New_Item(h),
                      (CHOOSE f : IsArrayLoop(f, cJSON_New_Item(h), count, string))[count])
BY DEF cJSON_CreateArrayOf, IsArrayLoop, ArrayStart, ArrayStep, ArrayEnd

\* Before the i-th item: the array has the items so far, or all is undone.
ArrayInv(h, L, R, O, b, n, i) ==
    IF b.done = TRUE THEN Undone(h, b.heap, L, R, O) /\ b.heap.ret = NULL
    ELSE /\ b.done = FALSE
         /\ \E F : /\ Growing(h, L, R, O, b.heap, n, F)
                   /\ b.p = LastOf(F[n]) /\ F[n] \in Seq(Items) /\ Len(F[n]) = i

\* The last member of a list with one more.
LEMMA AppendLast ==
  ASSUME NEW s \in Seq(Items), NEW c \in Items
  PROVE  /\ Append(s, c) \in Seq(Items) /\ Append(s, c) # <<>> /\ LastOf(Append(s, c)) = c
         /\ Len(Append(s, c)) = Len(s) + 1 /\ Len(s) \in Nat
         /\ (Len(s) = 0 <=> s = <<>>)
BY DEF LastOf

\* A state of the loop.
IsBox(b) == b = [heap |-> b.heap, p |-> b.p, done |-> b.done]

\* A turn of the loop adds one member, or deletes the array and ends the loop.
LEMMA ArrayStepKeeps ==
  ASSUME NEW h, NEW L, NEW R, NEW O, HeapInv(h, L, R, O), NEW string \in BOOLEAN,
         NEW a, NEW x, x = a.ret, NEW i \in Nat \ {0}, NEW b, IsBox(b),
         ArrayInv(h, L, R, O, b, x, i - 1),
         NEW e, e = ArrayStep(a, b, i, string)
  PROVE  ArrayInv(h, L, R, O, e, x, i) /\ IsBox(e)
<1> DEFINE f == b.heap
           n == Create(f, string)
<1>1. CASE b.done = TRUE
  <2>1. e = b
    BY <1>1 DEF ArrayStep
  <2> QED BY <1>1, <2>1 DEF ArrayInv
<1>2. CASE b.done # TRUE
  <2>1. PICK F : /\ Growing(h, L, R, O, f, x, F)
                 /\ b.p = LastOf(F[x]) /\ F[x] \in Seq(Items) /\ Len(F[x]) = i - 1
    BY <1>2 DEF ArrayInv
  <2>2. b.done = FALSE
    BY <1>2 DEF ArrayInv
  <2> DEFINE Q == R \cup {x}
             P == O \cup {x}
  <2>3. HeapInv(f, F, Q, P)
    BY <2>1 DEF Growing
  <2>4. e = IF n.ret = NULL
            THEN [b EXCEPT !.heap = Ret(cJSON_Delete(n, x), NULL), !.done = TRUE]
            ELSE [b EXCEPT !.p = n.ret,
                    !.heap = IF i = 1 THEN [n EXCEPT !.child[x] = n.ret]
                             ELSE suffix_object(n, b.p, n.ret)]
    BY <2>2 DEF ArrayStep
  <2> HIDE DEF f
  <2>5. Makes(f, n, F, Q, P)
    <3> HIDE DEF Q, P
    <3> QED BY <2>3, CreateMakes
  <2> HIDE DEF n
  <2>6. CASE n.ret = NULL
    <3> DEFINE g == Ret(cJSON_Delete(n, x), NULL)
    <3>1. Undone(f, n, F, Q, P)
      BY <2>5, <2>6 DEF Makes
    <3>2. Growing(h, L, R, O, n, x, F)
      <4>1. Q = R \cup {x} /\ P = O \cup {x}
        OBVIOUS
      <4> HIDE DEF Q, P
      <4> QED BY <2>1, <3>1, <4>1, UndoneIsGrowing
    <3>3. Undone(h, g, L, R, O) /\ g.ret = NULL
      BY <3>2, UndoMade
    <3>4. e = [b EXCEPT !.heap = g, !.done = TRUE]
      BY <2>4, <2>6
    <3> HIDE DEF g
    <3>5. e.heap = g /\ e.done = TRUE /\ IsBox(e)
      BY <3>4 DEF IsBox
    <3> QED BY <3>3, <3>5 DEF ArrayInv
  <2>7. CASE n.ret # NULL
    <3> DEFINE c == n.ret
               g == IF F[x] = <<>> THEN [n EXCEPT !.child[x] = c]
                    ELSE suffix_object(n, LastOf(F[x]), c)
    <3>1. PICK M : IsMade(f, F, Q, P, n, c, M)
      BY <2>5, <2>7 DEF Makes, Made
    <3> DEFINE G == [M EXCEPT ![x] = Append(@, c)]
    <3>2. i = 1 <=> F[x] = <<>>
      BY <2>1
    <3>3. e = [b EXCEPT !.p = c, !.heap = g]
      BY <2>1, <2>4, <2>7, <3>2
    <3> HIDE DEF c
    <3>4. Growing(h, L, R, O, g, x, G) /\ G[x] = Append(F[x], c)
      <4> DEFINE s == F[x]
      <4>1. Q = R \cup {x} /\ P = O \cup {x} /\ s = F[x]
        OBVIOUS
      <4>2. Hung(n, x, s, c, g) /\ Longer(M, x, c, G)
        BY DEF Hung, Longer
      <4> HIDE DEF Q, P, g, G, s
      <4>3. Growing(h, L, R, O, g, x, G)
        BY <2>1, <3>1, <4>1, <4>2, GrowingGrows
      <4>4. x \in f.live
        BY <2>1, MadeFacts
      <4>5. G[x] = Append(F[x], c)
        BY <2>3, <3>1, <4>2, <4>4, LongerFacts
      <4> QED BY <4>3, <4>5
    <3>5. c \in Items
      <4> HIDE DEF Q, P
      <4> QED BY <2>3, <3>1, MadeFacts
    <3> HIDE DEF g, G
    <3>6. e.heap = g /\ e.p = c /\ e.done = FALSE /\ IsBox(e)
      BY <2>2, <3>3 DEF IsBox
    <3>7. c = LastOf(G[x]) /\ G[x] \in Seq(Items) /\ Len(G[x]) = i
      BY <2>1, <3>4, <3>5, AppendLast
    <3> QED BY <3>4, <3>6, <3>7 DEF ArrayInv
  <2> QED BY <2>6, <2>7
<1> QED BY <1>1, <1>2

\* The array with all its items, or nothing when an allocation fails.
LEMMA CreateArrayMakes ==
  ASSUME NEW h, NEW L, NEW R, NEW O, HeapInv(h, L, R, O), O \subseteq h.live,
         NEW count \in Nat, NEW string \in BOOLEAN, NEW g, g = cJSON_CreateArrayOf(h, count, string)
  PROVE  Makes(h, g, L, R, O)
<1> DEFINE a == cJSON_New_Item(h)
           P(f) == IsArrayLoop(f, a, count, string)
           f == CHOOSE f : P(f)
           end == f[count]
           x == a.ret
           last == end.heap
<1>1. g = ArrayEnd(a, end) /\ x = a.ret
  BY ArrayIsChosen
<1>2. P(f)
  <2>1. \E v : P(v)
    BY ArrayLoopExists
  <2> HIDE DEF P
  <2> QED BY <2>1
<1> HIDE DEF f
<1>3. /\ f[0] = ArrayStart(a)
      /\ \A i \in 1..count : f[i] = ArrayStep(a, f[i - 1], i, string)
  <2>1. \A i \in 0..count :
           f[i] = IF i = 0 THEN ArrayStart(a) ELSE ArrayStep(a, f[i - 1], i, string)
    BY <1>2 DEF IsArrayLoop
  <2>2. 0 \in 0..count /\ \A i \in 1..count : i \in 0..count /\ i # 0
    OBVIOUS
  <2> QED BY <2>1, <2>2
<1> HIDE DEF x
<1>4. Makes(h, a, L, R, O)
  BY NewItemMakes
<1>5. x # NULL => Growing(h, L, R, O, a, x, L) /\ L[x] = <<>>
  BY <1>1, NewItemIsMade, NewItemIsBlank
<1> HIDE DEF a
<1> DEFINE N == {i \in 0..count : ArrayInv(h, L, R, O, f[i], x, i) /\ IsBox(f[i])}
<1>6. 0 \in N
  <2> DEFINE b == f[0]
  <2>1. /\ b.heap = a /\ b.p = NULL /\ b.done = (x = NULL) /\ IsBox(b)
    BY <1>1, <1>3 DEF ArrayStart, IsBox
  <2> HIDE DEF b
  <2>2. CASE x = NULL
    <3>1. Undone(h, a, L, R, O) /\ b.done = TRUE /\ a.ret = NULL
      BY <1>1, <1>4, <2>1, <2>2 DEF Makes
    <3>2. ArrayInv(h, L, R, O, b, x, 0)
      BY <2>1, <3>1 DEF ArrayInv
    <3> QED BY <2>1, <3>2 DEF b
  <2>3. CASE x # NULL
    <3>0. L[x] = <<>> /\ <<>> \in Seq(Items)
      BY <1>5, <2>3
    <3>1. L[x] \in Seq(Items) /\ Len(L[x]) = 0 /\ LastOf(L[x]) = NULL
      BY <3>0 DEF LastOf
    <3>2. b.done = FALSE
      BY <2>1, <2>3
    <3>3. ArrayInv(h, L, R, O, b, x, 0)
      BY <1>5, <2>1, <2>3, <3>1, <3>2 DEF ArrayInv
    <3> QED BY <2>1, <3>3 DEF b
  <2> QED BY <2>2, <2>3
<1>7. ASSUME NEW i \in 1..count, i - 1 \in N
      PROVE  i \in N
  <2> DEFINE b == f[i - 1]
             e == f[i]
  <2>1. ArrayInv(h, L, R, O, b, x, i - 1) /\ IsBox(b) /\ i \in Nat \ {0} /\ i \in 0..count
    BY <1>7
  <2>2. e = ArrayStep(a, b, i, string)
    BY <1>3
  <2> HIDE DEF b, e
  <2>3. ArrayInv(h, L, R, O, e, x, i) /\ IsBox(e)
    BY <1>1, <2>1, <2>2, ArrayStepKeeps
  <2> QED BY <2>1, <2>3 DEF e
<1>8. ArrayInv(h, L, R, O, end, x, count)
  <2>1. count \in 0..count
    OBVIOUS
  <2>2. count \in N
    <3> HIDE DEF N
    <3> QED BY <1>6, <1>7, <2>1, Induction
  <2> QED BY <2>2
<1> HIDE DEF N, end, P
<1>9. CASE end.done = TRUE
  <2>1. g = end.heap
    BY <1>1, <1>9 DEF ArrayEnd
  <2> QED BY <1>8, <1>9, <2>1 DEF ArrayInv, Makes
<1>10. CASE end.done # TRUE
  <2>1. PICK F : /\ Growing(h, L, R, O, last, x, F)
                 /\ end.p = LastOf(F[x]) /\ F[x] \in Seq(Items) /\ Len(F[x]) = count
    BY <1>8, <1>10 DEF ArrayInv
  <2>2. end.done = FALSE
    BY <1>8, <1>10 DEF ArrayInv
  <2> DEFINE k == IF F[x] = <<>> THEN last
                  ELSE [last EXCEPT !.prev[last.child[x]] = LastOf(F[x])]
  <2>3. g = IF last.child[x] = NULL THEN Ret(last, x)
            ELSE Ret([last EXCEPT !.prev[last.child[x]] = LastOf(F[x])], x)
    BY <1>1, <2>1, <2>2 DEF ArrayEnd
  <2> HIDE DEF last
  <2>4. IsMade(h, L, R, O, k, x, F)
    <3>1. k = IF F[x] = <<>> THEN last ELSE [last EXCEPT !.prev[last.child[x]] = LastOf(F[x])]
      OBVIOUS
    <3> HIDE DEF k
    <3> QED BY <2>1, <3>1, GrowingCloses
  <2>5. /\ x \in Items /\ x # NULL
        /\ last.child[x] = IF F[x] = <<>> THEN NULL ELSE F[x][1]
        /\ F[x] # <<>> => F[x][1] \in Items
    BY <2>1, MadeFacts
  <2>6. g = Ret(k, x)
    <3>1. last.child[x] = NULL <=> F[x] = <<>>
      BY <2>5, ItemsAssumption
    <3> QED BY <2>3, <3>1
  <2> HIDE DEF k
  <2>7. k \in AnyHeap
    BY <2>4, MadeFacts
  <2>8. SameItems(k, g) /\ g.ret = x
    BY <2>5, <2>6, <2>7, RetFacts
  <2>9. IsMade(h, L, R, O, g, x, F)
    BY <2>4, <2>8, SameItemsAreMade
  <2> QED BY <2>5, <2>8, <2>9 DEF Makes, Made
<1> QED BY <1>9, <1>10
---------------------------------------------------------------------------
(* cJSON_Duplicate. *)

\* What was made stays whole when its root gets a name ...
LEMMA RenamedIsMade ==
  ASSUME NEW h, NEW L, NEW R, NEW O, HeapInv(h, L, R, O), NEW f, NEW n, NEW M,
         IsMade(h, L, R, O, f, n, M), NEW g, Renamed(f, g, n)
  PROVE  IsMade(h, L, R, O, g, n, M)
<1> DEFINE Q == R \cup {n}
<1>1. HeapInv(f, M, Q, O) /\ Grown(h, L, f, M, n) /\ n \in Q
  BY DEF IsMade
<1>2. n \in f.live
  BY MadeFacts
<1>3. HeapInv(g, M, Q, O)
  <2> HIDE DEF Q
  <2> QED BY <1>1, <1>2, RenameKeeps
<1>4. g.live = f.live /\ g.ref = f.ref /\ g.child = f.child /\ g.text = f.text
  BY DEF Renamed
<1>5. Grown(h, L, g, M, n)
  BY <1>1, <1>4, GrownKeeps
<1> QED BY <1>3, <1>5 DEF IsMade

\* The flags of item, which n takes over.
FlagsOf(f, item, n) == IF item \in f.const THEN f.const \cup {n} ELSE f.const

Flagged(f, item, n, g) == g = [f EXCEPT !.const = IF item \in @ THEN @ \cup {n} ELSE @]

\* ... and when it gets the flag of a constant name but no name yet.
LEMMA FlagsAreMade ==
  ASSUME NEW h, NEW L, NEW R, NEW O, HeapInv(h, L, R, O), NEW f, NEW n, NEW M,
         IsMade(h, L, R, O, f, n, M), f.key[n] = NULL, NEW item,
         NEW g, Flagged(f, item, n, g)
  PROVE  /\ IsMade(h, L, R, O, g, n, M) /\ g \in AnyHeap
         /\ g.key = f.key /\ g.text = f.text /\ g.const = FlagsOf(f, item, n)
<1>1. n \in Items /\ f \in AnyHeap /\ n \in f.live /\ f.live \in SUBSET Items /\ f.const \subseteq f.live
  BY MadeFacts
<1>2. FlagsOf(f, item, n) \in SUBSET Items /\ FlagsOf(f, item, n) \subseteq f.live
  BY <1>1 DEF FlagsOf
<1>3. g = [f EXCEPT !.const = FlagsOf(f, item, n)]
  BY <1>1 DEF FlagsOf, Flagged, AnyHeap
<1>4. /\ g \in AnyHeap
      /\ g.live = f.live /\ g.ref = f.ref /\ g.const = FlagsOf(f, item, n) /\ g.sound = f.sound
      /\ g.next = f.next /\ g.prev = f.prev /\ g.child = f.child /\ g.key = f.key
      /\ g.text = f.text /\ g.strings = f.strings
  BY <1>1, <1>2, <1>3 DEF AnyHeap
<1>5. g.strings = f.strings + (IF OwnsKey(g, n) THEN 1 ELSE 0) - (IF OwnsKey(f, n) THEN 1 ELSE 0)
  <2>1. ~OwnsKey(f, n) /\ ~OwnsKey(g, n)
    BY <1>4 DEF OwnsKey
  <2>2. g.strings \in Int
    BY <1>4, AnyHeapTypes
  <2> QED BY <1>4, <2>1, <2>2
<1>6. \A i \in Items : i # n => (i \in g.const <=> i \in f.const)
  BY <1>4 DEF FlagsOf
<1>7. Renamed(f, g, n)
  BY <1>2, <1>4, <1>5, <1>6 DEF Renamed
<1> QED BY <1>4, <1>7, RenamedIsMade

\* The name of a tree's root is set, to a string of its own or to a constant one.
LEMMA KeyIsMade ==
  ASSUME NEW h, NEW L, NEW R, NEW O, HeapInv(h, L, R, O), NEW f, NEW n, NEW M,
         IsMade(h, L, R, O, f, n, M), f.key[n] = NULL, NEW name \in Names \cup {NULL}, NEW k,
         IF name = NULL \/ n \in f.const THEN SameItems(f, k) ELSE Spare(f, k),
         NEW g, g = [k EXCEPT !.key[n] = name]
  PROVE  IsMade(h, L, R, O, g, n, M) /\ g.ret = k.ret
<1>1. n \in Items /\ f \in AnyHeap /\ n \in f.live /\ f.live \in SUBSET Items /\ f.const \subseteq f.live
  BY MadeFacts
<1>2. /\ k \in AnyHeap
      /\ k.live = f.live /\ k.ref = f.ref /\ k.const = f.const /\ k.sound = f.sound
      /\ k.next = f.next /\ k.prev = f.prev /\ k.child = f.child
      /\ k.text = f.text /\ k.key = f.key
      /\ k.strings = f.strings + (IF name = NULL \/ n \in f.const THEN 0 ELSE 1)
  <2>1. f.strings \in Int
    BY <1>1, AnyHeapTypes
  <2> QED BY <2>1 DEF SameItems, Spare
<1>3. /\ g \in AnyHeap
      /\ g.live = k.live /\ g.ref = k.ref /\ g.const = k.const /\ g.sound = k.sound
      /\ g.next = k.next /\ g.prev = k.prev /\ g.child = k.child /\ g.text = k.text
      /\ g.strings = k.strings /\ g.ret = k.ret /\ g.key = [k.key EXCEPT ![n] = name]
  BY <1>1, <1>2 DEF AnyHeap
<1>4. g.key[n] = name /\ \A i \in Items : i # n => g.key[i] = f.key[i]
  <2>1. k.key \in [Items -> Names \cup {NULL}]
    BY <1>2, AnyHeapTypes
  <2> QED BY <1>1, <1>2, <1>3, <2>1
<1>5. OwnsKey(g, n) <=> ~(name = NULL \/ n \in f.const)
  BY <1>2, <1>3, <1>4 DEF OwnsKey
<1>6. ~OwnsKey(f, n)
  BY DEF OwnsKey
<1>7. g.strings = f.strings + (IF OwnsKey(g, n) THEN 1 ELSE 0) - (IF OwnsKey(f, n) THEN 1 ELSE 0)
  <2>1. f.strings \in Int
    BY <1>1, AnyHeapTypes
  <2> QED BY <1>2, <1>3, <1>5, <1>6, <2>1
<1>8. Renamed(f, g, n)
  BY <1>1, <1>2, <1>3, <1>4, <1>7 DEF Renamed
<1> QED BY <1>3, <1>8, RenamedIsMade

\* The copy of a single item, as far as it got.
LEMMA CopyFieldsMakes ==
  ASSUME NEW h, NEW L, NEW R, NEW O, HeapInv(h, L, R, O), NEW item \in h.live,
         NEW f, f = cJSON_New_Item(h), NEW n, n = f.ret, n # NULL,
         NEW g, g = CopyFields(f, item, n)
  PROVE  IsMade(h, L, R, O, g, n, L) /\ g.ret \in {NULL, TRUE}
<1> DEFINE flags == [f EXCEPT !.const = IF item \in @ THEN @ \cup {n} ELSE @]
           bare == f.text[item] = NULL
           text == IF bare THEN Ret(flags, TRUE) ELSE cJSON_strdup(flags)
           texted == IF bare \/ text.ret = NULL THEN text ELSE [text EXCEPT !.text[n] = n]
           name == f.key[item]
           shared == name = NULL \/ item \in f.const
           key == IF shared THEN Ret(texted, TRUE) ELSE cJSON_strdup(texted)
<1>1. g = IF text.ret = NULL THEN text ELSE IF key.ret = NULL THEN key
          ELSE [key EXCEPT !.key[n] = name]
  BY DEF CopyFields
<1>2. Allocated(h, f, n) /\ IsMade(h, L, R, O, f, n, L)
  BY NewItemIsBlank, NewItemIsMade
<1>3. /\ n \in Items /\ f.key[n] = NULL /\ f.text[n] = NULL /\ f \in AnyHeap
      /\ item \in Items /\ item # n /\ n \notin f.const
  <2>1. h.const \subseteq h.live /\ h.live \subseteq Items
    BY HeapFacts
  <2> QED BY <1>2, <2>1, MadeFacts DEF Allocated
<1>4. name \in Names \cup {NULL}
  <2>1. f.key \in [Items -> Names \cup {NULL}]
    BY <1>3, AnyHeapTypes
  <2> QED BY <1>3, <2>1
<1>5. /\ IsMade(h, L, R, O, flags, n, L) /\ flags \in AnyHeap
      /\ flags.key = f.key /\ flags.text = f.text
      /\ n \in flags.const <=> item \in f.const
  <2>1. Flagged(f, item, n, flags)
    BY DEF Flagged
  <2> HIDE DEF flags
  <2>2. /\ IsMade(h, L, R, O, flags, n, L) /\ flags \in AnyHeap
        /\ flags.key = f.key /\ flags.text = f.text /\ flags.const = FlagsOf(f, item, n)
    BY <1>2, <1>3, <2>1, FlagsAreMade
  <2> QED BY <1>3, <2>2 DEF FlagsOf
<1> HIDE DEF flags
<1>6. \/ text.ret = NULL /\ SameItems(flags, text)
      \/ bare /\ text.ret # NULL /\ SameItems(flags, text) /\ text.ret = TRUE
      \/ ~bare /\ text.ret # NULL /\ Spare(flags, text) /\ text.ret = TRUE
  <2>1. CASE bare
    BY <1>5, <2>1, RetFacts, TreeAssumption
  <2>2. CASE ~bare
    <3>1. text = cJSON_strdup(flags)
      BY <2>2
    <3> HIDE DEF text
    <3> QED BY <1>5, <2>2, <3>1, StrdupFacts
  <2> QED BY <2>1, <2>2
<1> HIDE DEF text, bare
<1>7. CASE text.ret = NULL
  <2>1. g = text /\ SameItems(flags, text)
    BY <1>1, <1>6, <1>7
  <2> QED BY <1>5, <1>7, <2>1, SameItemsAreMade
<1>8. CASE text.ret # NULL
  <2>1. /\ IsMade(h, L, R, O, texted, n, L) /\ texted.key = f.key
        /\ n \in texted.const <=> item \in f.const
    <3>1. CASE bare
      <4>1. texted = text /\ SameItems(flags, text)
        BY <1>6, <1>8, <3>1
      <4> QED BY <1>5, <4>1, SameItemsAreMade DEF SameItems
    <3>2. CASE ~bare
      <4>1. texted = [text EXCEPT !.text[n] = n] /\ Spare(flags, text)
        BY <1>6, <1>8, <3>2
      <4> HIDE DEF texted
      <4>2. Texted(flags, texted, n)
        BY <1>3, <4>1, SpareIsText
      <4>3. IsMade(h, L, R, O, texted, n, L)
        BY <1>3, <1>5, <4>2, TextedIsMade
      <4> QED BY <1>5, <4>2, <4>3 DEF Texted
    <3> QED BY <3>1, <3>2
  <2> HIDE DEF texted
  <2>2. texted \in AnyHeap
    BY <2>1, MadeFacts
  <2>3. \/ key.ret = NULL /\ SameItems(texted, key)
        \/ /\ key.ret = TRUE /\ key.ret # NULL
           /\ IF shared THEN SameItems(texted, key) ELSE Spare(texted, key)
    <3>1. CASE shared
      BY <2>2, <3>1, RetFacts, TreeAssumption
    <3>2. CASE ~shared
      <4>1. key = cJSON_strdup(texted)
        BY <3>2
      <4> HIDE DEF key, shared
      <4> QED BY <2>2, <3>2, <4>1, StrdupFacts
    <3> QED BY <3>1, <3>2
  <2>4. shared <=> name = NULL \/ n \in texted.const
    BY <2>1
  <2> HIDE DEF key, shared
  <2>5. CASE key.ret = NULL
    <3>1. g = key /\ SameItems(texted, key)
      BY <1>1, <1>8, <2>3, <2>5
    <3> QED BY <2>1, <2>5, <3>1, SameItemsAreMade
  <2>6. CASE key.ret # NULL
    <3>1. g = [key EXCEPT !.key[n] = name] /\ key.ret = TRUE
      BY <1>1, <1>8, <2>3, <2>6
    <3>2. IF name = NULL \/ n \in texted.const THEN SameItems(texted, key) ELSE Spare(texted, key)
      BY <2>3, <2>4, <2>6
    <3>3. texted.key[n] = NULL
      BY <1>3, <2>1
    <3> HIDE DEF name
    <3>4. IsMade(h, L, R, O, g, n, L) /\ g.ret = key.ret
      BY <1>4, <2>1, <3>1, <3>2, <3>3, KeyIsMade
    <3> QED BY <3>1, <3>4
  <2> QED BY <2>5, <2>6
<1> QED BY <1>7, <1>8
---------------------------------------------------------------------------
(* The walk along the members of an item that is duplicated.               *)

DupStart(h, child) == [heap |-> Ret(h, TRUE), child |-> child, last |-> NULL]

DupStep(b, new, levels, deeper) ==
    LET copy == IF levels = 0 THEN Ret(b.heap, NULL)
                ELSE deeper[<<Ret(b.heap, NULL), b.child>>]
    IN  IF b.child = NULL THEN b
        ELSE IF copy.ret = NULL
        THEN [heap |-> copy, child |-> NULL, last |-> NULL]
        ELSE [heap |-> Ret(IF b.last = NULL THEN [copy EXCEPT !.child[new] = copy.ret]
                           ELSE suffix_object(copy, b.last, copy.ret), TRUE),
              child |-> copy.next[b.child], last |-> copy.ret]

IsDupLoop(f, m, h, new, child, levels, deeper) ==
    f = [i \in 0..m |-> IF i = 0 THEN DupStart(h, child)
                        ELSE DupStep(f[i - 1], new, levels, deeper)]

\* The loop of cJSON_Duplicate_rec() is a function ...
LEMMA DupLoopExists ==
  ASSUME NEW m \in Nat, NEW h, NEW new, NEW child, NEW levels, NEW deeper
  PROVE  \E f : IsDupLoop(f, m, h, new, child, levels, deeper)
<1> DEFINE N == {k \in 0..m : \E f : IsDupLoop(f, k, h, new, child, levels, deeper)}
<1>1. 0 \in N
  <2> DEFINE f == [i \in 0..0 |-> DupStart(h, child)]
  <2>1. f = [i \in 0..0 |-> IF i = 0 THEN DupStart(h, child)
                            ELSE DupStep(f[i - 1], new, levels, deeper)]
    OBVIOUS
  <2> HIDE DEF f
  <2>2. IsDupLoop(f, 0, h, new, child, levels, deeper) /\ 0 \in 0..m
    BY <2>1 DEF IsDupLoop
  <2> QED BY <2>2
<1>2. ASSUME NEW k \in 1..m, k - 1 \in N
      PROVE  k \in N
  <2>1. PICK f : IsDupLoop(f, k - 1, h, new, child, levels, deeper)
    BY <1>2
  <2> DEFINE v == [i \in 0..k |-> IF i = k THEN DupStep(f[k - 1], new, levels, deeper) ELSE f[i]]
  <2>2. ASSUME NEW i \in 0..k
        PROVE  v[i] = IF i = 0 THEN DupStart(h, child) ELSE DupStep(v[i - 1], new, levels, deeper)
    <3>1. i # 0 => i - 1 \in 0..k /\ i - 1 # k /\ v[i - 1] = f[i - 1]
      OBVIOUS
    <3>2. CASE i = k
      BY <3>1, <3>2
    <3>3. CASE i # k
      <4>1. i \in 0..(k - 1) /\ v[i] = f[i]
        BY <3>3
      <4>2. f[i] = IF i = 0 THEN DupStart(h, child) ELSE DupStep(f[i - 1], new, levels, deeper)
        BY <2>1, <4>1 DEF IsDupLoop
      <4> HIDE DEF v
      <4> QED BY <3>1, <4>1, <4>2
    <3> QED BY <3>2, <3>3
  <2>3. v = [i \in 0..k |-> v[i]]
    OBVIOUS
  <2> HIDE DEF v
  <2>4. IsDupLoop(v, k, h, new, child, levels, deeper)
    BY <2>2, <2>3 DEF IsDupLoop
  <2> QED BY <2>4
<1>3. m \in N
  <2>1. m \in 0..m
    OBVIOUS
  <2> HIDE DEF N
  <2> QED BY <1>1, <1>2, <2>1, Induction
<1> QED BY <1>3

DupEnd(end, new) ==
    IF end.last = NULL THEN end.heap
    ELSE [end.heap EXCEPT !.prev[end.heap.child[new]] = end.last]

\* ... whose last value, its list closed, is what DuplicateChildren returns.
LEMMA DupIsChosen ==
  ASSUME NEW h, NEW new, NEW child, NEW levels, NEW deeper
  PROVE  DuplicateChildren(h, new, child, levels, deeper)
           = DupEnd((CHOOSE f : IsDupLoop(f, Count, h, new, child, levels, deeper))[Count], new)
BY DEF DuplicateChildren, IsDupLoop, DupStart, DupStep, DupEnd, Count

\* What the recursive call is taken to do.
Duplicating(deeper) ==
    \A h, L, R, O : \A item \in Items :
        h \in Heaps /\ HeapInv(h, L, R, O) /\ O \subseteq h.live /\ item \in h.live
          => Makes(h, deeper[<<h, item>>], L, R, O)

\* No link leads from the items that were there to those of a tree that is added.
LEMMA NextStays ==
  ASSUME NEW h, NEW L, NEW R, NEW O, HeapInv(h, L, R, O),
         NEW f, NEW n, NEW F, Growing(h, L, R, O, f, n, F),
         NEW Q, NEW P, NEW k, NEW c, NEW M, IsMade(f, F, Q, P, k, c, M), NEW j \in h.live
  PROVE  k.next[j] \in h.live \cup {NULL}
<1> DEFINE i == k.next[j]
           S == Q \cup {c}
<1>1. HeapInv(k, M, S, P) /\ Grown(f, F, k, M, c) /\ Grown(h, L, f, F, n)
  BY DEF IsMade, Growing
<1>2. /\ h.live \subseteq f.live /\ \A p \in h.live : F[p] = L[p]
      /\ n \in f.live /\ Tree(F, n) = f.live \ h.live
  BY <1>1, GrownFacts
<1>3. /\ f.live \subseteq k.live /\ \A p \in f.live : M[p] = F[p]
      /\ c \in k.live /\ Tree(M, c) = k.live \ f.live
  BY <1>1, GrownFacts
<1>4. k.live \in SUBSET Items /\ k \in AnyHeap /\ M \in [Items -> Seq(Items)]
  BY <1>1, HeapFacts
<1>5. L \in [Items -> Seq(Items)] /\ \A p \in Items : ToSet(L[p]) \subseteq h.live
  BY HeapFacts
<1>6. F \in [Items -> Seq(Items)]
  BY HeapFacts DEF Growing
<1>7. j \in Items /\ i \in Items \cup {NULL}
  <2>1. k.next \in [Items -> Items \cup {NULL}]
    BY <1>4, AnyHeapTypes
  <2> QED BY <1>2, <1>3, <1>4, <2>1
<1> HIDE DEF i, S
<1>8. CASE i = NULL
  BY <1>8 DEF i
<1>9. CASE i \in Items
  <2>1. k.next[j] = i
    BY DEF i
  <2>2. PICK p \in k.live \ k.ref : \E m \in 1..Len(M[p]) :
          m # Len(M[p]) /\ j = M[p][m] /\ i = M[p][m + 1] /\ m + 1 \in 1..Len(M[p])
    BY <1>1, <1>7, <1>9, <2>1, LinksLeadToPlaces
  <2>3. p \in Items /\ M[p] \in Seq(Items) /\ j \in ToSet(M[p]) /\ i \in ToSet(M[p])
    <3>1. p \in Items /\ M[p] \in Seq(Items)
      BY <1>4, <2>2
    <3> QED BY <2>2, <3>1, MemberFacts
  <2>4. CASE p \in h.live
    <3>1. M[p] = L[p]
      BY <1>2, <1>3, <2>4
    <3> QED BY <1>5, <2>1, <2>3, <3>1
  <2>5. CASE p \in f.live \ h.live
    <3>1. ToSet(F[p]) \subseteq Tree(F, n)
      <4>1. n \in Items
        BY <1>2, <1>3, <1>4
      <4> QED BY <1>2, <1>6, <2>5, <4>1, TreeFacts
    <3> QED BY <1>2, <1>3, <2>3, <2>5, <3>1
  <2>6. CASE p \in k.live \ f.live
    <3>1. ToSet(M[p]) \subseteq Tree(M, c)
      <4>1. c \in Items
        BY <1>3, <1>4
      <4> QED BY <1>3, <1>4, <2>6, <4>1, TreeFacts
    <3> QED BY <1>2, <1>3, <2>3, <2>6, <3>1
  <2> QED BY <2>2, <2>4, <2>5, <2>6
<1> QED BY <1>7, <1>8, <1>9

\* Before each step: the copies of the members so far hang on the copy.
DupInv(h, L, R, O, b, n) ==
    /\ b.child \in h.live \cup {NULL}
    /\ \E F : /\ Growing(h, L, R, O, b.heap, n, F) /\ F[n] \in Seq(Items)
              /\ IF b.heap.ret = NULL THEN b.child = NULL /\ b.last = NULL
                 ELSE b.heap.ret = TRUE /\ b.last = LastOf(F[n])

\* A turn of the loop adds a copy of one member, or ends it when there is none.
LEMMA DupStepKeeps ==
  ASSUME NEW h, NEW L, NEW R, NEW O, HeapInv(h, L, R, O), O \subseteq h.live,
         NEW levels, NEW deeper, levels # 0 => Duplicating(deeper),
         NEW b, NEW n, DupInv(h, L, R, O, b, n), NEW e, e = DupStep(b, n, levels, deeper)
  PROVE  DupInv(h, L, R, O, e, n)
<1> DEFINE child == b.child
           last == b.last
           f == Ret(b.heap, NULL)
           k == IF levels = 0 THEN f ELSE deeper[<<f, child>>]
           c == k.ret
           g == IF last = NULL THEN [k EXCEPT !.child[n] = c] ELSE suffix_object(k, last, c)
<1>1. CASE child = NULL
  BY <1>1 DEF DupStep
<1>2. CASE child # NULL
  <2>1. PICK F : /\ Growing(h, L, R, O, b.heap, n, F) /\ F[n] \in Seq(Items)
                 /\ b.heap.ret = TRUE /\ last = LastOf(F[n])
    BY <1>2 DEF DupInv
  <2>2. e = IF c = NULL THEN [heap |-> k, child |-> NULL, last |-> NULL]
            ELSE [heap |-> Ret(g, TRUE), child |-> k.next[child], last |-> c]
    BY <1>2 DEF DupStep
  <2>3. child \in h.live /\ child \in Items
    <3>1. h.live \subseteq Items
      BY HeapFacts
    <3> QED BY <1>2, <3>1 DEF DupInv
  <2>4. Growing(h, L, R, O, f, n, F) /\ f.ret = NULL
    <3> DEFINE u == b.heap
    <3>1. Growing(h, L, R, O, u, n, F) /\ f = Ret(u, NULL)
      BY <2>1
    <3> HIDE DEF u
    <3>2. u \in AnyHeap
      BY <3>1, MadeFacts
    <3>3. SameItems(u, f) /\ f.ret = NULL
      BY <3>1, <3>2, RetFacts
    <3> HIDE DEF f
    <3> QED BY <3>1, <3>3, SameItemsAreMade
  <2> HIDE DEF child, last, f
  <2> DEFINE Q == R \cup {n}
             P == O \cup {n}
  <2>5. /\ HeapInv(f, F, Q, P) /\ n \in f.live /\ n \in Items /\ n # NULL
        /\ h.live \subseteq f.live /\ f \in AnyHeap
    <3>1. HeapInv(f, F, Q, P)
      BY <2>4 DEF Growing
    <3>2. /\ n \in f.live /\ n \in Items /\ n # NULL
          /\ h.live \subseteq f.live /\ f \in AnyHeap
      BY <2>4, MadeFacts
    <3> QED BY <3>1, <3>2
  <2>6. levels # 0 => Makes(f, k, F, Q, P)
    <3>1. f \in Heaps
      BY <2>4, <2>5 DEF AnyHeap, Heaps
    <3>2. P \subseteq f.live /\ child \in f.live
      BY <2>3, <2>5
    <3> HIDE DEF Q, P
    <3> QED BY <2>3, <2>5, <3>1, <3>2 DEF Duplicating
  <2>7. levels = 0 => k = f
    OBVIOUS
  <2> HIDE DEF k
  <2>8. CASE c = NULL
    <3>1. Growing(h, L, R, O, k, n, F)
      <4>1. CASE levels = 0
        BY <2>4, <2>7, <4>1
      <4>2. CASE levels # 0
        <5>1. Undone(f, k, F, Q, P) /\ Q = R \cup {n} /\ P = O \cup {n}
          BY <2>6, <2>8, <4>2 DEF Makes
        <5> HIDE DEF Q, P
        <5> QED BY <2>4, <5>1, UndoneIsGrowing
      <4> QED BY <4>1, <4>2
    <3>2. e.heap = k /\ e.child = NULL /\ e.last = NULL
      BY <2>2, <2>8
    <3> QED BY <2>1, <2>8, <3>1, <3>2 DEF DupInv
  <2>9. CASE c # NULL
    <3>1. levels # 0
      BY <2>4, <2>7, <2>9
    <3> HIDE DEF c
    <3>2. PICK M : IsMade(f, F, Q, P, k, c, M)
      BY <2>6, <2>9, <3>1 DEF c, Makes, Made
    <3> DEFINE G == [M EXCEPT ![n] = Append(@, c)]
               s == F[n]
               t == Append(s, c)
    <3>3. c \in Items
      <4> HIDE DEF Q, P
      <4> QED BY <2>5, <3>2, MadeFacts
    <3>4. Hung(k, n, s, c, g) /\ Longer(M, n, c, G) /\ s = F[n] /\ s \in Seq(Items)
      <4>1. last = NULL <=> s = <<>>
        <5>1. s # <<>> => LastOf(s) \in Items
          BY <2>1 DEF LastOf
        <5>2. s = <<>> => LastOf(s) = NULL
          BY DEF LastOf
        <5> QED BY <2>1, <5>1, <5>2, ItemsAssumption
      <4> QED BY <2>1, <4>1 DEF Hung, Longer
    <3> HIDE DEF s, g, G
    <3>5. Q = R \cup {n} /\ P = O \cup {n}
      OBVIOUS
    <3> HIDE DEF Q, P
    <3>6. Growing(h, L, R, O, g, n, G)
      BY <2>4, <3>2, <3>4, <3>5, GrowingGrows
    <3>7. G[n] = t
      BY <2>5, <3>2, <3>4, LongerFacts
    <3> DEFINE v == Ret(g, TRUE)
    <3>8. SameItems(g, v) /\ v.ret = TRUE
      <4>1. g \in AnyHeap
        BY <3>6, MadeFacts
      <4> QED BY <4>1, RetFacts
    <3>9. e.heap = v /\ e.last = c /\ e.child = k.next[child]
      BY <2>2, <2>9
    <3> HIDE DEF v
    <3>10. Growing(h, L, R, O, v, n, G)
      BY <3>6, <3>8, SameItemsAreMade
    <3>11. k.next[child] \in h.live \cup {NULL}
      BY <2>3, <2>4, <3>2, NextStays
    <3>12. t \in Seq(Items) /\ LastOf(t) = c
      BY <3>3, <3>4, AppendLast
    <3> HIDE DEF t
    <3>13. v.ret # NULL
      BY <3>8, TreeAssumption
    <3> QED BY <3>7, <3>8, <3>9, <3>10, <3>11, <3>12, <3>13 DEF DupInv
  <2> QED BY <2>8, <2>9
<1> QED BY <1>1, <1>2

\* The copies of the members: all of them, or a heap that says that one failed.
LEMMA DuplicateChildrenGrows ==
  ASSUME NEW h, NEW L, NEW R, NEW O, HeapInv(h, L, R, O), O \subseteq h.live,
         NEW levels, NEW deeper, levels # 0 => Duplicating(deeper),
         NEW f, NEW n, Growing(h, L, R, O, f, n, L), L[n] = <<>>,
         NEW child \in h.live \cup {NULL},
         NEW g, g = DuplicateChildren(f, n, child, levels, deeper)
  PROVE  \/ g.ret = NULL /\ \E F : Growing(h, L, R, O, g, n, F)
         \/ g.ret = TRUE /\ \E F : IsMade(h, L, R, O, g, n, F)
<1> DEFINE P(v) == IsDupLoop(v, Count, f, n, child, levels, deeper)
           v == CHOOSE v : P(v)
           end == v[Count]
           last == end.heap
<1>1. g = DupEnd(end, n)
  BY DupIsChosen
<1>2. P(v)
  <2>1. \E w : P(w)
    BY DupLoopExists, CountIsNat
  <2> HIDE DEF P
  <2> QED BY <2>1
<1> HIDE DEF v
<1>3. /\ v[0] = DupStart(f, child)
      /\ \A i \in 1..Count : v[i] = DupStep(v[i - 1], n, levels, deeper)
  <2>1. \A i \in 0..Count :
           v[i] = IF i = 0 THEN DupStart(f, child) ELSE DupStep(v[i - 1], n, levels, deeper)
    BY <1>2 DEF IsDupLoop
  <2>2. 0 \in 0..Count /\ \A i \in 1..Count : i \in 0..Count /\ i # 0
    BY CountIsNat
  <2> QED BY <2>1, <2>2
<1> DEFINE N == {i \in 0..Count : DupInv(h, L, R, O, v[i], n)}
<1>4. 0 \in N
  <2> DEFINE b == v[0]
             u == Ret(f, TRUE)
  <2>1. SameItems(f, u) /\ u.ret = TRUE /\ u.ret # NULL
    <3>1. f \in AnyHeap
      BY MadeFacts
    <3> QED BY <3>1, RetFacts, TreeAssumption
  <2>2. b.heap = u /\ b.child = child /\ b.last = NULL
    BY <1>3 DEF DupStart
  <2> HIDE DEF b, u
  <2>3. Growing(h, L, R, O, u, n, L)
    BY <2>1, SameItemsAreMade
  <2>4. L[n] \in Seq(Items) /\ LastOf(L[n]) = NULL
    <3>1. <<>> \in Seq(Items)
      OBVIOUS
    <3> QED BY <3>1 DEF LastOf
  <2>5. DupInv(h, L, R, O, b, n)
    BY <2>1, <2>2, <2>3, <2>4 DEF DupInv
  <2> QED BY <2>5, CountIsNat DEF b
<1>5. ASSUME NEW i \in 1..Count, i - 1 \in N
      PROVE  i \in N
  <2> DEFINE b == v[i - 1]
             e == v[i]
  <2>1. DupInv(h, L, R, O, b, n) /\ i \in 0..Count
    BY <1>5, CountIsNat
  <2>2. e = DupStep(b, n, levels, deeper)
    BY <1>3
  <2> HIDE DEF b, e
  <2>3. DupInv(h, L, R, O, e, n)
    BY <2>1, <2>2, DupStepKeeps
  <2> QED BY <2>1, <2>3 DEF e
<1>6. DupInv(h, L, R, O, end, n)
  <2>1. Count \in 0..Count
    BY CountIsNat
  <2>2. Count \in N
    <3> HIDE DEF N
    <3> QED BY <1>4, <1>5, <2>1, CountIsNat, Induction
  <2> QED BY <2>2
<1> HIDE DEF N, end, P
<1>7. PICK F : /\ Growing(h, L, R, O, last, n, F) /\ F[n] \in Seq(Items)
               /\ IF last.ret = NULL THEN end.last = NULL
                  ELSE last.ret = TRUE /\ end.last = LastOf(F[n])
  BY <1>6 DEF DupInv
<1>8. g = IF end.last = NULL THEN last ELSE [last EXCEPT !.prev[last.child[n]] = end.last]
  BY <1>1 DEF DupEnd
<1>9. CASE last.ret = NULL
  <2>1. g = last
    BY <1>7, <1>8, <1>9
  <2> QED BY <1>7, <1>9, <2>1
<1>10. CASE last.ret # NULL
  <2>1. end.last = LastOf(F[n]) /\ last.ret = TRUE
    BY <1>7, <1>10
  <2>2. LastOf(F[n]) = NULL <=> F[n] = <<>>
    <3>1. F[n] # <<>> => LastOf(F[n]) \in Items
      BY <1>7 DEF LastOf
    <3>2. F[n] = <<>> => LastOf(F[n]) = NULL
      BY DEF LastOf
    <3> QED BY <3>1, <3>2, ItemsAssumption
  <2> HIDE DEF last
  <2>3. g = IF F[n] = <<>> THEN last ELSE [last EXCEPT !.prev[last.child[n]] = LastOf(F[n])]
    BY <1>8, <2>1, <2>2
  <2>4. IsMade(h, L, R, O, g, n, F) /\ g.ret = last.ret
    BY <1>7, <2>3, GrowingCloses
  <2> QED BY <2>1, <2>4
<1> QED BY <1>9, <1>10

\* The list of a new item may be left open.
LEMMA LeafGrows ==
  ASSUME NEW h, NEW L, NEW R, NEW O, HeapInv(h, L, R, O),
         NEW f, NEW n, IsMade(h, L, R, O, f, n, L), L[n] = <<>>
  PROVE  Growing(h, L, R, O, f, n, L)
<1> DEFINE Q == R \cup {n}
           P == O \cup {n}
<1>1. HeapInv(f, L, Q, O) /\ Grown(h, L, f, L, n)
  BY DEF IsMade
<1>2. \A q \in f.live \ f.ref : L[q] # <<>> => (q \in P <=> q \in O)
  OBVIOUS
<1>3. HeapInv(f, L, Q, P)
  <2> HIDE DEF Q, P
  <2> QED BY <1>1, <1>2, OpenKeeps
<1> QED BY <1>1, <1>3 DEF Growing

\* An item's copy, with copies of all below it, or nothing when an allocation
\* fails or CIRCULAR_LIMIT is met.
LEMMA DuplicateRecMakes ==
  ASSUME NEW h, NEW L, NEW R, NEW O, HeapInv(h, L, R, O), O \subseteq h.live,
         NEW item \in h.live, NEW recurse \in BOOLEAN, NEW levels, NEW deeper,
         recurse /\ levels # 0 => Duplicating(deeper),
         NEW g, g = cJSON_Duplicate_rec(h, item, recurse, levels, deeper)
  PROVE  Makes(h, g, L, R, O)
<1> DEFINE new == cJSON_New_Item(h)
           n == new.ret
           fields == CopyFields(new, item, n)
           child == h.child[item]
           whole == IF fields.ret = NULL \/ ~recurse THEN fields
                    ELSE DuplicateChildren(fields, n, child, levels, deeper)
<1>1. g = IF n = NULL THEN new
          ELSE IF whole.ret = NULL THEN Ret(cJSON_Delete(whole, n), NULL) ELSE Ret(whole, n)
  BY DEF cJSON_Duplicate_rec
<1>2. Makes(h, new, L, R, O)
  BY NewItemMakes
<1>3. n = new.ret /\ new = cJSON_New_Item(h) /\ fields = CopyFields(new, item, n)
  OBVIOUS
<1>4. child \in h.live \cup {NULL}
  BY HeapFacts DEF Memory
<1>5. whole = IF fields.ret = NULL \/ ~recurse THEN fields
              ELSE DuplicateChildren(fields, n, child, levels, deeper)
  OBVIOUS
<1> HIDE DEF new, n, fields, child, whole
<1>6. CASE n = NULL
  BY <1>1, <1>2, <1>6
<1>7. CASE n # NULL
  <2>1. L[n] = <<>>
    BY <1>3, <1>7, NewItemIsBlank
  <2>2. IsMade(h, L, R, O, fields, n, L) /\ fields.ret \in {NULL, TRUE}
    BY <1>3, <1>7, CopyFieldsMakes
  <2>3. \/ whole.ret = NULL /\ \E M : \/ IsMade(h, L, R, O, whole, n, M)
                                      \/ Growing(h, L, R, O, whole, n, M)
        \/ whole.ret = TRUE /\ \E M : IsMade(h, L, R, O, whole, n, M)
    <3>1. CASE fields.ret = NULL \/ ~recurse
      BY <1>5, <2>2, <3>1
    <3>2. CASE ~(fields.ret = NULL \/ ~recurse)
      <4>1. whole = DuplicateChildren(fields, n, child, levels, deeper)
        BY <1>5, <3>2
      <4>2. levels # 0 => Duplicating(deeper)
        BY <3>2
      <4>3. Growing(h, L, R, O, fields, n, L)
        BY <2>1, <2>2, LeafGrows
      <4>4. \/ whole.ret = NULL /\ \E F : Growing(h, L, R, O, whole, n, F)
            \/ whole.ret = TRUE /\ \E F : IsMade(h, L, R, O, whole, n, F)
        BY <1>4, <2>1, <4>1, <4>2, <4>3, DuplicateChildrenGrows
      <4> QED BY <4>4
    <3> QED BY <3>1, <3>2
  <2>4. CASE whole.ret = NULL
    <3>1. PICK M : IsMade(h, L, R, O, whole, n, M) \/ Growing(h, L, R, O, whole, n, M)
      BY <2>3
    <3>2. g = Ret(cJSON_Delete(whole, n), NULL)
      BY <1>1, <1>7, <2>4
    <3>3. Undone(h, g, L, R, O) /\ g.ret = NULL
      BY <3>1, <3>2, UndoMade
    <3> QED BY <3>3 DEF Makes
  <2>5. CASE whole.ret # NULL
    <3>1. PICK M : IsMade(h, L, R, O, whole, n, M)
      BY <2>3, <2>5
    <3>2. g = Ret(whole, n)
      BY <1>1, <1>7, <2>5
    <3>3. whole \in AnyHeap /\ n \in Items
      BY <3>1, MadeFacts
    <3>4. SameItems(whole, g) /\ g.ret = n
      BY <3>2, <3>3, RetFacts
    <3>5. IsMade(h, L, R, O, g, n, M)
      BY <3>1, <3>4, SameItemsAreMade
    <3> QED BY <1>7, <3>4, <3>5 DEF Makes, Made
  <2> QED BY <2>4, <2>5
<1> QED BY <1>6, <1>7

\* The calls of one level, which call those of the level below.
Level(levels, deeper) ==
    [call \in Heaps \X Items |-> cJSON_Duplicate_rec(call[1], call[2], TRUE, levels, deeper)]

IsLevels(f, m) ==
    f = [levels \in 0..m |-> Level(levels, IF levels = 0 THEN <<>> ELSE f[levels - 1])]

\* The recursion, level by level, is a function ...
LEMMA LevelsExist ==
  ASSUME NEW m \in Nat
  PROVE  \E f : IsLevels(f, m)
<1> DEFINE N == {k \in 0..m : \E f : IsLevels(f, k)}
<1>1. 0 \in N
  <2> DEFINE f == [i \in 0..0 |-> Level(i, <<>>)]
  <2>1. f = [i \in 0..0 |-> Level(i, IF i = 0 THEN <<>> ELSE f[i - 1])]
    OBVIOUS
  <2> HIDE DEF f
  <2>2. IsLevels(f, 0) /\ 0 \in 0..m
    BY <2>1 DEF IsLevels
  <2> QED BY <2>2
<1>2. ASSUME NEW k \in 1..m, k - 1 \in N
      PROVE  k \in N
  <2>1. PICK f : IsLevels(f, k - 1)
    BY <1>2
  <2> DEFINE v == [i \in 0..k |-> IF i = k THEN Level(k, f[k - 1]) ELSE f[i]]
  <2>2. ASSUME NEW i \in 0..k
        PROVE  v[i] = Level(i, IF i = 0 THEN <<>> ELSE v[i - 1])
    <3>1. i # 0 => i - 1 \in 0..k /\ i - 1 # k /\ v[i - 1] = f[i - 1]
      OBVIOUS
    <3>2. CASE i = k
      BY <3>1, <3>2
    <3>3. CASE i # k
      <4>1. i \in 0..(k - 1) /\ v[i] = f[i]
        BY <3>3
      <4>2. f[i] = Level(i, IF i = 0 THEN <<>> ELSE f[i - 1])
        BY <2>1, <4>1 DEF IsLevels
      <4> HIDE DEF v
      <4> QED BY <3>1, <4>1, <4>2
    <3> QED BY <3>2, <3>3
  <2>3. v = [i \in 0..k |-> v[i]]
    OBVIOUS
  <2> HIDE DEF v
  <2>4. IsLevels(v, k)
    BY <2>2, <2>3 DEF IsLevels
  <2> QED BY <2>4
<1>3. m \in N
  <2>1. m \in 0..m
    OBVIOUS
  <2> HIDE DEF N
  <2> QED BY <1>1, <1>2, <2>1, Induction
<1> QED BY <1>3

\* ... which is Duplicates.
LEMMA DuplicatesAreChosen == Duplicates = CHOOSE f : IsLevels(f, CIRCULAR_LIMIT)
BY DEF Duplicates, IsLevels, Level

\* At every level a duplicate is made whole, or nothing is.
LEMMA DuplicatesMake == Duplicating(Duplicates[CIRCULAR_LIMIT])
<1> DEFINE P(f) == IsLevels(f, CIRCULAR_LIMIT)
           D == Duplicates
<1>0. CIRCULAR_LIMIT \in Nat
  BY TreeAssumption
<1>1. P(D)
  <2>1. \E f : P(f)
    BY <1>0, LevelsExist
  <2>2. D = CHOOSE f : P(f)
    BY DuplicatesAreChosen
  <2> HIDE DEF P, D
  <2> QED BY <2>1, <2>2
<1> HIDE DEF D
<1>2. /\ D[0] = Level(0, <<>>)
      /\ \A i \in 1..CIRCULAR_LIMIT : D[i] = Level(i, D[i - 1])
  <2>1. \A i \in 0..CIRCULAR_LIMIT : D[i] = Level(i, IF i = 0 THEN <<>> ELSE D[i - 1])
    BY <1>1 DEF IsLevels
  <2>2. 0 \in 0..CIRCULAR_LIMIT /\ \A i \in 1..CIRCULAR_LIMIT : i \in 0..CIRCULAR_LIMIT /\ i # 0
    BY <1>0
  <2> QED BY <2>1, <2>2
<1>3. ASSUME NEW levels \in Nat, NEW deeper, levels # 0 => Duplicating(deeper)
      PROVE  Duplicating(Level(levels, deeper))
  <2> SUFFICES ASSUME NEW h, NEW L, NEW R, NEW O, NEW item \in Items,
                      h \in Heaps, HeapInv(h, L, R, O), O \subseteq h.live, item \in h.live
               PROVE  Makes(h, Level(levels, deeper)[<<h, item>>], L, R, O)
    BY DEF Duplicating
  <2> DEFINE g == cJSON_Duplicate_rec(h, item, TRUE, levels, deeper)
  <2>1. Level(levels, deeper)[<<h, item>>] = g
    BY DEF Level
  <2>2. TRUE \in BOOLEAN /\ (TRUE /\ levels # 0 => Duplicating(deeper))
    BY <1>3
  <2>3. Makes(h, g, L, R, O)
    BY <2>2, DuplicateRecMakes
  <2> QED BY <2>1, <2>3
<1> DEFINE N == {i \in 0..CIRCULAR_LIMIT : Duplicating(D[i])}
<1>4. 0 \in N
  <2>1. Duplicating(Level(0, <<>>))
    BY <1>3
  <2> QED BY <1>0, <1>2, <2>1
<1>5. ASSUME NEW i \in 1..CIRCULAR_LIMIT, i - 1 \in N
      PROVE  i \in N
  <2>1. Duplicating(D[i - 1]) /\ i \in Nat /\ i \in 0..CIRCULAR_LIMIT
    BY <1>0, <1>5
  <2>2. Duplicating(Level(i, D[i - 1]))
    BY <1>3, <2>1
  <2> QED BY <1>2, <2>1, <2>2
<1>6. CIRCULAR_LIMIT \in N
  <2>1. CIRCULAR_LIMIT \in 0..CIRCULAR_LIMIT
    BY <1>0
  <2> HIDE DEF N
  <2> QED BY <1>0, <1>4, <1>5, <2>1, Induction
<1> QED BY <1>6 DEF D

\* A copy is a tree of its own, whatever is copied; a copy that fails half way
\* leaves nothing behind.
THEOREM DuplicateMakes ==
  ASSUME NEW h, NEW L, NEW R, HeapInv(h, L, R, {}), h \in Heaps,
         NEW item \in h.live, NEW recurse \in BOOLEAN,
         NEW g, g = cJSON_Duplicate(h, item, recurse)
  PROVE  Makes(h, g, L, R, {})
<1> DEFINE O == {}
<1>1. HeapInv(h, L, R, O) /\ O \subseteq h.live /\ item \in Items
  BY HeapFacts
<1>2. O = {}
  OBVIOUS
<1> HIDE DEF O
<1>3. CASE recurse
  <2>1. g = Duplicates[CIRCULAR_LIMIT][<<h, item>>]
    BY <1>3 DEF cJSON_Duplicate
  <2> QED BY <1>1, <1>2, <2>1, DuplicatesMake DEF Duplicating
<1>4. CASE ~recurse
  <2>1. g = cJSON_Duplicate_rec(h, item, FALSE, 0, <<>>)
    BY <1>4 DEF cJSON_Duplicate
  <2>2. Makes(h, g, L, R, O)
    <3>1. FALSE \in BOOLEAN /\ (FALSE /\ 0 # 0 => Duplicating(<<>>))
      OBVIOUS
    <3> QED BY <1>1, <2>1, <3>1, DuplicateRecMakes
  <2> QED BY <1>2, <2>2
<1> QED BY <1>3, <1>4
=============================================================================
