--------------------------- MODULE JsonListProofs ---------------------------
(***************************************************************************)
(* What the linked lists of cJSON.c do for lists of every length, in any   *)
(* heap: each operator of JsonList, applied to a well linked list, gives   *)
(* the sequence its name promises, well linked again, and changes no link  *)
(* of any other list.                                                      *)
(*                                                                         *)
(* Children and get_array_item walk along next by a recursive function.    *)
(* What such a walk does is proved by induction over sets of numbers,      *)
(* which the well-foundedness of < gives.                                  *)
(***************************************************************************)
EXTENDS JsonList, SequencesExt, FiniteSetTheorems, SequenceTheorems, WellFoundedInduction, TLAPS

---------------------------------------------------------------------------
(* Induction. *)

Less == {p \in Nat \X Nat : p[1] < p[2]}

\* Every set of numbers that is not empty has a least one.
LEMMA LeastNumber ==
  ASSUME NEW T \in SUBSET Nat, T # {}
  PROVE  \E n \in T : \A m \in T : n <= m
<1>1. IsWellFoundedOn(Less, Nat)
  BY NatLessThanWellFounded DEF OpToRel, Less
<1>2. PICK n \in T : \A m \in T : <<m, n>> \notin Less
  BY <1>1, WFMin
<1>3. ASSUME NEW m \in T
      PROVE  n <= m
  <2>1. <<m, n>> \in Nat \X Nat /\ <<m, n>>[1] = m /\ <<m, n>>[2] = n
    OBVIOUS
  <2>2. ~(m < n)
    BY <1>2, <2>1 DEF Less
  <2> QED BY <2>2
<1> QED BY <1>3

\* Induction up to a bound, for a set of numbers in place of a predicate.
LEMMA Induction ==
  ASSUME NEW m \in Nat, NEW S, 0 \in S, \A n \in 1..m : n - 1 \in S => n \in S
  PROVE  0..m \subseteq S
<1> DEFINE T == (0..m) \ S
<1> SUFFICES ASSUME T # {}
             PROVE  FALSE
  OBVIOUS
<1>1. T \in SUBSET Nat
  OBVIOUS
<1>2. PICK n \in T : \A k \in T : n <= k
  <2> HIDE DEF T
  <2> QED BY <1>1, LeastNumber
<1>3. n \in 1..m /\ n - 1 \in 0..m /\ n - 1 \in S
  BY <1>2
<1> QED BY <1>2, <1>3

---------------------------------------------------------------------------
(* Walks. *)

IsHeap(h) ==
    /\ {"next", "prev", "child", "ret"} \subseteq DOMAIN h
    /\ h.next \in [Items -> Items \cup {NULL}]
    /\ h.prev \in [Items -> Items \cup {NULL}]
    /\ h.child \in [Items -> Items \cup {NULL}]

Distinct(s) == \A j, k \in DOMAIN s : s[j] = s[k] => j = k

Count == Cardinality(Items)

\* There are finitely many items.
LEMMA CountIsNat == Count \in Nat
BY ItemsAssumption, FS_CardinalityType DEF Count

\* A list without repetition has no more members than there are items.
LEMMA NoLongerThanItems ==
  ASSUME NEW s \in Seq(Items), Distinct(s)
  PROVE  Len(s) <= Count
<1>1. s \in Injection(1..Len(s), Items)
  BY DEF Injection, IsInjective, Distinct
<1>2. Cardinality(1..Len(s)) = Len(s)
  <2>1. Len(s) \in Int /\ 1 \in Int /\ (1 > Len(s) => Len(s) = 0)
    OBVIOUS
  <2> QED BY <2>1, FS_Interval
<1> QED BY <1>1, <1>2, FS_Injection, ItemsAssumption DEF Count

\* One more item of the list.
Step(h, array, s) ==
    LET i == IF s = <<>> THEN h.child[array] ELSE h.next[s[Len(s)]]
    IN  IF i = NULL THEN s ELSE Append(s, i)

IsWalk(w, m, h, array) ==
    w = [n \in 0..m |-> IF n = 0 THEN <<>> ELSE Step(h, array, w[n - 1])]

\* Children is the last value of a walk along the next chain ...
LEMMA ChildrenIsChosen ==
  ASSUME NEW h, NEW array
  PROVE  Children(h, array) = (CHOOSE w : IsWalk(w, Count, h, array))[Count]
BY DEF Children, IsWalk, Step, Count

\* ... which there is only one of ...
LEMMA WalkUnique ==
  ASSUME NEW h, NEW array, NEW m \in Nat, NEW v, NEW w,
         IsWalk(v, m, h, array), IsWalk(w, m, h, array)
  PROVE  v[m] = w[m]
<1> DEFINE S == {n \in Nat : v[n] = w[n]}
<1>1. 0 \in S
  BY DEF IsWalk
<1>2. ASSUME NEW n \in 1..m, n - 1 \in S
      PROVE  n \in S
  BY <1>2 DEF IsWalk
<1>3. 0..m \subseteq S
  <2> HIDE DEF S
  <2> QED BY <1>1, <1>2, Induction
<1> QED BY <1>3

\* ... so that any such walk ends with it.
LEMMA ChildrenOfWalk ==
  ASSUME NEW h, NEW array, NEW w, IsWalk(w, Count, h, array)
  PROVE  Children(h, array) = w[Count]
<1> DEFINE P(v) == IsWalk(v, Count, h, array)
<1> HIDE DEF P
<1>1. P(w)
  BY DEF P
<1>2. P(CHOOSE v : P(v))
  BY <1>1
<1>3. Children(h, array) = (CHOOSE v : P(v))[Count]
  BY ChildrenIsChosen DEF P
<1>4. (CHOOSE v : P(v))[Count] = w[Count]
  BY <1>1, <1>2, WalkUnique, CountIsNat DEF P
<1> QED BY <1>3, <1>4

\* What one step of the walk does.
LEMMA StepFacts ==
  ASSUME NEW h, IsHeap(h), NEW array \in Items, NEW s \in Seq(Items)
  PROVE  /\ Step(h, array, s) \in Seq(Items)
         /\ h.child[array] = NULL /\ s = <<>> => Step(h, array, s) = <<>>
         /\ h.child[array] # NULL /\ s = <<>> =>
              Step(h, array, s) # <<>> /\ Step(h, array, s)[1] = h.child[array]
         /\ s # <<>> => Step(h, array, s) # <<>> /\ Step(h, array, s)[1] = s[1]
<1> DEFINE i == IF s = <<>> THEN h.child[array] ELSE h.next[s[Len(s)]]
<1>1. i \in Items \cup {NULL}
  BY DEF IsHeap
<1>2. CASE i = NULL
  BY <1>2 DEF Step
<1>3. CASE i # NULL
  <2> HIDE DEF i
  <2>1. /\ Append(s, i) \in Seq(Items) /\ Append(s, i) # <<>>
        /\ s = <<>> => Append(s, i)[1] = i
        /\ s # <<>> => Append(s, i)[1] = s[1]
    BY <1>1, <1>3
  <2>2. Step(h, array, s) = Append(s, i)
    BY <1>3 DEF Step, i
  <2> QED BY <1>3, <2>1, <2>2 DEF i
<1> QED BY <1>2, <1>3

\* There is such a walk, and it goes from sequence to sequence.
LEMMA WalkExists ==
  ASSUME NEW h, IsHeap(h), NEW array \in Items, NEW m \in Nat
  PROVE  \E w \in [0..m -> Seq(Items)] : IsWalk(w, m, h, array)
<1> DEFINE S == {n \in 0..m : \E w \in [0..n -> Seq(Items)] : IsWalk(w, n, h, array)}
<1>1. 0 \in S
  <2> DEFINE w == [n \in 0..0 |-> <<>>]
  <2>1. w \in [0..0 -> Seq(Items)] /\ IsWalk(w, 0, h, array)
    BY DEF IsWalk
  <2> QED BY <2>1
<1>2. ASSUME NEW n \in 1..m, n - 1 \in S
      PROVE  n \in S
  <2>1. PICK w \in [0..(n - 1) -> Seq(Items)] : IsWalk(w, n - 1, h, array)
    BY <1>2
  <2> DEFINE e == Step(h, array, w[n - 1])
             v == [k \in 0..n |-> IF k = n THEN e ELSE w[k]]
  <2>2. e \in Seq(Items)
    BY StepFacts
  <2> HIDE DEF e
  <2>3. v \in [0..n -> Seq(Items)]
    BY <2>2
  <2>4. ASSUME NEW k \in 0..n
        PROVE  v[k] = IF k = 0 THEN <<>> ELSE Step(h, array, v[k - 1])
    BY <2>1, <2>3 DEF IsWalk, e
  <2>5. IsWalk(v, n, h, array)
    BY <2>3, <2>4 DEF IsWalk
  <2> QED BY <2>3, <2>5
<1>3. 0..m \subseteq S
  <2> HIDE DEF S
  <2> QED BY <1>1, <1>2, Induction
<1> QED BY <1>3

\* The walk starts at child, and finds items only.
LEMMA ChildrenFacts ==
  ASSUME NEW h, IsHeap(h), NEW array \in Items
  PROVE  /\ Children(h, array) \in Seq(Items)
         /\ h.child[array] = IF Children(h, array) = <<>> THEN NULL ELSE Children(h, array)[1]
<1>1. PICK w \in [0..Count -> Seq(Items)] : IsWalk(w, Count, h, array)
  BY WalkExists, CountIsNat
<1>2. Children(h, array) = w[Count]
  BY <1>1, ChildrenOfWalk
<1>3. Count \in Nat \ {0}
  BY ItemsAssumption, FS_EmptySet, CountIsNat DEF Count
<1> DEFINE Good(s) == IF h.child[array] = NULL THEN s = <<>>
                                          ELSE s # <<>> /\ s[1] = h.child[array]
           S == {n \in 0..Count : n > 0 => Good(w[n])}
<1>4. 0 \in S
  BY CountIsNat
<1>5. ASSUME NEW n \in 1..Count, n - 1 \in S
      PROVE  n \in S
  <2>1. w[n] = Step(h, array, w[n - 1]) /\ w[n - 1] \in Seq(Items)
    <3>1. n \in 0..Count /\ n - 1 \in 0..Count /\ n # 0
      BY CountIsNat
    <3> QED BY <1>1, <3>1 DEF IsWalk
  <2>2. n - 1 = 0 => w[n - 1] = <<>>
    BY <1>1, CountIsNat DEF IsWalk
  <2>3. w[n - 1] = <<>> \/ Good(w[n - 1])
    BY <1>5, <2>2
  <2>4. n - 1 > 0 /\ w[n - 1] = <<>> => h.child[array] = NULL
    BY <1>5
  <2>5. Good(w[n])
    BY <2>1, <2>2, <2>3, <2>4, StepFacts
  <2> QED BY <2>5
<1>6. Count \in S
  <2>1. Count \in Nat /\ Count \in 0..Count
    BY <1>3
  <2> HIDE DEF S
  <2>2. 0..Count \subseteq S
    BY <1>4, <1>5, <2>1, Induction
  <2> QED BY <2>1, <2>2
<1> QED BY <1>1, <1>2, <1>3, <1>6

---------------------------------------------------------------------------
(* The list of an item. *)

\* s is the list that hangs on an item, and is well linked.
IsList(h, array, s) ==
    /\ s \in Seq(Items) /\ Distinct(s)
    /\ h.child[array] = IF s = <<>> THEN NULL ELSE s[1]
    /\ \A k \in 1..Len(s) :
          /\ h.next[s[k]] = IF k = Len(s) THEN NULL ELSE s[k + 1]
          /\ h.prev[s[k]] = IF k = 1 THEN s[Len(s)] ELSE s[k - 1]

\* The first n members of a list.
LEMMA PrefixFacts ==
  ASSUME NEW s \in Seq(Items), NEW n \in 0..Len(s)
  PROVE  /\ SubSeq(s, 1, n) \in Seq(Items) /\ Len(SubSeq(s, 1, n)) = n
         /\ n > 0 => SubSeq(s, 1, n)[n] = s[n]
         /\ n = 0 => SubSeq(s, 1, n) = <<>>
         /\ n = Len(s) => SubSeq(s, 1, n) = s
         /\ n < Len(s) => Append(SubSeq(s, 1, n), s[n + 1]) = SubSeq(s, 1, n + 1)
OBVIOUS

\* What next leads through from child, as far as it goes.
IsChain(h, array, s) ==
    /\ s \in Seq(Items) /\ Len(s) <= Count
    /\ h.child[array] = IF s = <<>> THEN NULL ELSE s[1]
    /\ \A k \in 1..Len(s) : h.next[s[k]] = IF k = Len(s) THEN NULL ELSE s[k + 1]

\* A chain is what the walk collects, however prev is linked.
LEMMA ChainIsChildren ==
  ASSUME NEW h, NEW array, NEW s, IsChain(h, array, s)
  PROVE  Children(h, array) = s
<1> DEFINE n == Len(s)
           Upto(k) == IF k <= n THEN k ELSE n
           w == [k \in 0..Count |-> SubSeq(s, 1, Upto(k))]
<1>1. s \in Seq(Items) /\ n \in Nat /\ n <= Count /\ Count \in Nat
  BY CountIsNat DEF IsChain
<1>2. ASSUME NEW k \in 0..Count
      PROVE  w[k] = IF k = 0 THEN <<>> ELSE Step(h, array, w[k - 1])
  <2>1. CASE k = 0
    <3>1. w[k] = SubSeq(s, 1, 0)
      BY <1>1, <2>1
    <3> QED BY <1>1, <2>1, <3>1, PrefixFacts
  <2>2. CASE k # 0
    <3> DEFINE j == k - 1
               t == SubSeq(s, 1, Upto(j))
    <3>1. j \in 0..Count /\ w[j] = t /\ j + 1 = k /\ Upto(j) \in 0..n
      BY <1>1, <2>2
    <3>2. t \in Seq(Items) /\ Len(t) = Upto(j) /\ (t = <<>> <=> Upto(j) = 0)
      BY <1>1, <3>1, PrefixFacts
    <3>3. CASE j < n
      <4>1. Upto(j) = j /\ Upto(k) = j + 1 /\ s[j + 1] \in Items /\ s[j + 1] # NULL
        BY <1>1, <3>1, <3>3, ItemsAssumption
      <4>2. (IF t = <<>> THEN h.child[array] ELSE h.next[t[Len(t)]]) = s[j + 1]
        <5>1. CASE j = 0
          BY <1>1, <3>2, <3>3, <4>1, <5>1 DEF IsChain
        <5>2. CASE j # 0
          <6>1. t[j] = s[j] /\ j \in 1..n /\ j # n
            BY <1>1, <3>1, <3>3, <4>1, <5>2, PrefixFacts
          <6> QED BY <3>2, <4>1, <5>2, <6>1 DEF IsChain
        <5> QED BY <5>1, <5>2
      <4>3. Step(h, array, t) = Append(t, s[j + 1])
        <5> DEFINE i == s[j + 1]
        <5>1. i # NULL /\ (IF t = <<>> THEN h.child[array] ELSE h.next[t[Len(t)]]) = i
          BY <4>1, <4>2
        <5> HIDE DEF t, i
        <5>2. Step(h, array, t) = Append(t, i)
          BY <5>1 DEF Step
        <5> QED BY <5>2 DEF i
      <4>4. Append(t, s[j + 1]) = SubSeq(s, 1, j + 1)
        BY <1>1, <3>1, <3>3, <4>1, PrefixFacts
      <4> QED BY <2>2, <3>1, <4>1, <4>3, <4>4
    <3>4. CASE ~(j < n)
      <4>1. Upto(j) = n /\ Upto(k) = n
        BY <1>1, <3>1, <3>4
      <4>2. t = s
        BY <1>1, <4>1, PrefixFacts
      <4>3. (IF t = <<>> THEN h.child[array] ELSE h.next[t[Len(t)]]) = NULL
        <5>1. CASE n = 0
          BY <1>1, <4>2, <5>1 DEF IsChain
        <5>2. CASE n # 0
          <6>1. n \in 1..n /\ s # <<>>
            BY <1>1, <5>2
          <6>2. h.next[s[n]] = NULL
            BY <6>1 DEF IsChain
          <6> QED BY <4>2, <6>1, <6>2
        <5> QED BY <5>1, <5>2
      <4>4. Step(h, array, t) = t
        <5> HIDE DEF t
        <5> QED BY <4>3 DEF Step
      <4> QED BY <2>2, <3>1, <4>1, <4>4
    <3> QED BY <1>1, <3>1, <3>3, <3>4
  <2> QED BY <2>1, <2>2
<1>3. IsWalk(w, Count, h, array)
  <2>1. w = [k \in 0..Count |-> w[k]]
    OBVIOUS
  <2> HIDE DEF w
  <2> QED BY <1>2, <2>1 DEF IsWalk
<1>4. w[Count] = s
  BY <1>1, PrefixFacts
<1> QED BY <1>3, <1>4, ChildrenOfWalk

\* A list that is linked as it must be is what the walk collects.
LEMMA ListIsChildren ==
  ASSUME NEW h, NEW array, NEW s, IsList(h, array, s)
  PROVE  Children(h, array) = s
<1>1. Len(s) <= Count
  BY NoLongerThanItems DEF IsList
<1>2. IsChain(h, array, s)
  BY <1>1 DEF IsList, IsChain
<1> QED BY <1>2, ChainIsChildren

\* In whatever heap, what hangs on an item is a well linked list exactly when
\* Children gives it and WellLinked holds.
LEMMA WellLinkedIsList ==
  ASSUME NEW h, IsHeap(h), NEW array \in Items
  PROVE  WellLinked(h, array) <=> IsList(h, array, Children(h, array))
<1> DEFINE s == Children(h, array)
<1>1. s \in Seq(Items) /\ DOMAIN s = 1..Len(s)
      /\ h.child[array] = IF s = <<>> THEN NULL ELSE s[1]
  BY ChildrenFacts
<1>2. WellLinked(h, array) <=>
        /\ \A j, k \in DOMAIN s : s[j] = s[k] => j = k
        /\ \A k \in DOMAIN s :
              /\ h.next[s[k]] = IF k = Len(s) THEN NULL ELSE s[k + 1]
              /\ h.prev[s[k]] = IF k = 1 THEN s[Len(s)] ELSE s[k - 1]
  BY Zenon DEF WellLinked
<1> HIDE DEF s
<1>3. WellLinked(h, array) <=> IsList(h, array, s)
  BY <1>1, <1>2 DEF IsList, Distinct
<1> QED BY <1>3 DEF s

\* ... and is well linked.
LEMMA ListIsWellLinked ==
  ASSUME NEW h, IsHeap(h), NEW array \in Items, NEW s, IsList(h, array, s)
  PROVE  WellLinked(h, array) /\ Children(h, array) = s
BY ListIsChildren, WellLinkedIsList

\* What the links of a list say.
LEMMA ListFacts ==
  ASSUME NEW h, IsHeap(h), NEW array \in Items, NEW s, IsList(h, array, s)
  PROVE  /\ s \in Seq(Items) /\ Len(s) \in Nat
         /\ \A j, k \in 1..Len(s) : s[j] = s[k] => j = k
         /\ \A k \in 1..Len(s) : s[k] \in Items /\ s[k] # NULL
         /\ Len(s) = 0 <=> s = <<>>
         /\ h.child[array] = IF Len(s) = 0 THEN NULL ELSE s[1]
         /\ \A k \in 1..Len(s) :
               /\ h.next[s[k]] = IF k = Len(s) THEN NULL ELSE s[k + 1]
               /\ h.prev[s[k]] = IF k = 1 THEN s[Len(s)] ELSE s[k - 1]
               /\ h.prev[s[k]] \in Items /\ h.prev[s[k]] # NULL
<1>1. s \in Seq(Items) /\ Len(s) \in Nat /\ (Len(s) = 0 <=> s = <<>>)
  BY DEF IsList
<1>2. \A k \in 1..Len(s) : s[k] \in Items /\ s[k] # NULL
  <2>1. \A k \in 1..Len(s) : s[k] \in Items
    BY ONLY <1>1
  <2> QED BY <2>1, ItemsAssumption
<1>3. \A k \in 1..Len(s) :
        /\ h.next[s[k]] = IF k = Len(s) THEN NULL ELSE s[k + 1]
        /\ h.prev[s[k]] = IF k = 1 THEN s[Len(s)] ELSE s[k - 1]
  BY DEF IsList
<1>4. \A k \in 1..Len(s) : h.prev[s[k]] \in Items /\ h.prev[s[k]] # NULL
  <2> SUFFICES ASSUME NEW k \in 1..Len(s)
               PROVE  h.prev[s[k]] \in Items /\ h.prev[s[k]] # NULL
    OBVIOUS
  <2>1. Len(s) \in 1..Len(s) /\ (k # 1 => k - 1 \in 1..Len(s))
    BY <1>1
  <2>2. h.prev[s[k]] = IF k = 1 THEN s[Len(s)] ELSE s[k - 1]
    BY <1>3
  <2> QED BY <1>2, <2>1, <2>2
<1>5. \A j, k \in 1..Len(s) : s[j] = s[k] => j = k
  BY <1>1 DEF IsList, Distinct
<1>6. h.child[array] = IF Len(s) = 0 THEN NULL ELSE s[1]
  BY <1>1 DEF IsList
<1> QED BY <1>1, <1>2, <1>3, <1>4, <1>5, <1>6

---------------------------------------------------------------------------
(* What an operator leaves alone. *)

\* g differs from h in the links of some items and in one item's child only.
OnlyTouches(h, g, array, touched) ==
    /\ IsHeap(g)
    /\ \A i \in Items \ touched : g.next[i] = h.next[i] /\ g.prev[i] = h.prev[i]
    /\ \A q \in Items \ {array} : g.child[q] = h.child[q]

\* Any list of another item, with no member among those that were touched,
\* is what it was: no operator that takes one list reaches into a second one.
THEOREM OtherListsAreKept ==
  ASSUME NEW h, IsHeap(h), NEW g, NEW array \in Items, NEW touched,
         OnlyTouches(h, g, array, touched),
         NEW other \in Items \ {array}, WellLinked(h, other),
         ToSet(Children(h, other)) \cap touched = {}
  PROVE  WellLinked(g, other) /\ Children(g, other) = Children(h, other)
<1> DEFINE s == Children(h, other)
<1>1. IsList(h, other, s)
  BY WellLinkedIsList
<1>2. \A k \in 1..Len(s) : s[k] \in Items \ touched
  <2>1. s \in Seq(Items) /\ DOMAIN s = 1..Len(s)
    BY <1>1 DEF IsList
  <2> QED BY <2>1 DEF ToSet
<1> HIDE DEF s
<1>3. IsList(g, other, s)
  BY <1>1, <1>2 DEF OnlyTouches, IsList
<1> QED BY <1>3, ListIsWellLinked DEF OnlyTouches, s

---------------------------------------------------------------------------
(* Adding. *)

\* A sequence with one more member.
LEMMA AppendFacts ==
  ASSUME NEW s \in Seq(Items), NEW item \in Items
  PROVE  /\ Append(s, item) \in Seq(Items) /\ Len(Append(s, item)) = Len(s) + 1
         /\ \A k \in 1..Len(s) : Append(s, item)[k] = s[k]
         /\ Append(s, item)[Len(s) + 1] = item
OBVIOUS

\* A member is at some place.
LEMMA MemberFacts ==
  ASSUME NEW s \in Seq(Items), NEW item
  PROVE  item \in ToSet(s) <=> \E k \in 1..Len(s) : s[k] = item
BY DEF ToSet

\* The links of a sequence, by number: what has to be shown of a new list.
LEMMA ListByLinks ==
  ASSUME NEW g, NEW array, NEW s \in Seq(Items),
         \A j, k \in 1..Len(s) : s[j] = s[k] => j = k,
         g.child[array] = IF Len(s) = 0 THEN NULL ELSE s[1],
         \A k \in 1..Len(s) : g.next[s[k]] = IF k = Len(s) THEN NULL ELSE s[k + 1],
         \A k \in 1..Len(s) : g.prev[s[k]] = IF k = 1 THEN s[Len(s)] ELSE s[k - 1]
  PROVE  IsList(g, array, s)
<1>1. DOMAIN s = 1..Len(s) /\ (s = <<>> <=> Len(s) = 0)
  OBVIOUS
<1> QED BY <1>1 DEF IsList, Distinct

\* add_item_to_array() with an empty list.
LEMMA AddToEmpty ==
  ASSUME NEW h, IsHeap(h), NEW array \in Items, IsList(h, array, <<>>),
         NEW item \in Items \ {array}, NEW g, g = add_item_to_array(h, array, item)
  PROVE  /\ g.ret = TRUE /\ IsList(g, array, <<item>>)
         /\ OnlyTouches(h, g, array, {item})
<1>1. h.child[array] = NULL /\ item # NULL /\ array # NULL
  BY ItemsAssumption DEF IsList
<1>2. g = Ret([h EXCEPT !.child[array] = item, !.prev[item] = item, !.next[item] = NULL], TRUE)
  BY <1>1 DEF add_item_to_array
<1>3. /\ g.ret = TRUE /\ {"next", "prev", "child", "ret"} \subseteq DOMAIN g
      /\ g.next = [h.next EXCEPT ![item] = NULL]
      /\ g.prev = [h.prev EXCEPT ![item] = item]
      /\ g.child = [h.child EXCEPT ![array] = item]
  BY <1>2 DEF Ret, IsHeap
<1>4. OnlyTouches(h, g, array, {item})
  BY <1>3 DEF OnlyTouches, IsHeap
<1>5. IsList(g, array, <<item>>)
  BY <1>3 DEF IsList, IsHeap, Distinct
<1> QED BY <1>3, <1>4, <1>5

\* add_item_to_array() with a list that has members.
LEMMA AddToList ==
  ASSUME NEW h, IsHeap(h), NEW array \in Items, NEW s, IsList(h, array, s), s # <<>>,
         NEW item \in Items \ {array}, item \notin ToSet(s), h.next[item] = NULL,
         NEW g, g = add_item_to_array(h, array, item)
  PROVE  /\ g.ret = TRUE /\ IsList(g, array, Append(s, item))
         /\ OnlyTouches(h, g, array, ToSet(s) \cup {item})
<1> DEFINE n == Len(s)
           t == Append(s, item)
           m == Len(t)
<1>1. /\ s \in Seq(Items) /\ n \in Nat \ {0} /\ 1 \in 1..n /\ n \in 1..n
      /\ \A j, k \in 1..n : s[j] = s[k] => j = k
      /\ \A k \in 1..n : s[k] \in Items /\ s[k] # NULL
      /\ h.child[array] = s[1]
      /\ \A k \in 1..n : h.next[s[k]] = IF k = n THEN NULL ELSE s[k + 1]
      /\ \A k \in 1..n : h.prev[s[k]] = IF k = 1 THEN s[n] ELSE s[k - 1]
  BY ListFacts
<1>2. /\ t \in Seq(Items) /\ m = n + 1 /\ t[m] = item
      /\ \A k \in 1..n : t[k] = s[k]
  BY <1>1, AppendFacts
<1>3. \A k \in 1..n : s[k] # item
  BY <1>1, MemberFacts
<1>4. item # NULL /\ array # NULL /\ s[1] # NULL /\ h.prev[s[1]] = s[n] /\ s[n] # NULL
  BY <1>1, ItemsAssumption
<1> HIDE DEF n, t, m
<1>5. g = Ret([suffix_object(h, s[n], item) EXCEPT !.prev[s[1]] = item], TRUE)
  BY <1>1, <1>4 DEF add_item_to_array
<1>6. /\ g.ret = TRUE /\ {"next", "prev", "child", "ret"} \subseteq DOMAIN g
      /\ g.next = [h.next EXCEPT ![s[n]] = item]
      /\ g.prev = [[h.prev EXCEPT ![item] = s[n]] EXCEPT ![s[1]] = item]
      /\ g.child = h.child
  BY <1>5 DEF Ret, suffix_object, IsHeap
<1>7. OnlyTouches(h, g, array, ToSet(s) \cup {item})
  <2>1. s[1] \in ToSet(s) /\ s[n] \in ToSet(s)
    BY <1>1, MemberFacts DEF n
  <2> QED BY <1>1, <1>6, <2>1 DEF OnlyTouches, IsHeap
<1>8. IsList(g, array, t)
  <2>1. ASSUME NEW j \in 1..m, NEW k \in 1..m, t[j] = t[k]
        PROVE  j = k
    <3>1. (j = m \/ j \in 1..n) /\ (k = m \/ k \in 1..n)
      BY <1>1, <1>2
    <3>2. CASE j \in 1..n /\ k \in 1..n
      <4>1. s[j] = s[k]
        BY <1>2, <2>1, <3>2
      <4> QED BY <1>1, <3>2, <4>1
    <3>3. j \in 1..n => t[j] # item
      BY <1>2, <1>3
    <3>4. k \in 1..n => t[k] # item
      BY <1>2, <1>3
    <3> QED BY <1>2, <2>1, <3>1, <3>2, <3>3, <3>4
  <2>2. m # 0 /\ g.child[array] = t[1]
    BY <1>1, <1>2, <1>6
  <2>3. ASSUME NEW k \in 1..m
        PROVE  /\ g.next[t[k]] = IF k = m THEN NULL ELSE t[k + 1]
               /\ g.prev[t[k]] = IF k = 1 THEN t[m] ELSE t[k - 1]
    <3>1. CASE k = m
      <4>1. t[k - 1] = s[n] /\ k # 1
        BY <1>1, <1>2, <3>1
      <4>2. g.next[item] = NULL /\ g.prev[item] = s[n]
        BY <1>1, <1>3, <1>6 DEF IsHeap
      <4> QED BY <1>2, <3>1, <4>1, <4>2
    <3>2. CASE k # m
      <4>1. k \in 1..n /\ t[k] = s[k] /\ s[k] # item /\ s[k] \in Items
        BY <1>1, <1>2, <1>3, <3>2
      <4>2. g.next[s[k]] = IF k = n THEN item ELSE s[k + 1]
        BY <1>1, <1>6, <4>1 DEF IsHeap
      <4>3. g.prev[s[k]] = IF k = 1 THEN item ELSE s[k - 1]
        BY <1>1, <1>6, <4>1 DEF IsHeap
      <4>4. t[k + 1] = IF k = n THEN item ELSE s[k + 1]
        BY <1>1, <1>2, <4>1
      <4>5. k # 1 => t[k - 1] = s[k - 1]
        BY <1>1, <1>2, <4>1
      <4> QED BY <1>2, <3>2, <4>1, <4>2, <4>3, <4>4, <4>5
    <3> QED BY <3>1, <3>2
  <2> QED BY <1>2, <2>1, <2>2, <2>3, ListByLinks DEF m
<1> QED BY <1>6, <1>7, <1>8 DEF t

---------------------------------------------------------------------------
(* Indexing. *)

IsIndexWalk(w, m, h, array) ==
    w = [k \in 0..m |-> IF k = 0 THEN h.child[array]
                                 ELSE IF w[k - 1] = NULL THEN NULL ELSE h.next[w[k - 1]]]

\* get_array_item() is the last value of a walk along the next chain.
LEMMA ItemIsChosen ==
  ASSUME NEW h, NEW array, array # NULL, NEW index
  PROVE  get_array_item(h, array, index)
           = (CHOOSE w : IsIndexWalk(w, index, h, array))[index]
BY DEF get_array_item, IsIndexWalk

\* It finds the item at the index, or NULL past the end.
LEMMA ItemAtIndex ==
  ASSUME NEW h, IsHeap(h), NEW array \in Items, NEW s, IsList(h, array, s), NEW index \in Nat
  PROVE  get_array_item(h, array, index) = IF index < Len(s) THEN s[index + 1] ELSE NULL
<1> DEFINE n == Len(s)
           At(k) == IF k < n THEN s[k + 1] ELSE NULL
           P(w) == IsIndexWalk(w, index, h, array)
<1>1. /\ s \in Seq(Items) /\ n \in Nat
      /\ \A k \in 1..n : s[k] \in Items /\ s[k] # NULL
      /\ h.child[array] = IF n = 0 THEN NULL ELSE s[1]
      /\ \A k \in 1..n : h.next[s[k]] = IF k = n THEN NULL ELSE s[k + 1]
  BY ListFacts
<1> HIDE DEF n
<1>2. At(0) = h.child[array]
  BY <1>1
<1>3. ASSUME NEW k \in Nat \ {0}
      PROVE  At(k) = IF At(k - 1) = NULL THEN NULL ELSE h.next[At(k - 1)]
  <2>1. CASE k - 1 < n
    <3>1. At(k - 1) = s[k] /\ k \in 1..n
      BY <1>1, <2>1
    <3> QED BY <1>1, <3>1
  <2>2. CASE ~(k - 1 < n)
    <3>1. At(k - 1) = NULL /\ At(k) = NULL
      BY <1>1, <2>2
    <3> QED BY <3>1
  <2> QED BY <2>1, <2>2
<1> HIDE DEF At
<1>4. \E w : P(w)
  <2> DEFINE w == [k \in 0..index |-> At(k)]
  <2>1. w = [k \in 0..index |-> IF k = 0 THEN h.child[array]
                                 ELSE IF w[k - 1] = NULL THEN NULL ELSE h.next[w[k - 1]]]
    <3>1. ASSUME NEW k \in 0..index
          PROVE  At(k) = IF k = 0 THEN h.child[array]
                         ELSE IF w[k - 1] = NULL THEN NULL ELSE h.next[w[k - 1]]
      <4>1. CASE k = 0
        BY <1>2, <4>1
      <4>2. CASE k # 0
        <5>1. k \in Nat \ {0} /\ k - 1 \in 0..index
          BY <4>2
        <5>2. w[k - 1] = At(k - 1)
          BY <5>1
        <5> QED BY <1>3, <4>2, <5>1, <5>2
      <4> QED BY <4>1, <4>2
    <3> QED BY <3>1
  <2> QED BY <2>1 DEF IsIndexWalk
<1> HIDE DEF P
<1>5. PICK w : P(w) /\ get_array_item(h, array, index) = w[index]
  <2>1. P(CHOOSE w : P(w))
    BY <1>4
  <2>2. get_array_item(h, array, index) = (CHOOSE w : P(w))[index]
    BY ItemIsChosen, ItemsAssumption DEF P
  <2> QED BY <2>1, <2>2
<1>6. ASSUME NEW k \in 0..index
      PROVE  w[k] = IF k = 0 THEN h.child[array]
                    ELSE IF w[k - 1] = NULL THEN NULL ELSE h.next[w[k - 1]]
  BY <1>5 DEF P, IsIndexWalk
<1> DEFINE S == {k \in 0..index : w[k] = At(k)}
<1>7. 0 \in S
  BY <1>2, <1>6
<1>8. ASSUME NEW k \in 1..index, k - 1 \in S
      PROVE  k \in S
  BY <1>3, <1>6, <1>8
<1>9. index \in S
  <2>1. index \in 0..index
    OBVIOUS
  <2> HIDE DEF S
  <2> QED BY <1>7, <1>8, <2>1, Induction
<1> QED BY <1>5, <1>9 DEF At, n

\* get_array_item() finds the item at an index of the list, and NULL at any
\* index past its end.
THEOREM ItemsAreFoundByIndex ==
  ASSUME NEW h, IsHeap(h), NEW array \in Items, WellLinked(h, array), NEW index \in Nat
  PROVE  get_array_item(h, array, index)
           = IF index < Len(Children(h, array)) THEN Children(h, array)[index + 1] ELSE NULL
BY WellLinkedIsList, ItemAtIndex

\* add_item_to_array() puts an item that is in no list behind the last one,
\* without a walk: the first item's prev leads there.
THEOREM AddAppends ==
  ASSUME NEW h, IsHeap(h), NEW array \in Items, WellLinked(h, array),
         NEW item \in Items \ {array}, item \notin ToSet(Children(h, array)),
         h.next[item] = NULL
  PROVE  LET g == add_item_to_array(h, array, item)
         IN  /\ g.ret = TRUE /\ WellLinked(g, array)
             /\ Children(g, array) = Append(Children(h, array), item)
             /\ OnlyTouches(h, g, array, ToSet(Children(h, array)) \cup {item})
<1> DEFINE g == add_item_to_array(h, array, item)
           s == Children(h, array)
<1>1. IsList(h, array, s) /\ item \notin ToSet(s)
  BY WellLinkedIsList
<1> HIDE DEF g, s
<1>2. g.ret = TRUE /\ IsList(g, array, Append(s, item))
      /\ OnlyTouches(h, g, array, ToSet(s) \cup {item})
  <2>1. CASE s = <<>>
    <3>1. Append(s, item) = <<item>> /\ ToSet(s) \cup {item} = {item}
      BY <2>1 DEF ToSet
    <3>2. IsList(h, array, <<>>)
      BY <1>1, <2>1
    <3>3. /\ g.ret = TRUE /\ IsList(g, array, <<item>>)
          /\ OnlyTouches(h, g, array, {item})
      BY <3>2, AddToEmpty DEF g
    <3> QED BY <3>1, <3>3
  <2>2. CASE s # <<>>
    <3>1. g = add_item_to_array(h, array, item)
      BY DEF g
    <3> QED BY <1>1, <2>2, <3>1, AddToList
  <2> QED BY <2>1, <2>2
<1>3. WellLinked(g, array) /\ Children(g, array) = Append(s, item)
  BY <1>2, ListIsWellLinked DEF OnlyTouches
<1> QED BY <1>2, <1>3 DEF g, s

---------------------------------------------------------------------------
(* Detaching. *)

\* A sequence without one of its members.
LEMMA RemoveFacts ==
  ASSUME NEW s \in Seq(Items), NEW k \in 1..Len(s)
  PROVE  /\ RemoveAt(s, k) \in Seq(Items) /\ Len(RemoveAt(s, k)) = Len(s) - 1
         /\ \A j \in 1..(Len(s) - 1) : RemoveAt(s, k)[j] = IF j < k THEN s[j] ELSE s[j + 1]
<1> DEFINE n == Len(s)
           p == SubSeq(s, 1, k - 1)
           q == SubSeq(s, k + 1, n)
<1>1. n \in Nat /\ k \in 1..n /\ \A j \in 1..n : s[j] \in Items
  OBVIOUS
<1> HIDE DEF n
<1>2. /\ p \in Seq(Items) /\ Len(p) = k - 1
      /\ \A j \in 1..(k - 1) : p[j] = s[j]
  BY <1>1, SubSeqProperties
<1>3. /\ q \in Seq(Items) /\ Len(q) = n - k
      /\ \A j \in 1..(n - k) : q[j] = s[k + j]
  <2>1. /\ k + 1 \in Int /\ n \in Int /\ \A j \in (k + 1)..n : s[j] \in Items
        /\ (IF k + 1 <= n THEN n - (k + 1) + 1 ELSE 0) = n - k
        /\ n - (k + 1) + 1 = n - k
    BY <1>1
  <2>2. \A j \in 1..(n - k) : k + 1 + j - 1 = k + j
    BY <1>1
  <2> QED BY <2>1, <2>2, SubSeqProperties
<1> HIDE DEF p, q
<1>4. /\ p \o q \in Seq(Items) /\ Len(p \o q) = n - 1
      /\ \A j \in 1..(n - 1) : (p \o q)[j] = IF j <= k - 1 THEN p[j] ELSE q[j - (k - 1)]
  <2>1. Len(p) + Len(q) = n - 1
    BY <1>1, <1>2, <1>3
  <2>2. /\ p \o q \in Seq(Items) /\ Len(p \o q) = Len(p) + Len(q)
        /\ \A j \in 1..(Len(p) + Len(q)) :
             (p \o q)[j] = IF j <= Len(p) THEN p[j] ELSE q[j - Len(p)]
    BY ONLY <1>2, <1>3, ConcatProperties
  <2> QED BY <1>2, <2>1, <2>2
<1>5. ASSUME NEW j \in 1..(n - 1)
      PROVE  (p \o q)[j] = IF j < k THEN s[j] ELSE s[j + 1]
  <2>1. CASE j < k
    BY <1>1, <1>2, <1>4, <2>1
  <2>2. CASE ~(j < k)
    <3>1. j - (k - 1) \in 1..(n - k) /\ k + (j - (k - 1)) = j + 1
      BY <1>1, <2>2
    <3> QED BY <1>1, <1>3, <1>4, <2>2, <3>1
  <2> QED BY <2>1, <2>2
<1>6. RemoveAt(s, k) = p \o q
  BY DEF RemoveAt, p, q, n
<1> QED BY <1>4, <1>5, <1>6 DEF n

\* The links that cJSON_DetachItemViaPointer() leaves.
LEMMA DetachLinks ==
  ASSUME NEW h, IsHeap(h), NEW parent \in Items, NEW s, IsList(h, parent, s),
         NEW k \in 1..Len(s), NEW item, item = s[k],
         NEW g, g = DetachItemViaPointer(h, parent, item)
  PROVE  /\ g.ret = item /\ IsHeap(g)
         /\ \A i \in Items : g.next[i] =
              IF i = item THEN NULL
              ELSE IF k # 1 /\ i = s[k - 1] THEN h.next[item] ELSE h.next[i]
         /\ \A i \in Items : g.prev[i] =
              IF i = item THEN NULL
              ELSE IF (k = Len(s) /\ i = s[1]) \/ (k # Len(s) /\ i = s[k + 1])
              THEN h.prev[item] ELSE h.prev[i]
         /\ \A q \in Items : g.child[q] =
              IF k = 1 /\ q = parent THEN h.next[item] ELSE h.child[q]
<1> DEFINE n == Len(s)
<1>1. /\ s \in Seq(Items) /\ n \in Nat \ {0} /\ k \in 1..n /\ 1 \in 1..n
      /\ \A i, j \in 1..n : s[i] = s[j] => i = j
      /\ \A j \in 1..n : s[j] \in Items /\ s[j] # NULL
      /\ h.child[parent] = s[1]
      /\ h.next[item] = IF k = n THEN NULL ELSE s[k + 1]
      /\ h.prev[item] = IF k = 1 THEN s[n] ELSE s[k - 1]
      /\ h.prev[item] \in Items /\ h.prev[item] # NULL
  BY ListFacts
<1> HIDE DEF n
<1>2. /\ item \in Items /\ item # NULL /\ parent # NULL
      /\ item = h.child[parent] <=> k = 1
      /\ h.next[item] = NULL <=> k = n
      /\ k # 1 => s[k - 1] \in Items /\ s[k - 1] # item /\ h.prev[item] = s[k - 1]
      /\ k # n => s[k + 1] \in Items /\ s[k + 1] # item /\ h.next[item] = s[k + 1]
  <2>1. k # n => k + 1 \in 1..n
    BY <1>1
  <2>2. k # 1 => k - 1 \in 1..n
    BY <1>1
  <2> QED BY <1>1, <2>1, <2>2, ItemsAssumption
<1>3. {"next", "prev", "child", "ret"} \subseteq DOMAIN h
  BY DEF IsHeap
<1> DEFINE N1 == IF k = 1 THEN h.next ELSE [h.next EXCEPT ![s[k - 1]] = h.next[item]]
           P1 == IF k = n THEN IF k = 1 THEN h.prev ELSE [h.prev EXCEPT ![s[1]] = h.prev[item]]
                 ELSE [h.prev EXCEPT ![s[k + 1]] = h.prev[item]]
           C1 == IF k = 1 THEN [h.child EXCEPT ![parent] = h.next[item]] ELSE h.child
<1>4. /\ g.ret = item /\ {"next", "prev", "child", "ret"} \subseteq DOMAIN g
      /\ g.next = [N1 EXCEPT ![item] = NULL]
      /\ g.prev = [P1 EXCEPT ![item] = NULL]
      /\ g.child = C1
  <2>1. CASE k = 1 /\ k = n
    <3>1. g = Ret([[h EXCEPT !.child[parent] = h.next[item]]
                     EXCEPT !.prev[item] = NULL, !.next[item] = NULL], item)
      BY <1>2, <2>1 DEF DetachItemViaPointer
    <3> QED BY <1>3, <2>1, <3>1 DEF Ret
  <2>2. CASE k = 1 /\ k # n
    <3> DEFINE f == [[h EXCEPT !.prev[h.next[item]] = h.prev[item]]
                        EXCEPT !.child[parent] = h.next[item]]
    <3>1. g = Ret([f EXCEPT !.prev[item] = NULL, !.next[item] = NULL], item)
      BY <1>2, <2>2 DEF DetachItemViaPointer
    <3>2. /\ {"next", "prev", "child", "ret"} \subseteq DOMAIN f
          /\ f.next = N1 /\ f.prev = P1 /\ f.child = C1
      BY <1>2, <1>3, <2>2
    <3> HIDE DEF f, N1, P1, C1
    <3> QED BY <3>1, <3>2 DEF Ret
  <2>3. CASE k # 1 /\ k = n
    <3> DEFINE f == [[h EXCEPT !.next[h.prev[item]] = h.next[item]]
                        EXCEPT !.prev[h.child[parent]] = h.prev[item]]
    <3>1. g = Ret([f EXCEPT !.prev[item] = NULL, !.next[item] = NULL], item)
      BY <1>1, <1>2, <1>3, <2>3 DEF DetachItemViaPointer
    <3>2. /\ {"next", "prev", "child", "ret"} \subseteq DOMAIN f
          /\ f.next = N1 /\ f.prev = P1 /\ f.child = C1
      BY <1>1, <1>2, <1>3, <2>3
    <3> HIDE DEF f, N1, P1, C1
    <3> QED BY <3>1, <3>2 DEF Ret
  <2>4. CASE k # 1 /\ k # n
    <3>1. g = Ret([[[h EXCEPT !.next[h.prev[item]] = h.next[item]]
                     EXCEPT !.prev[h.next[item]] = h.prev[item]]
                     EXCEPT !.prev[item] = NULL, !.next[item] = NULL], item)
      BY <1>1, <1>2, <2>4 DEF DetachItemViaPointer
    <3> QED BY <1>2, <1>3, <2>4, <3>1 DEF Ret
  <2> QED BY <2>1, <2>2, <2>3, <2>4
<1>5. /\ N1 \in [Items -> Items \cup {NULL}] /\ P1 \in [Items -> Items \cup {NULL}]
      /\ C1 \in [Items -> Items \cup {NULL}]
  BY <1>1, <1>2 DEF IsHeap
<1>6. IsHeap(g)
  <2> HIDE DEF N1, P1, C1
  <2> QED BY <1>4, <1>5 DEF IsHeap
<1>7. ASSUME NEW i \in Items
      PROVE  /\ N1[i] = IF k # 1 /\ i = s[k - 1] THEN h.next[item] ELSE h.next[i]
             /\ i # item => P1[i] = IF (k = n /\ i = s[1]) \/ (k # n /\ i = s[k + 1])
                                    THEN h.prev[item] ELSE h.prev[i]
             /\ C1[i] = IF k = 1 /\ i = parent THEN h.next[item] ELSE h.child[i]
  BY <1>1, <1>2 DEF IsHeap
<1>8. ASSUME NEW i \in Items
      PROVE  /\ g.next[i] = IF i = item THEN NULL ELSE N1[i]
             /\ g.prev[i] = IF i = item THEN NULL ELSE P1[i]
             /\ g.child[i] = C1[i]
  <2> HIDE DEF N1, P1, C1
  <2> QED BY <1>4, <1>5
<1> HIDE DEF N1, P1, C1
<1> QED BY <1>4, <1>6, <1>7, <1>8 DEF n

\* It takes the member out of its list.
LEMMA DetachFromList ==
  ASSUME NEW h, IsHeap(h), NEW parent \in Items, NEW s, IsList(h, parent, s),
         NEW k \in 1..Len(s), NEW item, item = s[k],
         NEW g, g = DetachItemViaPointer(h, parent, item)
  PROVE  /\ g.ret = item /\ g.next[item] = NULL /\ g.prev[item] = NULL
         /\ IsList(g, parent, RemoveAt(s, k))
         /\ OnlyTouches(h, g, parent, ToSet(s))
<1> DEFINE n == Len(s)
           t == RemoveAt(s, k)
           m == Len(t)
<1>1. /\ s \in Seq(Items) /\ n \in Nat \ {0} /\ k \in 1..n /\ 1 \in 1..n /\ n \in 1..n
      /\ \A i, j \in 1..n : s[i] = s[j] => i = j
      /\ \A j \in 1..n : s[j] \in Items /\ s[j] # NULL
      /\ h.child[parent] = s[1]
      /\ \A j \in 1..n : h.next[s[j]] = IF j = n THEN NULL ELSE s[j + 1]
      /\ \A j \in 1..n : h.prev[s[j]] = IF j = 1 THEN s[n] ELSE s[j - 1]
  BY ListFacts
<1>2. /\ g.ret = item /\ IsHeap(g)
      /\ \A i \in Items : g.next[i] =
           IF i = item THEN NULL
           ELSE IF k # 1 /\ i = s[k - 1] THEN h.next[item] ELSE h.next[i]
      /\ \A i \in Items : g.prev[i] =
           IF i = item THEN NULL
           ELSE IF (k = n /\ i = s[1]) \/ (k # n /\ i = s[k + 1])
           THEN h.prev[item] ELSE h.prev[i]
      /\ \A q \in Items : g.child[q] =
           IF k = 1 /\ q = parent THEN h.next[item] ELSE h.child[q]
  BY DetachLinks
<1>3. /\ t \in Seq(Items) /\ m = n - 1
      /\ \A j \in 1..m : t[j] = IF j < k THEN s[j] ELSE s[j + 1]
  <2>1. s \in Seq(Items) /\ k \in 1..Len(s)
    BY <1>1
  <2> QED BY ONLY <2>1, RemoveFacts
<1>4. \A i \in Items : i \in ToSet(s) <=> \E j \in 1..n : s[j] = i
  BY <1>1, MemberFacts
<1> HIDE DEF n, t, m
<1>5. item \in Items /\ (k # 1 => k - 1 \in 1..n) /\ (k # n => k + 1 \in 1..n)
  BY <1>1
<1>6. OnlyTouches(h, g, parent, ToSet(s))
  <2>1. /\ item \in ToSet(s) /\ s[1] \in ToSet(s)
        /\ k # 1 => s[k - 1] \in ToSet(s)
        /\ k # n => s[k + 1] \in ToSet(s)
    BY <1>1, <1>4, <1>5
  <2> QED BY <1>2, <2>1 DEF OnlyTouches
<1>7. ASSUME NEW j \in 1..m
      PROVE  /\ j < k => j \in 1..n /\ t[j] = s[j]
             /\ j >= k => j + 1 \in 1..n /\ t[j] = s[j + 1]
  <2>1. j \in Nat /\ k \in Nat /\ n \in Nat
    BY <1>1, <1>3
  <2> QED BY <1>1, <1>3, <2>1
<1>8. ASSUME NEW i \in 1..m, NEW j \in 1..m, t[i] = t[j]
      PROVE  i = j
  <2> DEFINE ti == IF i < k THEN i ELSE i + 1
             tj == IF j < k THEN j ELSE j + 1
  <2>1. ti \in 1..n /\ tj \in 1..n /\ t[i] = s[ti] /\ t[j] = s[tj]
    <3>1. ti \in 1..n /\ t[i] = s[ti]
      BY <1>7
    <3>2. tj \in 1..n /\ t[j] = s[tj]
      BY <1>7
    <3> QED BY <3>1, <3>2
  <2>2. ti = tj
    <3>1. s[ti] = s[tj]
      BY <1>8, <2>1
    <3> HIDE DEF ti, tj
    <3> QED BY <1>1, <2>1, <3>1
  <2>3. i \in Nat /\ j \in Nat /\ k \in Nat
    BY <1>1, <1>3
  <2> QED BY <2>2, <2>3
<1>9. g.child[parent] = IF m = 0 THEN NULL ELSE t[1]
  <2>1. m # 0 => 1 \in 1..m
    BY <1>1, <1>3
  <2> QED BY <1>1, <1>2, <1>3, <2>1
<1>10. ASSUME NEW j \in 1..m
       PROVE  g.next[t[j]] = IF j = m THEN NULL ELSE t[j + 1]
  <2>1. j # m => j + 1 \in 1..m
    BY <1>1, <1>3
  <2>2. CASE j < k
    <3>1. j \in 1..n /\ t[j] = s[j] /\ s[j] \in Items /\ s[j] # item
      BY <1>1, <1>7, <2>2
    <3>2. CASE j = k - 1
      <4>1. g.next[s[j]] = h.next[item] /\ (k = n <=> j = m)
        BY <1>1, <1>2, <1>3, <3>1, <3>2
      <4>2. k # n => t[j + 1] = s[k + 1]
        BY <1>1, <1>3, <2>1, <3>2
      <4> QED BY <1>1, <3>1, <4>1, <4>2
    <3>3. CASE j # k - 1
      <4>1. j # n /\ j # m /\ j + 1 < k /\ j + 1 \in 1..m
        BY <1>1, <1>3, <2>1, <2>2, <3>1, <3>3
      <4>2. t[j + 1] = s[j + 1]
        BY <1>3, <4>1
      <4>3. k - 1 \in 1..n /\ s[j] # s[k - 1]
        BY <1>1, <1>5, <2>2, <3>1, <3>3
      <4>4. g.next[s[j]] = h.next[s[j]]
        BY <1>2, <3>1, <4>3
      <4> QED BY <1>1, <3>1, <4>1, <4>2, <4>4
    <3> QED BY <3>2, <3>3
  <2>3. CASE j >= k
    <3>1. j + 1 \in 1..n /\ t[j] = s[j + 1] /\ s[j + 1] \in Items /\ s[j + 1] # item
      BY <1>1, <1>3, <1>7, <2>3
    <3>2. k # 1 => s[j + 1] # s[k - 1]
      BY <1>1, <1>5, <2>3, <3>1
    <3>3. g.next[t[j]] = h.next[s[j + 1]]
      BY <1>2, <3>1, <3>2
    <3>4. (j = m <=> j + 1 = n) /\ (j # m => t[j + 1] = s[j + 1 + 1])
      BY <1>1, <1>3, <2>1, <2>3
    <3> QED BY <1>1, <3>1, <3>3, <3>4
  <2> QED BY <1>1, <2>2, <2>3
<1>11. ASSUME NEW j \in 1..m
       PROVE  g.prev[t[j]] = IF j = 1 THEN t[m] ELSE t[j - 1]
  <2>1. m \in 1..m /\ (j # 1 => j - 1 \in 1..m)
    BY <1>1, <1>3
  <2>2. t[m] = IF k = n THEN s[n - 1] ELSE s[n]
    BY <1>1, <1>3, <2>1
  <2>3. CASE j < k
    <3>1. j \in 1..n /\ t[j] = s[j] /\ s[j] \in Items /\ s[j] # item
      BY <1>1, <1>7, <2>3
    <3>2. (k # n => s[j] # s[k + 1]) /\ (s[j] = s[1] <=> j = 1)
      BY <1>1, <1>5, <2>3, <3>1
    <3>3. g.prev[s[j]] = IF k = n /\ j = 1 THEN h.prev[item] ELSE h.prev[s[j]]
      BY <1>2, <3>1, <3>2
    <3>4. j # 1 => t[j - 1] = s[j - 1]
      BY <1>1, <1>3, <2>1, <2>3
    <3>5. k = n => h.prev[item] = s[n - 1]
      BY <1>1, <2>3
    <3> QED BY <1>1, <2>2, <3>1, <3>3, <3>4, <3>5
  <2>4. CASE j >= k
    <3>1. j + 1 \in 1..n /\ t[j] = s[j + 1] /\ s[j + 1] \in Items /\ s[j + 1] # item /\ k # n
      BY <1>1, <1>3, <1>7, <2>4
    <3>2. s[j + 1] = s[k + 1] <=> j = k
      BY <1>1, <1>5, <3>1
    <3>3. g.prev[s[j + 1]] = IF j = k THEN h.prev[item] ELSE h.prev[s[j + 1]]
      BY <1>2, <3>1, <3>2
    <3>4. h.prev[s[j + 1]] = s[j]
      <4>1. j + 1 # 1 /\ j + 1 - 1 = j
        OBVIOUS
      <4>2. \A i \in 1..n : i # 1 => h.prev[s[i]] = s[i - 1]
        BY <1>1
      <4> QED BY <3>1, <4>1, <4>2
    <3>5. CASE j = k
      <4>1. j # 1 => t[j - 1] = s[k - 1]
        BY <1>1, <1>3, <2>1, <3>5
      <4> QED BY <1>1, <2>2, <3>1, <3>3, <3>5, <4>1
    <3>6. CASE j # k
      <4>1. j # 1 /\ t[j - 1] = s[j]
        BY <1>1, <1>3, <2>1, <2>4, <3>6
      <4> QED BY <3>1, <3>3, <3>4, <3>6, <4>1
    <3> QED BY <3>5, <3>6
  <2> QED BY <1>1, <2>3, <2>4
<1>12. IsList(g, parent, t)
  BY <1>3, <1>8, <1>9, <1>10, <1>11, ListByLinks DEF m
<1> QED BY <1>2, <1>5, <1>6, <1>12 DEF t

\* DetachItemViaPointer() takes a member out of the list, wherever it stands,
\* and leaves it with no links of its own.
THEOREM DetachRemoves ==
  ASSUME NEW h, IsHeap(h), NEW parent \in Items, WellLinked(h, parent),
         NEW k \in 1..Len(Children(h, parent))
  PROVE  LET item == Children(h, parent)[k]
             g == DetachItemViaPointer(h, parent, item)
         IN  /\ g.ret = item /\ g.next[item] = NULL /\ g.prev[item] = NULL
             /\ WellLinked(g, parent)
             /\ Children(g, parent) = RemoveAt(Children(h, parent), k)
             /\ OnlyTouches(h, g, parent, ToSet(Children(h, parent)))
<1> DEFINE s == Children(h, parent)
           item == s[k]
           g == DetachItemViaPointer(h, parent, item)
<1>1. IsList(h, parent, s) /\ k \in 1..Len(s)
  BY WellLinkedIsList
<1> HIDE DEF s
<1>2. /\ g.ret = item /\ g.next[item] = NULL /\ g.prev[item] = NULL
      /\ IsList(g, parent, RemoveAt(s, k))
      /\ OnlyTouches(h, g, parent, ToSet(s))
  <2> HIDE DEF item, g
  <2>1. item = s[k] /\ g = DetachItemViaPointer(h, parent, item)
    BY DEF item, g
  <2> QED BY <1>1, <2>1, DetachFromList
<1>3. WellLinked(g, parent) /\ Children(g, parent) = RemoveAt(s, k)
  <2> HIDE DEF item, g
  <2> QED BY <1>2, ListIsWellLinked DEF OnlyTouches
<1> QED BY <1>2, <1>3 DEF s

---------------------------------------------------------------------------
(* Inserting. *)

\* A sequence with one more member in the middle.
LEMMA InsertFacts ==
  ASSUME NEW s \in Seq(Items), NEW k \in 1..Len(s), NEW item \in Items
  PROVE  /\ InsertAt(s, k, item) \in Seq(Items) /\ Len(InsertAt(s, k, item)) = Len(s) + 1
         /\ \A j \in 1..(k - 1) : InsertAt(s, k, item)[j] = s[j]
         /\ InsertAt(s, k, item)[k] = item
         /\ \A j \in k..Len(s) : InsertAt(s, k, item)[j + 1] = s[j]
<1> DEFINE n == Len(s)
           p == SubSeq(s, 1, k - 1)
           o == <<item>>
           q == SubSeq(s, k, n)
<1>1. n \in Nat /\ k \in 1..n /\ \A j \in 1..n : s[j] \in Items
  OBVIOUS
<1> HIDE DEF n
<1>2. /\ p \in Seq(Items) /\ Len(p) = k - 1
      /\ \A j \in 1..(k - 1) : p[j] = s[j]
  BY <1>1, SubSeqProperties
<1>3. /\ q \in Seq(Items) /\ Len(q) = n - k + 1
      /\ \A j \in 1..(n - k + 1) : q[j] = s[k + j - 1]
  <2>1. /\ k \in Int /\ n \in Int /\ \A j \in k..n : s[j] \in Items
        /\ (IF k <= n THEN n - k + 1 ELSE 0) = n - k + 1
    BY <1>1
  <2> QED BY <2>1, SubSeqProperties
<1>4. o \in Seq(Items) /\ Len(o) = 1 /\ o[1] = item
  OBVIOUS
<1> HIDE DEF p, o, q
<1> DEFINE po == p \o o
           poq == po \o q
<1>5. /\ po \in Seq(Items) /\ Len(po) = k
      /\ \A j \in 1..k : po[j] = IF j <= k - 1 THEN p[j] ELSE o[j - (k - 1)]
  <2>1. Len(p) + Len(o) = k
    BY <1>1, <1>2, <1>4
  <2>2. /\ po \in Seq(Items) /\ Len(po) = Len(p) + Len(o)
        /\ \A j \in 1..(Len(p) + Len(o)) :
             po[j] = IF j <= Len(p) THEN p[j] ELSE o[j - Len(p)]
    BY ONLY <1>2, <1>4, ConcatProperties
  <2> HIDE DEF po
  <2> QED BY <1>2, <2>1, <2>2
<1> HIDE DEF po
<1>6. /\ poq \in Seq(Items) /\ Len(poq) = n + 1
      /\ \A j \in 1..(n + 1) : poq[j] = IF j <= k THEN po[j] ELSE q[j - k]
  <2>1. Len(po) + Len(q) = n + 1
    BY <1>1, <1>3, <1>5
  <2>2. /\ poq \in Seq(Items) /\ Len(poq) = Len(po) + Len(q)
        /\ \A j \in 1..(Len(po) + Len(q)) :
             poq[j] = IF j <= Len(po) THEN po[j] ELSE q[j - Len(po)]
    BY ONLY <1>3, <1>5, ConcatProperties
  <2> HIDE DEF poq
  <2> QED BY <1>5, <2>1, <2>2
<1> HIDE DEF poq
<1>7. \A j \in 1..(k - 1) : poq[j] = s[j]
  BY <1>1, <1>2, <1>5, <1>6
<1>8. poq[k] = item
  BY <1>1, <1>4, <1>5, <1>6
<1>9. ASSUME NEW j \in k..n
      PROVE  poq[j + 1] = s[j]
  <2>1. j + 1 - k \in 1..(n - k + 1) /\ k + (j + 1 - k) - 1 = j /\ j + 1 \in 1..(n + 1)
        /\ ~(j + 1 <= k)
    BY <1>1
  <2> QED BY <1>3, <1>6, <2>1
<1>10. InsertAt(s, k, item) = poq
  BY DEF InsertAt, poq, po, p, o, q, n
<1> QED BY <1>6, <1>7, <1>8, <1>9, <1>10 DEF n

\* The links that lead to the new item, and those from it.
Inserted(h, g, array, s, k, newitem) ==
    /\ g.ret = TRUE /\ IsHeap(g)
    /\ \A i \in Items : g.next[i] =
         IF i = newitem THEN s[k]
         ELSE IF k # 1 /\ i = s[k - 1] THEN newitem ELSE h.next[i]
    /\ \A i \in Items : g.prev[i] =
         IF i = s[k] THEN newitem
         ELSE IF i = newitem THEN h.prev[s[k]] ELSE h.prev[i]
    /\ \A q \in Items : g.child[q] =
         IF k = 1 /\ q = array THEN newitem ELSE h.child[q]

\* The links that cJSON_InsertItemInArray() leaves.
LEMMA InsertLinks ==
  ASSUME NEW h, IsHeap(h), NEW array \in Items, NEW s, IsList(h, array, s),
         NEW k \in 1..Len(s), NEW which, which = k - 1,
         NEW newitem \in Items \ {array}, newitem \notin ToSet(s),
         NEW g, g = InsertItemInArray(h, array, which, newitem)
  PROVE  Inserted(h, g, array, s, k, newitem)
<1> DEFINE n == Len(s)
           after == s[k]
<1>1. /\ s \in Seq(Items) /\ n \in Nat \ {0} /\ k \in 1..n /\ 1 \in 1..n
      /\ \A i, j \in 1..n : s[i] = s[j] => i = j
      /\ \A j \in 1..n : s[j] \in Items /\ s[j] # NULL
      /\ h.child[array] = s[1]
      /\ h.prev[after] = IF k = 1 THEN s[n] ELSE s[k - 1]
      /\ h.prev[after] \in Items /\ h.prev[after] # NULL /\ after = s[k]
  BY ListFacts
<1>2. get_array_item(h, array, which) = after
  <2>1. which \in Nat /\ which < n /\ which + 1 = k
    BY <1>1
  <2> QED BY <2>1, ItemAtIndex
<1>3. \A j \in 1..n : s[j] # newitem
  BY <1>1, MemberFacts
<1> HIDE DEF n, after
<1>4. /\ after \in Items /\ after # NULL /\ newitem # NULL /\ after # newitem
      /\ after = h.child[array] <=> k = 1
      /\ k # 1 => s[k - 1] \in Items /\ s[k - 1] # newitem /\ h.prev[after] = s[k - 1]
  <2>1. k # 1 => k - 1 \in 1..n
    BY <1>1
  <2>2. after = s[1] <=> k = 1
    BY <1>1
  <2>3. after \in Items /\ after # NULL /\ after # newitem
    BY <1>1, <1>3
  <2>4. k # 1 => s[k - 1] \in Items /\ s[k - 1] # newitem /\ h.prev[after] = s[k - 1]
    BY <1>1, <1>3, <2>1
  <2> QED BY <1>1, <2>2, <2>3, <2>4, ItemsAssumption
<1>5. {"next", "prev", "child", "ret"} \subseteq DOMAIN h
  BY DEF IsHeap
<1> DEFINE f == [h EXCEPT !.next[newitem] = after,
                          !.prev[newitem] = h.prev[after],
                          !.prev[after] = newitem]
           N0 == [h.next EXCEPT ![newitem] = after]
           P1 == [[h.prev EXCEPT ![newitem] = h.prev[after]] EXCEPT ![after] = newitem]
           N1 == IF k = 1 THEN N0 ELSE [N0 EXCEPT ![s[k - 1]] = newitem]
           C1 == IF k = 1 THEN [h.child EXCEPT ![array] = newitem] ELSE h.child
<1>6. /\ {"next", "prev", "child", "ret"} \subseteq DOMAIN f
      /\ f.next = N0 /\ f.prev = P1 /\ f.child = h.child
  BY <1>5
<1>7. g = Ret(IF after = h.child[array]
              THEN [f EXCEPT !.child[array] = newitem]
              ELSE [f EXCEPT !.next[h.prev[after]] = newitem], TRUE)
  <2>1. newitem # NULL /\ after # NULL /\ h.prev[after] # NULL
    BY <1>1, <1>4
  <2> QED BY <1>2, <2>1 DEF InsertItemInArray
<1> HIDE DEF f, N0, P1
<1>8. /\ g.ret = TRUE /\ {"next", "prev", "child", "ret"} \subseteq DOMAIN g
      /\ g.next = N1 /\ g.prev = P1 /\ g.child = C1
  <2>1. CASE k = 1
    BY <1>4, <1>6, <1>7, <2>1 DEF Ret
  <2>2. CASE k # 1
    BY <1>4, <1>6, <1>7, <2>2 DEF Ret
  <2> QED BY <2>1, <2>2
<1>9. /\ N1 \in [Items -> Items \cup {NULL}] /\ P1 \in [Items -> Items \cup {NULL}]
      /\ C1 \in [Items -> Items \cup {NULL}]
  BY <1>1, <1>4 DEF IsHeap, N0, P1
<1>10. IsHeap(g)
  <2> HIDE DEF N1, C1
  <2> QED BY <1>8, <1>9 DEF IsHeap
<1>11. ASSUME NEW i \in Items
       PROVE  /\ N1[i] = IF i = newitem THEN after
                         ELSE IF k # 1 /\ i = s[k - 1] THEN newitem ELSE h.next[i]
              /\ P1[i] = IF i = after THEN newitem
                         ELSE IF i = newitem THEN h.prev[after] ELSE h.prev[i]
              /\ C1[i] = IF k = 1 /\ i = array THEN newitem ELSE h.child[i]
  BY <1>4 DEF IsHeap, N0, P1
<1> HIDE DEF N1, C1
<1> QED BY <1>8, <1>10, <1>11 DEF after, Inserted

\* It puts the item before the one at its place.
LEMMA InsertIntoList ==
  ASSUME NEW h, IsHeap(h), NEW array \in Items, NEW s, IsList(h, array, s),
         NEW k \in 1..Len(s), NEW which, which = k - 1,
         NEW newitem \in Items \ {array}, newitem \notin ToSet(s),
         NEW g, g = InsertItemInArray(h, array, which, newitem)
  PROVE  /\ g.ret = TRUE /\ IsList(g, array, InsertAt(s, k, newitem))
         /\ OnlyTouches(h, g, array, ToSet(s) \cup {newitem})
<1> DEFINE n == Len(s)
           after == s[k]
           t == InsertAt(s, k, newitem)
           m == Len(t)
<1>1. /\ s \in Seq(Items) /\ n \in Nat \ {0} /\ k \in 1..n /\ 1 \in 1..n /\ n \in 1..n
      /\ \A i, j \in 1..n : s[i] = s[j] => i = j
      /\ \A j \in 1..n : s[j] \in Items /\ s[j] # NULL
      /\ h.child[array] = s[1]
      /\ \A j \in 1..n : h.next[s[j]] = IF j = n THEN NULL ELSE s[j + 1]
      /\ \A j \in 1..n : h.prev[s[j]] = IF j = 1 THEN s[n] ELSE s[j - 1]
  BY ListFacts
<1>2. /\ g.ret = TRUE /\ IsHeap(g)
      /\ \A i \in Items : g.next[i] =
           IF i = newitem THEN after
           ELSE IF k # 1 /\ i = s[k - 1] THEN newitem ELSE h.next[i]
      /\ \A i \in Items : g.prev[i] =
           IF i = after THEN newitem
           ELSE IF i = newitem THEN h.prev[after] ELSE h.prev[i]
      /\ \A q \in Items : g.child[q] =
           IF k = 1 /\ q = array THEN newitem ELSE h.child[q]
  <2>1. Inserted(h, g, array, s, k, newitem)
    BY InsertLinks
  <2> QED BY <2>1 DEF Inserted
<1>3. /\ t \in Seq(Items) /\ m = n + 1
      /\ \A j \in 1..(k - 1) : t[j] = s[j]
      /\ t[k] = newitem
      /\ \A j \in k..n : t[j + 1] = s[j]
  <2>1. s \in Seq(Items) /\ k \in 1..Len(s) /\ newitem \in Items
    BY <1>1
  <2> QED BY ONLY <2>1, InsertFacts
<1>4. \A i \in Items : i \in ToSet(s) <=> \E j \in 1..n : s[j] = i
  BY <1>1, MemberFacts
<1>5. \A j \in 1..n : s[j] # newitem
  BY <1>1, MemberFacts
<1> HIDE DEF n, t, m
<1>6. after \in Items /\ after # newitem /\ (k # 1 => k - 1 \in 1..n)
  BY <1>1, <1>5
<1>7. OnlyTouches(h, g, array, ToSet(s) \cup {newitem})
  <2>1. after \in ToSet(s) /\ (k # 1 => s[k - 1] \in ToSet(s))
    BY <1>1, <1>4, <1>6
  <2> QED BY <1>2, <2>1 DEF OnlyTouches
\* The number in s of what has number j in t.
<1> DEFINE Old(j) == IF j < k THEN j ELSE j - 1
<1>8. ASSUME NEW j \in 1..m, j # k
      PROVE  Old(j) \in 1..n /\ t[j] = s[Old(j)] /\ t[j] # newitem /\ t[j] \in Items
  <2>1. CASE j < k
    <3>1. j \in 1..(k - 1) /\ j \in 1..n
      BY <1>1, <1>3, <2>1
    <3> QED BY <1>1, <1>3, <1>5, <2>1, <3>1
  <2>2. CASE ~(j < k)
    <3>1. j - 1 \in k..n /\ j - 1 \in 1..n /\ j - 1 + 1 = j
      BY <1>1, <1>3, <1>8, <2>2
    <3>2. t[j - 1 + 1] = s[j - 1]
      BY <1>3, <3>1
    <3> QED BY <1>1, <1>5, <2>2, <3>1, <3>2
  <2> QED BY <2>1, <2>2
<1>9. ASSUME NEW i \in 1..m, NEW j \in 1..m, t[i] = t[j]
      PROVE  i = j
  <2>1. i = k <=> j = k
    <3>1. i # k => t[i] # newitem
      BY <1>8
    <3>2. j # k => t[j] # newitem
      BY <1>8
    <3> QED BY <1>3, <1>9, <3>1, <3>2
  <2>2. i # k /\ j # k => Old(i) = Old(j)
    <3> HIDE DEF Old
    <3>1. i # k => Old(i) \in 1..n /\ t[i] = s[Old(i)]
      BY <1>8
    <3>2. j # k => Old(j) \in 1..n /\ t[j] = s[Old(j)]
      BY <1>8
    <3> QED BY <1>1, <1>9, <3>1, <3>2
  <2>3. i \in Nat /\ j \in Nat /\ k \in Nat
    BY <1>1, <1>3
  <2> QED BY <2>1, <2>2, <2>3
<1>10. m # 0 /\ g.child[array] = t[1]
  <2>1. CASE k = 1
    BY <1>1, <1>2, <1>3, <2>1
  <2>2. CASE k # 1
    <3>1. 1 \in 1..(k - 1)
      BY <1>1, <2>2
    <3> QED BY <1>1, <1>2, <1>3, <2>2, <3>1
  <2> QED BY <2>1, <2>2
<1>11. ASSUME NEW j \in 1..m
       PROVE  g.next[t[j]] = IF j = m THEN NULL ELSE t[j + 1]
  <2>1. CASE j = k
    <3>1. k \in k..n /\ j # m
      BY <1>1, <1>3, <2>1
    <3>2. t[k + 1] = after
      BY <1>3, <3>1
    <3> QED BY <1>2, <1>3, <2>1, <3>1, <3>2
  <2>2. CASE j < k
    <3>1. j \in 1..n /\ j \in 1..(k - 1) /\ j # m /\ j # n /\ k # 1
      BY <1>1, <1>3, <2>2
    <3>2. t[j] = s[j] /\ s[j] # newitem /\ s[j] \in Items
      BY <1>1, <1>3, <1>5, <3>1
    <3>3. CASE j = k - 1
      <4>1. g.next[s[j]] = newitem /\ j + 1 = k
        BY <1>1, <1>2, <3>1, <3>2, <3>3
      <4> QED BY <1>3, <3>1, <3>2, <4>1
    <3>4. CASE j # k - 1
      <4>1. j \in Nat /\ k \in Nat /\ k - 1 \in 1..n
        BY <1>1, <1>3, <1>6, <3>1
      <4>3. s[j] # s[k - 1]
        BY <1>1, <3>1, <3>4, <4>1
      <4>4. j + 1 \in 1..(k - 1)
        BY <2>2, <3>1, <3>4, <4>1
      <4>2. g.next[s[j]] = h.next[s[j]] /\ t[j + 1] = s[j + 1]
        BY <1>2, <1>3, <3>2, <4>3, <4>4
      <4> QED BY <1>1, <3>1, <3>2, <4>2
    <3> QED BY <3>3, <3>4
  <2>3. CASE j > k
    <3> DEFINE i == j - 1
    <3>1. i \in 1..n /\ i \in k..n /\ j = i + 1 /\ (j = m <=> i = n)
      BY <1>1, <1>3, <2>3
    <3> HIDE DEF i
    <3>2. t[j] = s[i] /\ s[i] # newitem /\ s[i] \in Items
      BY <1>1, <1>3, <1>5, <3>1
    <3>3. k # 1 => s[i] # s[k - 1]
      BY <1>1, <1>6, <3>1
    <3>4. g.next[s[i]] = h.next[s[i]]
      BY <1>2, <3>2, <3>3
    <3>5. i # n => i + 1 \in k..n /\ t[i + 1 + 1] = s[i + 1]
      BY <1>1, <1>3, <3>1
    <3> QED BY <1>1, <3>1, <3>2, <3>4, <3>5
  <2> QED BY <1>1, <1>3, <2>1, <2>2, <2>3
<1>12. ASSUME NEW j \in 1..m
       PROVE  g.prev[t[j]] = IF j = 1 THEN t[m] ELSE t[j - 1]
  <2>1. t[m] = s[n]
    <3>1. n \in k..n
      BY <1>1
    <3> QED BY <1>3, <3>1
  <2>2. CASE j = k
    <3>1. g.prev[newitem] = h.prev[after]
      BY <1>2, <1>6
    <3>2. k # 1 => t[k - 1] = s[k - 1]
      BY <1>1, <1>3
    <3> QED BY <1>1, <1>3, <2>1, <2>2, <3>1, <3>2
  <2>3. CASE j < k
    <3>1. j \in 1..n /\ j \in 1..(k - 1) /\ j # k
      BY <1>1, <1>3, <2>3
    <3>2. t[j] = s[j] /\ s[j] # newitem /\ s[j] \in Items /\ s[j] # after
      BY <1>1, <1>3, <1>5, <3>1
    <3>3. g.prev[s[j]] = h.prev[s[j]]
      BY <1>2, <3>2
    <3>4. j # 1 => j - 1 \in 1..(k - 1)
      BY <3>1
    <3> QED BY <1>1, <1>3, <2>1, <3>1, <3>2, <3>3, <3>4
  <2>4. CASE j > k
    <3> DEFINE i == j - 1
    <3>1. i \in 1..n /\ i \in k..n /\ j = i + 1 /\ j # 1
      BY <1>1, <1>3, <2>4
    <3> HIDE DEF i
    <3>2. t[j] = s[i] /\ s[i] # newitem /\ s[i] \in Items
      BY <1>1, <1>3, <1>5, <3>1
    <3>3. CASE i = k
      <4>1. g.prev[s[i]] = newitem /\ j - 1 = k
        BY <1>2, <1>6, <3>1, <3>3
      <4> QED BY <1>3, <3>1, <3>2, <4>1
    <3>4. CASE i # k
      <4>1. s[i] # after /\ i # 1 /\ i - 1 \in k..n /\ j - 1 = i - 1 + 1
        BY <1>1, <3>1, <3>4
      <4>2. t[i - 1 + 1] = s[i - 1] /\ g.prev[s[i]] = h.prev[s[i]]
        BY <1>2, <1>3, <3>2, <4>1
      <4> QED BY <1>1, <3>1, <3>2, <4>1, <4>2
    <3> QED BY <3>3, <3>4
  <2> QED BY <1>1, <1>3, <2>2, <2>3, <2>4
<1>13. IsList(g, array, t)
  BY <1>3, <1>9, <1>10, <1>11, <1>12, ListByLinks DEF m
<1> QED BY <1>2, <1>7, <1>13 DEF t

\* InsertItemInArray() puts an item that is in no list before the one that has
\* its index, and behind the last one when none has.
THEOREM InsertInserts ==
  ASSUME NEW h, IsHeap(h), NEW array \in Items, WellLinked(h, array), NEW which \in Nat,
         NEW newitem \in Items \ {array}, newitem \notin ToSet(Children(h, array)),
         which >= Len(Children(h, array)) => h.next[newitem] = NULL
  PROVE  LET s == Children(h, array)
             g == InsertItemInArray(h, array, which, newitem)
         IN  /\ g.ret = TRUE /\ WellLinked(g, array)
             /\ Children(g, array) = IF which < Len(s) THEN InsertAt(s, which + 1, newitem)
                                     ELSE Append(s, newitem)
             /\ OnlyTouches(h, g, array, ToSet(s) \cup {newitem})
<1> DEFINE s == Children(h, array)
           g == InsertItemInArray(h, array, which, newitem)
<1>1. /\ IsList(h, array, s) /\ newitem \notin ToSet(s)
      /\ s \in Seq(Items) /\ Len(s) \in Nat
      /\ which >= Len(s) => h.next[newitem] = NULL
  BY WellLinkedIsList DEF IsList
<1>2. CASE which < Len(s)
  <2> DEFINE k == which + 1
  <2> HIDE DEF s, g
  <2>1. k \in 1..Len(s) /\ which = k - 1
    BY <1>1, <1>2
  <2> HIDE DEF k
  <2>2. g = InsertItemInArray(h, array, which, newitem)
    BY DEF g
  <2>3. /\ g.ret = TRUE /\ IsList(g, array, InsertAt(s, k, newitem))
        /\ OnlyTouches(h, g, array, ToSet(s) \cup {newitem})
    BY <1>1, <2>1, <2>2, InsertIntoList
  <2>4. WellLinked(g, array) /\ Children(g, array) = InsertAt(s, k, newitem)
    BY <2>3, ListIsWellLinked DEF OnlyTouches
  <2> QED BY <1>2, <2>3, <2>4 DEF g, s, k
<1>3. CASE ~(which < Len(s))
  <2>1. h.next[newitem] = NULL /\ newitem # NULL
    BY <1>1, <1>3, ItemsAssumption
  <2>2. get_array_item(h, array, which) = NULL
    <3> HIDE DEF s
    <3> QED BY <1>1, <1>3, ItemAtIndex
  <2>3. g = add_item_to_array(h, array, newitem)
    BY <2>1, <2>2 DEF InsertItemInArray
  <2>4. /\ g.ret = TRUE /\ WellLinked(g, array) /\ Children(g, array) = Append(s, newitem)
        /\ OnlyTouches(h, g, array, ToSet(s) \cup {newitem})
    <3> HIDE DEF g
    <3> QED BY <2>1, <2>3, AddAppends
  <2> QED BY <1>3, <2>4
<1> QED BY <1>2, <1>3

---------------------------------------------------------------------------
(* Replacing. *)

\* The links that lead to the replacement, and those from it.
Replaced(h, g, parent, s, k, replacement) ==
    /\ IsHeap(g)
    /\ \A i \in Items : g.next[i] =
         IF i = s[k] THEN NULL
         ELSE IF i = replacement THEN h.next[s[k]]
         ELSE IF k # 1 /\ i = s[k - 1] THEN replacement ELSE h.next[i]
    /\ \A i \in Items : g.prev[i] =
         IF i = s[k] THEN NULL
         ELSE IF i = replacement
         THEN IF Len(s) = 1 THEN replacement ELSE h.prev[s[k]]
         ELSE IF (k = Len(s) /\ i = s[1]) \/ (k # Len(s) /\ i = s[k + 1])
         THEN replacement ELSE h.prev[i]
    /\ \A q \in Items : g.child[q] =
         IF k = 1 /\ q = parent THEN replacement ELSE h.child[q]

\* The links that cJSON_ReplaceItemViaPointer() leaves, field by field.
LEMMA ReplaceFields ==
  ASSUME NEW h, IsHeap(h), NEW parent \in Items, NEW s, IsList(h, parent, s),
         NEW k \in 1..Len(s), NEW replacement \in Items \ {parent}, replacement \notin ToSet(s),
         NEW g, g = ReplaceLinks(h, parent, s[k], replacement)
  PROVE  Replaced(h, g, parent, s, k, replacement)
<1> DEFINE n == Len(s)
           item == s[k]
<1>1. /\ s \in Seq(Items) /\ n \in Nat \ {0} /\ k \in 1..n /\ 1 \in 1..n
      /\ \A i, j \in 1..n : s[i] = s[j] => i = j
      /\ \A j \in 1..n : s[j] \in Items /\ s[j] # NULL
      /\ h.child[parent] = s[1]
      /\ h.next[item] = IF k = n THEN NULL ELSE s[k + 1]
      /\ h.prev[item] = IF k = 1 THEN s[n] ELSE s[k - 1]
      /\ h.prev[item] \in Items /\ h.prev[item] # NULL
  BY ListFacts
<1>2. \A j \in 1..n : s[j] # replacement
  BY <1>1, MemberFacts
<1>3. item = s[k]
  OBVIOUS
<1> HIDE DEF n, item
<1>4. /\ item \in Items /\ replacement # item /\ s[1] \in Items /\ s[1] # replacement
      /\ h.child[parent] = item <=> k = 1
      /\ h.next[item] = NULL <=> k = n
      /\ h.prev[item] = item <=> n = 1
      /\ k # 1 => s[k - 1] \in Items /\ s[k - 1] # item /\ h.prev[item] = s[k - 1]
                  /\ s[k - 1] # replacement /\ s[1] # item
      /\ k # n => s[k + 1] \in Items /\ s[k + 1] # item /\ h.next[item] = s[k + 1]
                  /\ s[k + 1] # replacement
  <2>1. k # n => k + 1 \in 1..n
    BY <1>1
  <2>2. k # 1 => k - 1 \in 1..n
    BY <1>1
  <2>3. n \in 1..n
    BY <1>1
  <2>4. h.prev[item] = item <=> n = 1
    BY <1>1, <1>3, <2>2, <2>3
  <2> QED BY <1>1, <1>2, <1>3, <2>1, <2>2, <2>4
<1>5. {"next", "prev", "child", "ret"} \subseteq DOMAIN h
  BY DEF IsHeap
<1> DEFINE copied == [h EXCEPT !.next[replacement] = h.next[item],
                               !.prev[replacement] = h.prev[item]]
           N0 == [h.next EXCEPT ![replacement] = h.next[item]]
           P0 == [h.prev EXCEPT ![replacement] = h.prev[item]]
           after == IF h.next[item] = NULL THEN copied
                    ELSE [copied EXCEPT !.prev[h.next[item]] = replacement]
           P1 == IF k = n THEN P0 ELSE [P0 EXCEPT ![h.next[item]] = replacement]
           N2 == IF k = 1 THEN N0 ELSE [N0 EXCEPT ![h.prev[item]] = replacement]
           P2 == IF k = 1
                 THEN [P1 EXCEPT ![replacement] = IF n = 1 THEN replacement ELSE P1[replacement]]
                 ELSE IF k = n THEN [P1 EXCEPT ![s[1]] = replacement] ELSE P1
           C2 == IF k = 1 THEN [h.child EXCEPT ![parent] = replacement] ELSE h.child
           Has(f, N, P, C) == /\ {"next", "prev", "child", "ret"} \subseteq DOMAIN f
                              /\ f.next = N /\ f.prev = P /\ f.child = C
<1>6. Has(copied, N0, P0, h.child)
  BY <1>5
<1>7. Has(after, N0, P1, h.child)
  <2> HIDE DEF copied, N0, P0
  <2> QED BY <1>4, <1>6
<1> DEFINE first == [after EXCEPT
                       !.prev[replacement] = IF h.prev[item] = item THEN replacement ELSE @,
                       !.child[parent] = replacement]
           before == IF h.prev[item] = NULL THEN after
                     ELSE [after EXCEPT !.next[h.prev[item]] = replacement]
           around == IF h.child[parent] = item THEN first
                     ELSE IF h.next[item] = NULL
                     THEN [before EXCEPT !.prev[h.child[parent]] = replacement] ELSE before
<1>8. Has(around, N2, P2, C2)
  <2> HIDE DEF after, N0, P1
  <2>1. CASE k = 1
    <3>1. Has(first, N2, P2, C2)
      BY <1>4, <1>7, <2>1
    <3> HIDE DEF first, before, N2, P2, C2, Has
    <3> QED BY <1>4, <2>1, <3>1
  <2>2. CASE k # 1
    <3>1. Has(before, N2, P1, C2)
      BY <1>1, <1>4, <1>7, <2>2
    <3> HIDE DEF before, N2, C2
    <3>2. CASE k = n
      <4>1. around = [before EXCEPT !.prev[s[1]] = replacement]
        BY <1>1, <1>4, <2>2, <3>2
      <4> HIDE DEF around
      <4> QED BY <2>2, <3>1, <3>2, <4>1
    <3>3. CASE k # n
      BY <1>4, <2>2, <3>1, <3>3
    <3> QED BY <3>2, <3>3
  <2> QED BY <2>1, <2>2
<1>9. g = [around EXCEPT !.next[item] = NULL, !.prev[item] = NULL]
  <2>1. ReplaceLinks(h, parent, item, replacement)
          = [around EXCEPT !.next[item] = NULL, !.prev[item] = NULL]
    BY Zenon DEF ReplaceLinks
  <2>2. g = ReplaceLinks(h, parent, item, replacement)
    BY <1>3
  <2> HIDE DEF around
  <2> QED BY <2>1, <2>2
<1> HIDE DEF around
<1>10. Has(g, [N2 EXCEPT ![item] = NULL], [P2 EXCEPT ![item] = NULL], C2)
  <2> HIDE DEF N2, P2, C2
  <2> QED BY <1>8, <1>9
<1>11. /\ N2 \in [Items -> Items \cup {NULL}] /\ P2 \in [Items -> Items \cup {NULL}]
       /\ C2 \in [Items -> Items \cup {NULL}]
  BY <1>1, <1>4 DEF IsHeap
<1>12. IsHeap(g)
  <2> HIDE DEF N2, P2, C2
  <2> QED BY <1>10, <1>11 DEF IsHeap
<1>13. ASSUME NEW i \in Items
       PROVE  /\ N2[i] = IF i = replacement THEN h.next[item]
                         ELSE IF k # 1 /\ i = s[k - 1] THEN replacement ELSE h.next[i]
              /\ i # item => P2[i] =
                   IF i = replacement
                   THEN IF n = 1 THEN replacement ELSE h.prev[item]
                   ELSE IF (k = n /\ i = s[1]) \/ (k # n /\ i = s[k + 1])
                   THEN replacement ELSE h.prev[i]
              /\ C2[i] = IF k = 1 /\ i = parent THEN replacement ELSE h.child[i]
  <2>1. N2[i] = IF i = replacement THEN h.next[item]
                ELSE IF k # 1 /\ i = s[k - 1] THEN replacement ELSE h.next[i]
    BY <1>4 DEF IsHeap
  <2>2. C2[i] = IF k = 1 /\ i = parent THEN replacement ELSE h.child[i]
    BY DEF IsHeap
  <2>3. P1[i] = IF i = replacement THEN h.prev[item]
                ELSE IF k # n /\ i = s[k + 1] THEN replacement ELSE h.prev[i]
    BY <1>4 DEF IsHeap
  <2>4. P1 \in [Items -> Items \cup {NULL}]
    BY <1>1, <1>4 DEF IsHeap
  <2>5. P2[i] = IF k = 1 /\ n = 1 /\ i = replacement THEN replacement
                ELSE IF k # 1 /\ k = n /\ i = s[1] THEN replacement ELSE P1[i]
    <3> HIDE DEF P1
    <3> QED BY <1>4, <2>4
  <2>6. n = 1 => k = 1
    BY <1>1
  <2> HIDE DEF P1, P2, N2, C2
  <2>7. i # item => P2[i] =
          IF i = replacement
          THEN IF n = 1 THEN replacement ELSE h.prev[item]
          ELSE IF (k = n /\ i = s[1]) \/ (k # n /\ i = s[k + 1])
          THEN replacement ELSE h.prev[i]
    BY <1>3, <1>4, <2>3, <2>5, <2>6
  <2> QED BY <2>1, <2>2, <2>7
<1>14. ASSUME NEW i \in Items
       PROVE  /\ g.next[i] = IF i = item THEN NULL ELSE N2[i]
              /\ g.prev[i] = IF i = item THEN NULL ELSE P2[i]
              /\ g.child[i] = C2[i]
  <2> HIDE DEF N2, P2, C2
  <2> QED BY <1>10, <1>11
<1> HIDE DEF N2, P2, C2
<1> QED BY <1>12, <1>13, <1>14 DEF Replaced, n, item

\* t is s with another item at place k.
PutAt(s, k, item, t) == t = [s EXCEPT ![k] = item]

\* t is the list after the replacement, only T was touched, the item is in no list.
InPlace(h, g, parent, item, t, T) ==
    /\ IsList(g, parent, t) /\ g.next[item] = NULL /\ g.prev[item] = NULL
    /\ OnlyTouches(h, g, parent, T)

\* It puts the new item in the place of the old one.
LEMMA ReplaceInList ==
  ASSUME NEW h, IsHeap(h), NEW parent \in Items, NEW s, IsList(h, parent, s),
         NEW k \in 1..Len(s), NEW replacement \in Items,
         replacement # parent, replacement \notin ToSet(s),
         NEW item, item = s[k], NEW g, g = ReplaceLinks(h, parent, item, replacement),
         NEW t, PutAt(s, k, replacement, t), NEW T, T = ToSet(s) \cup {replacement}
  PROVE  InPlace(h, g, parent, item, t, T)
<1> DEFINE n == Len(s)
<1>1. /\ s \in Seq(Items) /\ n \in Nat \ {0} /\ k \in 1..n /\ 1 \in 1..n /\ n \in 1..n
      /\ \A i, j \in 1..n : s[i] = s[j] => i = j
      /\ \A j \in 1..n : s[j] \in Items /\ s[j] # NULL
      /\ h.child[parent] = s[1]
      /\ \A j \in 1..n : h.next[s[j]] = IF j = n THEN NULL ELSE s[j + 1]
      /\ \A j \in 1..n : h.prev[s[j]] = IF j = 1 THEN s[n] ELSE s[j - 1]
  BY ListFacts
<1>2. /\ IsHeap(g)
      /\ \A i \in Items : g.next[i] =
           IF i = item THEN NULL
           ELSE IF i = replacement THEN h.next[item]
           ELSE IF k # 1 /\ i = s[k - 1] THEN replacement ELSE h.next[i]
      /\ \A i \in Items : g.prev[i] =
           IF i = item THEN NULL
           ELSE IF i = replacement
           THEN IF n = 1 THEN replacement ELSE h.prev[item]
           ELSE IF (k = n /\ i = s[1]) \/ (k # n /\ i = s[k + 1])
           THEN replacement ELSE h.prev[i]
      /\ \A q \in Items : g.child[q] =
           IF k = 1 /\ q = parent THEN replacement ELSE h.child[q]
  <2>1. Replaced(h, g, parent, s, k, replacement)
    BY ReplaceFields
  <2> QED BY <2>1 DEF Replaced
<1>3. /\ t \in Seq(Items) /\ Len(t) = n
      /\ \A j \in 1..n : t[j] = IF j = k THEN replacement ELSE s[j]
  BY <1>1 DEF PutAt
<1>4. \A i \in Items : i \in ToSet(s) <=> \E j \in 1..n : s[j] = i
  BY <1>1, MemberFacts
<1>5. \A j \in 1..n : s[j] # replacement
  BY <1>1, MemberFacts
<1> HIDE DEF n
<1>6. /\ item \in Items /\ item = s[k] /\ item # replacement
      /\ k # 1 => k - 1 \in 1..n
      /\ k # n => k + 1 \in 1..n
  BY <1>1, <1>5
<1>7. OnlyTouches(h, g, parent, T)
  <2>1. /\ item \in ToSet(s) /\ s[1] \in ToSet(s)
        /\ k # 1 => s[k - 1] \in ToSet(s)
        /\ k # n => s[k + 1] \in ToSet(s)
    BY <1>1, <1>4, <1>6
  <2> QED BY <1>2, <2>1 DEF OnlyTouches
<1>8. g.next[item] = NULL /\ g.prev[item] = NULL
  BY <1>2, <1>6
<1>9. ASSUME NEW i \in 1..n, NEW j \in 1..n, t[i] = t[j]
      PROVE  i = j
  <2>1. /\ t[i] = IF i = k THEN replacement ELSE s[i]
        /\ t[j] = IF j = k THEN replacement ELSE s[j]
    BY <1>3
  <2>2. s[i] # replacement /\ s[j] # replacement /\ (s[i] = s[j] => i = j)
    BY <1>1, <1>5
  <2> QED BY <1>9, <2>1, <2>2
<1>10. g.child[parent] = t[1]
  BY <1>1, <1>2, <1>3
<1>11. ASSUME NEW j \in 1..n
       PROVE  g.next[t[j]] = IF j = n THEN NULL ELSE t[j + 1]
  <2>1. j # n => j + 1 \in 1..n
    BY <1>1
  <2>2. CASE j = k
    <3>1. g.next[replacement] = h.next[item] /\ t[j] = replacement
      BY <1>2, <1>3, <1>6, <2>2
    <3>2. j # n => t[j + 1] = s[j + 1]
      BY <1>1, <1>3, <2>1, <2>2
    <3> QED BY <1>1, <1>6, <2>2, <3>1, <3>2
  <2>3. CASE j # k
    <3>1. t[j] = s[j] /\ s[j] # replacement /\ s[j] \in Items /\ s[j] # item
      BY <1>1, <1>3, <1>5, <1>6, <2>3
    <3>2. CASE j = k - 1
      <4>1. k # 1 /\ j # n /\ j + 1 = k
        BY <1>1, <3>2
      <4>2. g.next[s[j]] = replacement
        BY <1>2, <3>1, <3>2, <4>1
      <4> QED BY <1>1, <1>3, <3>1, <4>1, <4>2
    <3>3. CASE j # k - 1
      <4>1. k # 1 => s[j] # s[k - 1]
        BY <1>1, <1>6, <3>3
      <4>2. g.next[s[j]] = h.next[s[j]]
        BY <1>2, <3>1, <4>1
      <4>3. j # n => j + 1 # k
        BY <1>1, <3>3
      <4> QED BY <1>1, <1>3, <2>1, <3>1, <4>2, <4>3
    <3> QED BY <3>2, <3>3
  <2> QED BY <2>2, <2>3
<1>12. ASSUME NEW j \in 1..n
       PROVE  g.prev[t[j]] = IF j = 1 THEN t[n] ELSE t[j - 1]
  <2>1. j # 1 => j - 1 \in 1..n
    BY <1>1
  <2>2. CASE j = k
    <3>1. g.prev[replacement] = IF n = 1 THEN replacement ELSE h.prev[item]
      BY <1>2, <1>6
    <3>2. t[j] = replacement
      BY <1>3, <2>2
    <3>3. j = 1 /\ n # 1 => t[n] = s[n]
      BY <1>1, <1>3, <2>2
    <3>4. j # 1 => t[j - 1] = s[j - 1] /\ n # 1
      BY <1>1, <1>3, <2>1, <2>2
    <3> QED BY <1>1, <1>6, <2>2, <3>1, <3>2, <3>3, <3>4
  <2>3. CASE j # k
    <3>1. t[j] = s[j] /\ s[j] # replacement /\ s[j] \in Items /\ s[j] # item
      BY <1>1, <1>3, <1>5, <1>6, <2>3
    <3>2. CASE j = 1
      <4>1. s[j] = s[1] /\ (k # n => s[j] # s[k + 1])
        BY <1>1, <1>6, <3>2
      <4>2. g.prev[s[j]] = IF k = n THEN replacement ELSE h.prev[s[j]]
        BY <1>2, <3>1, <4>1
      <4> QED BY <1>1, <1>3, <3>1, <3>2, <4>2
    <3>3. CASE j # 1
      <4>1. s[j] # s[1] /\ (k # n => (s[j] = s[k + 1] <=> j = k + 1))
        BY <1>1, <1>6, <3>3
      <4>2. g.prev[s[j]] = IF k # n /\ j = k + 1 THEN replacement ELSE h.prev[s[j]]
        BY <1>2, <3>1, <4>1
      <4>3. (k # n /\ j = k + 1) <=> j - 1 = k
        BY <1>1
      <4> QED BY <1>1, <1>3, <2>1, <3>1, <3>3, <4>2, <4>3
    <3> QED BY <3>2, <3>3
  <2> QED BY <2>2, <2>3
<1>13. IsList(g, parent, t)
  <2>1. Len(t) # 0 /\ t \in Seq(Items)
    BY <1>1, <1>3
  <2>2. \A i, j \in 1..Len(t) : t[i] = t[j] => i = j
    BY <1>3, <1>9
  <2>3. \A j \in 1..Len(t) : g.next[t[j]] = IF j = Len(t) THEN NULL ELSE t[j + 1]
    BY <1>3, <1>11
  <2>4. \A j \in 1..Len(t) : g.prev[t[j]] = IF j = 1 THEN t[Len(t)] ELSE t[j - 1]
    BY <1>3, <1>12
  <2>5. IsHeap(g) /\ parent \in Items
    BY <1>2
  <2> QED BY ONLY <1>10, <2>1, <2>2, <2>3, <2>4, <2>5, ListByLinks
<1> QED BY <1>7, <1>8, <1>13 DEF InPlace

\* ReplaceItemViaPointer() gives the replacement, which is in no list before,
\* the place of the item, whichever that is, and leaves the item in no list,
\* so that the cJSON_Delete() that follows frees nothing that is still linked.
THEOREM ReplaceReplaces ==
  ASSUME NEW h, IsHeap(h), NEW parent \in Items, WellLinked(h, parent),
         NEW k \in 1..Len(Children(h, parent)),
         NEW replacement \in Items \ {parent}, replacement \notin ToSet(Children(h, parent))
  PROVE  LET s == Children(h, parent)
             g == ReplaceLinks(h, parent, s[k], replacement)
         IN  /\ WellLinked(g, parent)
             /\ Children(g, parent) = [s EXCEPT ![k] = replacement]
             /\ g.next[s[k]] = NULL /\ g.prev[s[k]] = NULL
             /\ OnlyTouches(h, g, parent, ToSet(s) \cup {replacement})
<1> DEFINE s == Children(h, parent)
           item == s[k]
           g == ReplaceLinks(h, parent, item, replacement)
           t == [s EXCEPT ![k] = replacement]
           T == ToSet(s) \cup {replacement}
<1>1. IsList(h, parent, s) /\ k \in 1..Len(s) /\ replacement \notin ToSet(s)
  BY WellLinkedIsList
<1>2. /\ item = s[k] /\ g = ReplaceLinks(h, parent, item, replacement)
      /\ PutAt(s, k, replacement, t) /\ T = ToSet(s) \cup {replacement}
      /\ replacement \in Items /\ replacement # parent
  BY DEF PutAt
<1> HIDE DEF s, item, g, t, T
<1>3. /\ IsList(g, parent, t) /\ g.next[item] = NULL /\ g.prev[item] = NULL
      /\ OnlyTouches(h, g, parent, T)
  <2>1. InPlace(h, g, parent, item, t, T)
    BY <1>1, <1>2, ReplaceInList
  <2> QED BY <2>1 DEF InPlace
<1>4. WellLinked(g, parent) /\ Children(g, parent) = t
  BY <1>3, ListIsWellLinked DEF OnlyTouches
<1> QED BY <1>3, <1>4 DEF g, s, item, t, T
=============================================================================
