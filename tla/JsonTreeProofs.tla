--------------------------- MODULE JsonTreeProofs ---------------------------
(***************************************************************************)
(* Proofs about JsonTree, for every number of items, every size of the     *)
(* trees and every allocation that may fail: that no call leaves a broken  *)
(* list, a dangling pointer or memory that nobody holds, that a call that  *)
(* fails changes nothing, that the calls implement JsonForest, and that    *)
(* what cJSON_Duplicate gives is a whole copy.                             *)
(***************************************************************************)
EXTENDS JsonHeapProofs

---------------------------------------------------------------------------
(* The calls that change the list of one item, on a heap without open lists. *)

Stands(h, L, R) == HeapInv(h, L, R, {})

\* What it says that a heap stands for L and R, by parts.
LEMMA StandsFacts ==
  ASSUME NEW h, NEW L, NEW R, Stands(h, L, R)
  PROVE  /\ h \in AnyHeap /\ Memory(h) /\ Kept(h, L, R) /\ IsHeap(h) /\ Acyclic(L)
         /\ L \in [Items -> Seq(Items)] /\ h.live \in SUBSET Items
         /\ R \subseteq h.live /\ R \subseteq Items
         /\ h.ref \subseteq h.live /\ h.const \subseteq h.live
         /\ \A p \in Items : p \notin h.live \ h.ref => L[p] = <<>>
         /\ \A p \in Items : ToSet(L[p]) \subseteq h.live \ R
         /\ \A i \in Items : ~IsMember(L, i) => h.next[i] = NULL /\ h.prev[i] = NULL
         /\ \A p \in h.live \ h.ref : IsList(h, p, L[p])
         /\ \A p, q \in Items : p # q => ToSet(L[p]) \cap ToSet(L[q]) = {}
<1>1. HeapInv(h, L, R, {})
  BY DEF Stands
<1>2. Shape(h, L, R, {})
  BY <1>1 DEF HeapInv
<1>3. /\ Acyclic(L) /\ \A p \in h.live \ h.ref : IsList(h, p, L[p])
      /\ \A p, q \in Items : p # q => ToSet(L[p]) \cap ToSet(L[q]) = {}
  BY <1>2 DEF Shape
<1> QED BY <1>1, <1>3, HeapFacts

\* It does not depend on fuel and ret.
LEMMA SameItemsStand ==
  ASSUME NEW h, NEW L, NEW R, Stands(h, L, R), NEW g, SameItems(h, g)
  PROVE  Stands(g, L, R)
BY SameItemsKeep DEF Stands

\* The item a list belongs to is in no tree of a member, so the trees of the
\* members stay what they are when the list changes.
LEMMA MembersAreBelow ==
  ASSUME NEW L \in [Items -> Seq(Items)], Acyclic(L), NEW p \in Items, NEW i \in ToSet(L[p])
  PROVE  i \in Items /\ p \notin Tree(L, i)
<1>1. i \in Items
  BY DEF ToSet
<1>2. ASSUME p \in Tree(L, i)
      PROVE  FALSE
  <2>1. /\ i \in Tree(L, i) /\ Tree(L, i) \subseteq Items
        /\ \A j \in Tree(L, i) : j # i => \E q \in Tree(L, i) : j \in ToSet(L[q])
    BY <1>1, TreeFacts
  <2>2. \A j \in Tree(L, i) : \E q \in Tree(L, i) : j \in ToSet(L[q])
    BY <1>2, <2>1
  <2>3. Tree(L, i) \in SUBSET Items /\ Tree(L, i) # {}
    BY <2>1
  <2> QED BY <2>2, <2>3 DEF Acyclic
<1> QED BY <1>1, <1>2

\* A root is in no list, and its links are NULL.
LEMMA RootsAreNoMembers ==
  ASSUME NEW h, NEW L, NEW R, Stands(h, L, R), NEW item \in R
  PROVE  /\ item \in Items /\ item # NULL /\ item \in h.live /\ ~IsMember(L, item)
         /\ h.next[item] = NULL /\ h.prev[item] = NULL
         /\ \A p \in Items : item \notin ToSet(L[p])
<1>1. /\ item \in Items /\ item \in h.live /\ \A p \in Items : item \notin ToSet(L[p])
  BY StandsFacts
<1>2. ~IsMember(L, item)
  BY <1>1 DEF IsMember
<1> QED BY <1>1, <1>2, StandsFacts, ItemsAssumption

Added(L, p, item) == [L EXCEPT ![p] = Append(@, item)]

\* A root becomes the last member.
LEMMA AddStands ==
  ASSUME NEW h, NEW L, NEW R, Stands(h, L, R), NEW p \in h.live \ h.ref,
         NEW item \in R, p \notin Tree(L, item),
         NEW g, g = add_item_to_array(h, p, item), NEW Q, Q = R \ {item}
  PROVE  g.ret = TRUE /\ Stands(g, Added(L, p, item), Q) /\ Relinked(h, g)
<1> DEFINE s == L[p]
           t == Append(s, item)
           T == Tree(L, item)
<1>1. /\ L \in [Items -> Seq(Items)] /\ p \in Items /\ item \in Items /\ h \in AnyHeap /\ IsHeap(h)
      /\ IsList(h, p, s) /\ item \notin ToSet(s) /\ h.next[item] = NULL
      /\ s \in Seq(Items) /\ R \subseteq Items
  <2>1. p \in Items
    BY StandsFacts
  <2> QED BY <2>1, StandsFacts, RootsAreNoMembers
<1>2. /\ item \in T /\ T \in SUBSET Items /\ \A q \in T : ToSet(L[q]) \subseteq T
  BY <1>1, TreeFacts
<1>3. item # p
  BY <1>2
<1>4. g.ret = TRUE /\ IsList(g, p, t) /\ OnlyTouches(h, g, p, ToSet(s) \cup {item})
  <2> HIDE DEF s
  <2>1. CASE s = <<>>
    <3>1. IsList(h, p, <<>>)
      BY <1>1, <2>1
    <3>2. g.ret = TRUE /\ IsList(g, p, <<item>>) /\ OnlyTouches(h, g, p, {item})
      BY <1>1, <1>3, <3>1, AddToEmpty
    <3>3. t = <<item>> /\ ToSet(s) \cup {item} = {item}
      BY <2>1 DEF ToSet
    <3> QED BY <3>2, <3>3
  <2>2. CASE s # <<>>
    BY <1>1, <1>3, <2>2, AddToList
  <2> QED BY <2>1, <2>2
<1>5. Relinked(h, g)
  BY <1>1, AddRelinks
<1>6. ToSet(t) = ToSet(s) \cup {item} /\ t \in Seq(Items)
  BY <1>1, AppendMembers, AppendFacts
<1>7. HeapInv(g, [L EXCEPT ![p] = t], Q, {})
  <2> DEFINE In == {item}
             Out == {}
             O == {}
  <2>1. /\ In \in SUBSET R /\ Out \in SUBSET ToSet(L[p]) /\ HeapInv(h, L, R, O)
        /\ OnlyTouches(h, g, p, ToSet(L[p]) \cup In) /\ ToSet(t) = (ToSet(L[p]) \ Out) \cup In
        /\ \A i \in Out : g.next[i] = NULL /\ g.prev[i] = NULL
        /\ In \subseteq T /\ p \notin T
        /\ IF p \in O THEN IsOpen(g, p, t) ELSE IsList(g, p, t)
        /\ \A q \in Items \ {p} : q \in O <=> q \in O
    BY <1>2, <1>4, <1>6 DEF Stands
  <2>2. Q = (R \ In) \cup Out
    OBVIOUS
  <2> HIDE DEF s, t, T, In, Out, O
  <2>3. HeapInv(g, [L EXCEPT ![p] = t], (R \ In) \cup Out, O)
    BY <1>2, <1>5, <1>6, <2>1, RelinkKeeps
  <2> QED BY <2>2, <2>3 DEF O
<1> QED BY <1>1, <1>4, <1>5, <1>7 DEF Stands, Added

\* The members of a list without one.
LEMMA RemoveMembers ==
  ASSUME NEW s \in Seq(Items), \A i, j \in 1..Len(s) : s[i] = s[j] => i = j, NEW k \in 1..Len(s)
  PROVE  RemoveAt(s, k) \in Seq(Items) /\ ToSet(RemoveAt(s, k)) = ToSet(s) \ {s[k]}
<1> DEFINE t == RemoveAt(s, k)
           n == Len(s)
<1>1. /\ n \in Nat /\ t \in Seq(Items) /\ Len(t) = n - 1
      /\ \A j \in 1..(n - 1) : t[j] = IF j < k THEN s[j] ELSE s[j + 1]
  BY RemoveFacts
<1>2. /\ \A i : i \in ToSet(s) <=> \E j \in 1..n : s[j] = i
      /\ \A i : i \in ToSet(t) <=> \E j \in 1..(n - 1) : t[j] = i
  <2>1. \A i : i \in ToSet(s) <=> \E j \in 1..n : s[j] = i
    BY MemberFacts
  <2>2. \A i : i \in ToSet(t) <=> \E j \in 1..Len(t) : t[j] = i
    BY <1>1, MemberFacts
  <2> QED BY <1>1, <2>1, <2>2
<1> HIDE DEF t
<1>3. ASSUME NEW i \in ToSet(t)
      PROVE  i \in ToSet(s) /\ i # s[k]
  <2>1. PICK j \in 1..(n - 1) : t[j] = i
    BY <1>2
  <2>2. j \in 1..n /\ j + 1 \in 1..n
    BY <1>1
  <2>3. CASE j < k
    <3>1. i = s[j] /\ j # k
      BY <1>1, <2>1, <2>3
    <3> QED BY <1>2, <2>2, <3>1
  <2>4. CASE ~(j < k)
    <3>1. i = s[j + 1] /\ j + 1 # k
      BY <1>1, <2>1, <2>4
    <3> QED BY <1>2, <2>2, <3>1
  <2> QED BY <2>3, <2>4
<1>4. ASSUME NEW i \in ToSet(s), i # s[k]
      PROVE  i \in ToSet(t)
  <2>1. PICK j \in 1..n : s[j] = i
    BY <1>2
  <2>2. CASE j < k
    <3>1. j \in 1..(n - 1) /\ t[j] = i
      BY <1>1, <2>1, <2>2
    <3> QED BY <1>2, <3>1
  <2>3. CASE ~(j < k)
    <3>1. j # k
      BY <1>4, <2>1
    <3>2. j - 1 \in 1..(n - 1) /\ ~(j - 1 < k) /\ j - 1 + 1 = j
      BY <1>1, <2>3, <3>1
    <3>3. t[j - 1] = i
      BY <1>1, <2>1, <3>2
    <3> QED BY <1>2, <3>2, <3>3
  <2> QED BY <2>2, <2>3
<1> QED BY <1>1, <1>3, <1>4 DEF t

\* The members of p become those of s.
Relisted(L, p, s, M) == M = [L EXCEPT ![p] = s]

\* From h to g the list of p was changed, and no other, so that M are the
\* members and Q the roots.
Relists(h, g, p, M, Q) ==
    /\ Stands(g, M, Q) /\ Relinked(h, g)
    /\ \A q \in Items \ {p} : g.child[q] = h.child[q]
Detaches(h, g, p, item, M, Q) == g.ret = item /\ Relists(h, g, p, M, Q)

\* A member becomes a root.
LEMMA DetachStands ==
  ASSUME NEW h, NEW L, NEW R, Stands(h, L, R), NEW p \in h.live \ h.ref,
         NEW s, s = L[p], NEW k \in 1..Len(s), NEW item, item = s[k],
         NEW g, g = DetachItemViaPointer(h, p, item), NEW Q, Q = R \cup {item},
         NEW t, t = RemoveAt(s, k), NEW M, Relisted(L, p, t, M)
  PROVE  Detaches(h, g, p, item, M, Q)
<1>1. /\ L \in [Items -> Seq(Items)] /\ p \in Items /\ h \in AnyHeap /\ IsHeap(h)
      /\ IsList(h, p, s) /\ s \in Seq(Items) /\ R \subseteq Items
  <2>1. p \in Items
    BY StandsFacts
  <2> QED BY <2>1, StandsFacts
<1>2. /\ \A i, j \in 1..Len(s) : s[i] = s[j] => i = j
      /\ item \in Items /\ h.child[p] = s[1] /\ s[1] # NULL
      /\ h.prev[s[k]] # NULL
  <2>1. 1 \in 1..Len(s) /\ Len(s) # 0
    BY <1>1
  <2> QED BY <1>1, <2>1, ListFacts
<1>3. item \in ToSet(s)
  BY <1>1, MemberFacts
<1>4. /\ g.ret = item /\ g.next[item] = NULL /\ g.prev[item] = NULL
      /\ IsList(g, p, t) /\ OnlyTouches(h, g, p, ToSet(s))
  <2>1. /\ IsHeap(h) /\ p \in Items /\ IsList(h, p, s) /\ k \in 1..Len(s) /\ item = s[k]
        /\ g = DetachItemViaPointer(h, p, item)
    BY <1>1
  <2>2. /\ g.ret = item /\ g.next[item] = NULL /\ g.prev[item] = NULL
        /\ IsList(g, p, RemoveAt(s, k)) /\ OnlyTouches(h, g, p, ToSet(s))
    BY ONLY <2>1, DetachFromList
  <2> QED BY <2>2
<1>5. Relinked(h, g)
  BY <1>1, <1>2, DetachRelinks
<1>6. t \in Seq(Items) /\ ToSet(t) = ToSet(s) \ {item}
  BY <1>1, <1>2, RemoveMembers
<1>7. HeapInv(g, [L EXCEPT ![p] = t], Q, {})
  <2> DEFINE In == {}
             Out == {item}
             O == {}
             B == {}
  <2>1. /\ In \in SUBSET R /\ Out \in SUBSET ToSet(L[p]) /\ HeapInv(h, L, R, O)
        /\ OnlyTouches(h, g, p, ToSet(L[p]) \cup In) /\ ToSet(t) = (ToSet(L[p]) \ Out) \cup In
        /\ \A i \in Out : g.next[i] = NULL /\ g.prev[i] = NULL
        /\ In \subseteq B /\ p \notin B /\ B \in SUBSET Items /\ \A q \in B : ToSet(L[q]) \subseteq B
        /\ IF p \in O THEN IsOpen(g, p, t) ELSE IsList(g, p, t)
        /\ \A q \in Items \ {p} : q \in O <=> q \in O
    BY <1>3, <1>4, <1>6 DEF Stands
  <2>2. Q = (R \ In) \cup Out
    OBVIOUS
  <2> HIDE DEF B, In, Out, O
  <2>3. HeapInv(g, [L EXCEPT ![p] = t], (R \ In) \cup Out, O)
    BY <1>5, <1>6, <2>1, RelinkKeeps
  <2> QED BY <2>2, <2>3 DEF O
<1>8. \A q \in Items \ {p} : g.child[q] = h.child[q]
  BY <1>4 DEF OnlyTouches
<1>9. M = [L EXCEPT ![p] = t]
  BY DEF Relisted
<1> QED BY <1>4, <1>5, <1>7, <1>8, <1>9 DEF Stands, Relists, Detaches

\* The members of a list with one inserted.
LEMMA InsertMembers ==
  ASSUME NEW s \in Seq(Items), NEW k \in 1..Len(s), NEW item \in Items
  PROVE  InsertAt(s, k, item) \in Seq(Items) /\ ToSet(InsertAt(s, k, item)) = ToSet(s) \cup {item}
<1> DEFINE t == InsertAt(s, k, item)
           n == Len(s)
<1>1. /\ n \in Nat /\ t \in Seq(Items) /\ Len(t) = n + 1
      /\ \A j \in 1..(k - 1) : t[j] = s[j]
      /\ t[k] = item
      /\ \A j \in k..n : t[j + 1] = s[j]
  BY InsertFacts
<1>2. /\ \A i : i \in ToSet(s) <=> \E j \in 1..n : s[j] = i
      /\ \A i : i \in ToSet(t) <=> \E j \in 1..(n + 1) : t[j] = i
  <2>1. \A i : i \in ToSet(s) <=> \E j \in 1..n : s[j] = i
    BY MemberFacts
  <2>2. \A i : i \in ToSet(t) <=> \E j \in 1..Len(t) : t[j] = i
    BY <1>1, MemberFacts
  <2> QED BY <1>1, <2>1, <2>2
<1> HIDE DEF t
<1>3. ASSUME NEW i \in ToSet(t), i # item
      PROVE  i \in ToSet(s)
  <2>1. PICK j \in 1..(n + 1) : t[j] = i
    BY <1>2
  <2>2. j # k
    BY <1>1, <1>3, <2>1
  <2>3. CASE j < k
    <3>1. j \in 1..(k - 1) /\ j \in 1..n
      BY <1>1, <2>3
    <3> QED BY <1>1, <1>2, <2>1, <3>1
  <2>4. CASE ~(j < k)
    <3>1. j - 1 \in k..n /\ j - 1 \in 1..n /\ j - 1 + 1 = j
      BY <1>1, <2>2, <2>4
    <3>2. t[j - 1 + 1] = s[j - 1]
      BY <1>1, <3>1
    <3> QED BY <1>2, <2>1, <3>1, <3>2
  <2> QED BY <2>3, <2>4
<1>4. ASSUME NEW i \in ToSet(s)
      PROVE  i \in ToSet(t)
  <2>1. PICK j \in 1..n : s[j] = i
    BY <1>2
  <2>2. CASE j < k
    <3>1. j \in 1..(k - 1) /\ j \in 1..(n + 1)
      BY <1>1, <2>2
    <3> QED BY <1>1, <1>2, <2>1, <3>1
  <2>3. CASE ~(j < k)
    <3>1. j \in k..n /\ j + 1 \in 1..(n + 1)
      BY <1>1, <2>3
    <3> QED BY <1>1, <1>2, <2>1, <3>1
  <2> QED BY <2>2, <2>3
<1>5. item \in ToSet(t)
  <2>1. k \in 1..(n + 1)
    BY <1>1
  <2> QED BY <1>1, <1>2, <2>1
<1> QED BY <1>1, <1>3, <1>4, <1>5 DEF t

\* To insert past the last member is to append.
LEMMA InsertAtEnd ==
  ASSUME NEW s \in Seq(Items), NEW item \in Items, NEW k, k = Len(s) + 1
  PROVE  InsertAt(s, k, item) = Append(s, item)
<1>1. SubSeq(s, 1, k - 1) = s /\ SubSeq(s, k, Len(s)) = <<>>
  OBVIOUS
<1>2. InsertAt(s, k, item) = s \o <<item>> \o <<>>
  BY <1>1 DEF InsertAt
<1>3. s \o <<item>> = Append(s, item) /\ Append(s, item) \o <<>> = Append(s, item)
  OBVIOUS
<1> QED BY <1>2, <1>3

\* A root becomes the member of a list at any place.
LEMMA InsertStands ==
  ASSUME NEW h, NEW L, NEW R, Stands(h, L, R), NEW p \in h.live \ h.ref,
         NEW item \in R, p \notin Tree(L, item), NEW s, s = L[p], NEW which \in 0..Len(s),
         NEW g, g = InsertItemInArray(h, p, which, item), NEW Q, Q = R \ {item},
         NEW k, k = which + 1, NEW t, t = InsertAt(s, k, item), NEW M, Relisted(L, p, t, M)
  PROVE  g.ret = TRUE /\ Stands(g, M, Q)
<1> DEFINE T == Tree(L, item)
<1>1. /\ L \in [Items -> Seq(Items)] /\ p \in Items /\ item \in Items /\ h \in AnyHeap /\ IsHeap(h)
      /\ IsList(h, p, s) /\ item \notin ToSet(s)
      /\ s \in Seq(Items) /\ R \subseteq Items /\ item # NULL
  <2>1. p \in Items
    BY StandsFacts
  <2> QED BY <2>1, StandsFacts, RootsAreNoMembers
<1>2. /\ item \in T /\ T \in SUBSET Items /\ \A q \in T : ToSet(L[q]) \subseteq T
  BY <1>1, TreeFacts
<1>3. item # p /\ which \in Nat /\ Len(s) \in Nat
  BY <1>1, <1>2
<1>4. get_array_item(h, p, which) = IF which < Len(s) THEN s[which + 1] ELSE NULL
  BY <1>1, <1>3, ItemAtIndex
<1>5. M = [L EXCEPT ![p] = t]
  BY DEF Relisted
<1>6. CASE which < Len(s)
  <2>1. k \in 1..Len(s) /\ which = k - 1
    BY <1>3, <1>6
  <2>2. g.ret = TRUE /\ IsList(g, p, t) /\ OnlyTouches(h, g, p, ToSet(s) \cup {item})
    BY <1>1, <1>3, <2>1, InsertIntoList
  <2>3. get_array_item(h, p, which) \in Items \cup {NULL}
    <3>1. s[which + 1] \in Items
      BY <1>1, <2>1
    <3> QED BY <1>4, <1>6, <3>1
  <2>4. Relinked(h, g)
    BY <1>1, <1>3, <2>3, InsertRelinks
  <2>5. ToSet(t) = ToSet(s) \cup {item} /\ t \in Seq(Items)
    BY <1>1, <2>1, InsertMembers
  <2>6. HeapInv(g, [L EXCEPT ![p] = t], Q, {})
    <3> DEFINE In == {item}
               Out == {}
               O == {}
    <3>1. /\ In \in SUBSET R /\ Out \in SUBSET ToSet(L[p]) /\ HeapInv(h, L, R, O)
          /\ OnlyTouches(h, g, p, ToSet(L[p]) \cup In) /\ ToSet(t) = (ToSet(L[p]) \ Out) \cup In
          /\ \A i \in Out : g.next[i] = NULL /\ g.prev[i] = NULL
          /\ In \subseteq T /\ p \notin T
          /\ IF p \in O THEN IsOpen(g, p, t) ELSE IsList(g, p, t)
          /\ \A q \in Items \ {p} : q \in O <=> q \in O
      BY <1>2, <2>2, <2>5 DEF Stands
    <3>2. Q = (R \ In) \cup Out
      OBVIOUS
    <3> HIDE DEF T, In, Out, O
    <3>3. HeapInv(g, [L EXCEPT ![p] = t], (R \ In) \cup Out, O)
      BY <1>2, <2>4, <2>5, <3>1, RelinkKeeps
    <3> QED BY <3>2, <3>3 DEF O
  <2> QED BY <1>5, <2>2, <2>6 DEF Stands
<1>7. CASE ~(which < Len(s))
  <2>1. k = Len(s) + 1
    BY <1>3, <1>7
  <2>2. g = add_item_to_array(h, p, item)
    BY <1>1, <1>4, <1>7 DEF InsertItemInArray
  <2>3. g.ret = TRUE /\ Stands(g, Added(L, p, item), Q)
    BY <2>2, AddStands
  <2>4. t = Append(s, item)
    <3> QED BY <1>1, <2>1, InsertAtEnd
  <2>5. Added(L, p, item) = [L EXCEPT ![p] = t]
    BY <1>1, <2>4 DEF Added
  <2> QED BY <1>5, <2>3, <2>5
<1> QED BY <1>6, <1>7

\* The members of a list with one replaced.
LEMMA ReplaceMembers ==
  ASSUME NEW s \in Seq(Items), \A i, j \in 1..Len(s) : s[i] = s[j] => i = j,
         NEW k \in 1..Len(s), NEW item \in Items
  PROVE  /\ [s EXCEPT ![k] = item] \in Seq(Items)
         /\ ToSet([s EXCEPT ![k] = item]) = (ToSet(s) \ {s[k]}) \cup {item}
<1> DEFINE t == [s EXCEPT ![k] = item]
           n == Len(s)
<1>1. /\ n \in Nat /\ t \in Seq(Items) /\ Len(t) = n
      /\ \A j \in 1..n : t[j] = IF j = k THEN item ELSE s[j]
  OBVIOUS
<1>2. /\ \A i : i \in ToSet(s) <=> \E j \in 1..n : s[j] = i
      /\ \A i : i \in ToSet(t) <=> \E j \in 1..n : t[j] = i
  <2>1. \A i : i \in ToSet(s) <=> \E j \in 1..n : s[j] = i
    BY MemberFacts
  <2>2. \A i : i \in ToSet(t) <=> \E j \in 1..Len(t) : t[j] = i
    BY <1>1, MemberFacts
  <2> QED BY <1>1, <2>1, <2>2
<1> HIDE DEF t
<1>3. ASSUME NEW i
      PROVE  i \in ToSet(t) <=> (i \in ToSet(s) /\ i # s[k]) \/ i = item
  <2>1. i \in ToSet(t) => (i \in ToSet(s) /\ i # s[k]) \/ i = item
    BY <1>1, <1>2
  <2>2. i = item => i \in ToSet(t)
    BY <1>1, <1>2
  <2>3. i \in ToSet(s) /\ i # s[k] => i \in ToSet(t)
    BY <1>1, <1>2
  <2> QED BY <2>1, <2>2, <2>3
<1>4. ToSet(t) = (ToSet(s) \ {s[k]}) \cup {item}
  BY <1>3
<1> QED BY <1>1, <1>4 DEF t

\* A root takes the place of a member, which becomes a root.
LEMMA ReplaceStands ==
  ASSUME NEW h, NEW L, NEW R, Stands(h, L, R), NEW p \in h.live \ h.ref,
         NEW s, s = L[p], NEW k \in 1..Len(s), NEW item, item = s[k],
         NEW new \in R, p \notin Tree(L, new),
         NEW g, g = ReplaceLinks(h, p, item, new), NEW Q, Q = (R \ {new}) \cup {item},
         NEW t, PutAt(s, k, new, t), NEW M, Relisted(L, p, t, M)
  PROVE  Relists(h, g, p, M, Q)
<1> DEFINE T == Tree(L, new)
<1>1. /\ L \in [Items -> Seq(Items)] /\ p \in Items /\ new \in Items /\ h \in AnyHeap /\ IsHeap(h)
      /\ IsList(h, p, s) /\ new \notin ToSet(s)
      /\ s \in Seq(Items) /\ R \subseteq Items
  <2>1. p \in Items
    BY StandsFacts
  <2> QED BY <2>1, StandsFacts, RootsAreNoMembers
<1>2. /\ new \in T /\ T \in SUBSET Items /\ \A q \in T : ToSet(L[q]) \subseteq T
  BY <1>1, TreeFacts
<1>3. /\ \A i, j \in 1..Len(s) : s[i] = s[j] => i = j
      /\ item \in Items /\ h.child[p] \in Items /\ new # p
  <2>1. 1 \in 1..Len(s) /\ Len(s) # 0
    BY <1>1
  <2>2. IsHeap(h) /\ p \in Items /\ IsList(h, p, s) /\ k \in 1..Len(s) /\ item = s[k]
    BY <1>1
  <2>3. /\ \A i, j \in 1..Len(s) : s[i] = s[j] => i = j
        /\ item \in Items /\ h.child[p] = IF Len(s) = 0 THEN NULL ELSE s[1]
        /\ s[1] \in Items
    BY ONLY <2>1, <2>2, ListFacts
  <2> QED BY <1>2, <2>1, <2>3
<1>4. item \in ToSet(s)
  BY <1>1, MemberFacts
<1>5. /\ IsList(g, p, t) /\ g.next[item] = NULL /\ g.prev[item] = NULL
      /\ OnlyTouches(h, g, p, ToSet(s) \cup {new})
  <2> DEFINE U == ToSet(s) \cup {new}
  <2>1. /\ IsHeap(h) /\ p \in Items /\ IsList(h, p, s) /\ k \in 1..Len(s) /\ item = s[k]
        /\ new \in Items /\ new # p /\ new \notin ToSet(s) /\ U = ToSet(s) \cup {new}
        /\ g = ReplaceLinks(h, p, item, new) /\ PutAt(s, k, new, t)
    BY <1>1, <1>3
  <2> HIDE DEF U
  <2>2. InPlace(h, g, p, item, t, U)
    BY ONLY <2>1, ReplaceInList
  <2> QED BY <2>2 DEF U, InPlace
<1>6. Relinked(h, g)
  BY <1>1, <1>3, ReplaceRelinks
<1>7. t \in Seq(Items) /\ ToSet(t) = (ToSet(s) \ {item}) \cup {new}
  <2>1. /\ s \in Seq(Items) /\ (\A i, j \in 1..Len(s) : s[i] = s[j] => i = j)
        /\ k \in 1..Len(s) /\ new \in Items
    BY <1>1, <1>3
  <2>2. /\ [s EXCEPT ![k] = new] \in Seq(Items)
        /\ ToSet([s EXCEPT ![k] = new]) = (ToSet(s) \ {s[k]}) \cup {new}
    BY ONLY <2>1, ReplaceMembers
  <2> QED BY <2>2 DEF PutAt
<1>8. HeapInv(g, [L EXCEPT ![p] = t], Q, {})
  <2> DEFINE In == {new}
             Out == {item}
             O == {}
  <2>1. /\ In \in SUBSET R /\ Out \in SUBSET ToSet(L[p]) /\ HeapInv(h, L, R, O)
        /\ OnlyTouches(h, g, p, ToSet(L[p]) \cup In) /\ ToSet(t) = (ToSet(L[p]) \ Out) \cup In
        /\ \A i \in Out : g.next[i] = NULL /\ g.prev[i] = NULL
        /\ In \subseteq T /\ p \notin T
        /\ IF p \in O THEN IsOpen(g, p, t) ELSE IsList(g, p, t)
        /\ \A q \in Items \ {p} : q \in O <=> q \in O
    BY <1>2, <1>4, <1>5, <1>7 DEF Stands
  <2>2. Q = (R \ In) \cup Out
    OBVIOUS
  <2> HIDE DEF T, In, Out, O
  <2>3. HeapInv(g, [L EXCEPT ![p] = t], (R \ In) \cup Out, O)
    BY <1>2, <1>6, <1>7, <2>1, RelinkKeeps
  <2> QED BY <2>2, <2>3 DEF O
<1>9. \A q \in Items \ {p} : g.child[q] = h.child[q]
  BY <1>5 DEF OnlyTouches
<1>10. M = [L EXCEPT ![p] = t]
  BY DEF Relisted
<1> QED BY <1>6, <1>8, <1>9, <1>10 DEF Stands, Relists
---------------------------------------------------------------------------
(* Objects. *)

\* A name is a string that is there.
LEMMA NoNameIsNull == NULL \notin Names
BY TreeAssumption DEF Names

\* What changes when an item gets a name.
Named(k, item, name, v, C, f) ==
    f = [k EXCEPT !.strings = v, !.key[item] = name, !.const = C]

\* The fields of a heap with another name for one item.
LEMMA NameFields ==
  ASSUME NEW k \in AnyHeap, NEW item \in Items, NEW name \in Names \cup {NULL},
         NEW v \in Int, NEW C \in SUBSET Items, NEW f, Named(k, item, name, v, C, f)
  PROVE  /\ f \in AnyHeap
         /\ f.live = k.live /\ f.ref = k.ref /\ f.const = C /\ f.sound = k.sound
         /\ f.next = k.next /\ f.prev = k.prev /\ f.child = k.child /\ f.text = k.text
         /\ f.strings = v /\ f.ret = k.ret /\ f.key = [k.key EXCEPT ![item] = name]
BY DEF AnyHeap, Named

\* The name of an item is set to a copied string, a constant one or none.
NameSet(h, k, item, name, C, f) ==
    f = [k EXCEPT !.strings = IF OwnsKey(h, item) THEN @ - 1 ELSE @,
                  !.key[item] = name, !.const = C]

IsNamed(h, L, R, item, name, k, C, f) ==
    /\ Stands(f, L, R) /\ Renamed(h, f, item)
    /\ f.ret = k.ret /\ f.const = C /\ f.key[item] = name

\* The heap stands for what it stood for when a root gets another name.
LEMMA NameIsSet ==
  ASSUME NEW h, NEW L, NEW R, Stands(h, L, R), NEW item \in R, NEW name \in Names \cup {NULL},
         NEW own \in BOOLEAN, NEW k, IF own THEN Spare(h, k) ELSE SameItems(h, k),
         NEW C \in SUBSET h.live, \A i \in Items : i # item => (i \in C <=> i \in h.const),
         own <=> item \notin C /\ name # NULL,
         NEW f, NameSet(h, k, item, name, C, f)
  PROVE  IsNamed(h, L, R, item, name, k, C, f)
<1>1. h \in AnyHeap /\ item \in Items /\ item \in h.live /\ h.live \in SUBSET Items
  BY StandsFacts
<1>2. /\ h.strings \in Int /\ h.key \in [Items -> Names \cup {NULL}]
  BY <1>1, AnyHeapTypes
<1> DEFINE d == IF OwnsKey(h, item) THEN 1 ELSE 0
<1>3. /\ k \in AnyHeap
      /\ k.live = h.live /\ k.ref = h.ref /\ k.const = h.const /\ k.sound = h.sound
      /\ k.next = h.next /\ k.prev = h.prev /\ k.child = h.child
      /\ k.text = h.text /\ k.key = h.key
      /\ k.strings = h.strings + (IF own THEN 1 ELSE 0)
  BY <1>2 DEF Spare, SameItems
<1>4. f = [k EXCEPT !.strings = k.strings - d, !.key[item] = name, !.const = C]
  <2>1. k.strings \in Int
    BY <1>3, AnyHeapTypes
  <2>2. (IF OwnsKey(h, item) THEN k.strings - 1 ELSE k.strings) = k.strings - d
    BY <2>1
  <2>3. f = [k EXCEPT !.strings = IF OwnsKey(h, item) THEN k.strings - 1 ELSE k.strings,
                      !.key[item] = name, !.const = C]
    BY <1>3 DEF AnyHeap, NameSet
  <2> QED BY <2>2, <2>3
<1>5. d \in Int
  OBVIOUS
<1> HIDE DEF d
<1>6. /\ f \in AnyHeap
      /\ f.live = k.live /\ f.ref = k.ref /\ f.const = C /\ f.sound = k.sound
      /\ f.next = k.next /\ f.prev = k.prev /\ f.child = k.child /\ f.text = k.text
      /\ f.strings = k.strings - d /\ f.ret = k.ret /\ f.key = [k.key EXCEPT ![item] = name]
  <2>1. k.strings - d \in Int /\ C \in SUBSET Items
    <3>1. k.strings \in Int
      BY <1>3, AnyHeapTypes
    <3> QED BY <1>1, <1>5, <3>1
  <2> DEFINE v == k.strings - d
  <2> HIDE DEF v
  <2>2. Named(k, item, name, v, C, f) /\ v \in Int
    BY <1>4, <2>1 DEF v, Named
  <2>3. /\ f \in AnyHeap
        /\ f.live = k.live /\ f.ref = k.ref /\ f.const = C /\ f.sound = k.sound
        /\ f.next = k.next /\ f.prev = k.prev /\ f.child = k.child /\ f.text = k.text
        /\ f.strings = v /\ f.ret = k.ret /\ f.key = [k.key EXCEPT ![item] = name]
    BY <1>1, <1>3, <2>1, <2>2, NameFields
  <2> QED BY <2>3 DEF v
<1>7. f.key[item] = name /\ \A i \in Items : i # item => f.key[i] = h.key[i]
  BY <1>1, <1>2, <1>3, <1>6
<1>8. OwnsKey(f, item) <=> own
  BY <1>6, <1>7 DEF OwnsKey
<1>9. f.strings = h.strings + (IF OwnsKey(f, item) THEN 1 ELSE 0)
                            - (IF OwnsKey(h, item) THEN 1 ELSE 0)
  BY <1>2, <1>3, <1>6, <1>8 DEF d
<1>10. Renamed(h, f, item)
  BY <1>3, <1>6, <1>7, <1>9 DEF Renamed
<1>11. Stands(f, L, R)
  <2>1. HeapInv(h, L, R, {})
    BY DEF Stands
  <2> DEFINE O == {}
  <2> HIDE DEF O
  <2>2. HeapInv(h, L, R, O)
    BY <2>1 DEF O
  <2>3. HeapInv(f, L, R, O)
    BY <1>1, <1>10, <2>2, RenameKeeps
  <2> QED BY <2>3 DEF O, Stands
<1> QED BY <1>6, <1>7, <1>10, <1>11 DEF IsNamed

\* item is the last member of p, or was not added.
GetsNamed(h, g, L, p, item, Q) ==
    \/ g.ret = NULL /\ SameItems(h, g)
    \/ g.ret = TRUE /\ g.ret # NULL /\ Stands(g, Added(L, p, item), Q)

\* A root gets a name and becomes the last member; if the name cannot be
\* copied, nothing changes.
LEMMA AddToObjectStands ==
  ASSUME NEW h, NEW L, NEW R, Stands(h, L, R), NEW p \in h.live \ h.ref,
         NEW item \in R, p \notin Tree(L, item), NEW name \in Names, NEW constant \in BOOLEAN,
         NEW g, g = add_item_to_object(h, p, name, item, constant), NEW Q, Q = R \ {item}
  PROVE  GetsNamed(h, g, L, p, item, Q)
<1> DEFINE named == IF constant THEN Ret(h, TRUE) ELSE cJSON_strdup(h)
           C == IF constant THEN h.const \cup {item} ELSE h.const \ {item}
           f == [named EXCEPT !.strings = IF OwnsKey(h, item) THEN @ - 1 ELSE @,
                              !.key[item] = name, !.const = C]
           own == ~constant
<1>1. /\ item \in Items /\ item # NULL /\ p # NULL /\ p # item /\ p \in Items
      /\ h \in AnyHeap /\ L \in [Items -> Seq(Items)] /\ h.const \subseteq h.live /\ item \in h.live
  <2>1. p \in Items /\ item \in Items /\ L \in [Items -> Seq(Items)]
    BY StandsFacts
  <2>2. item \in Tree(L, item)
    BY <2>1, TreeFacts
  <2> QED BY <2>1, <2>2, StandsFacts, ItemsAssumption
<1>2. \/ named.ret = NULL /\ SameItems(h, named) /\ own
      \/ named.ret # NULL /\ (IF own THEN Spare(h, named) ELSE SameItems(h, named))
  <2>1. CASE constant
    BY <1>1, <2>1, RetFacts, TreeAssumption
  <2>2. CASE ~constant
    <3>1. named = cJSON_strdup(h)
      BY <2>2
    <3> HIDE DEF named
    <3> QED BY <1>1, <2>2, <3>1, StrdupFacts
  <2> QED BY <2>1, <2>2
<1>3. g = IF named.ret = NULL THEN named
          ELSE add_item_to_array([named EXCEPT
                 !.strings = IF OwnsKey(h, item) THEN @ - 1 ELSE @, !.key[item] = name,
                 !.const = IF constant THEN @ \cup {item} ELSE @ \ {item}], p, item)
  BY <1>1 DEF add_item_to_object
<1> HIDE DEF named
<1>4. CASE named.ret = NULL
  <2>1. g.ret = NULL /\ SameItems(h, g)
    BY <1>2, <1>3, <1>4
  <2> QED BY <2>1 DEF GetsNamed
<1>5. CASE named.ret # NULL
  <2>1. IF own THEN Spare(h, named) ELSE SameItems(h, named)
    BY <1>2, <1>5
  <2>2. named \in AnyHeap /\ named.const = h.const
    BY <2>1 DEF Spare, SameItems
  <2>3. g = add_item_to_array(f, p, item)
    BY <1>3, <1>5, <2>2 DEF AnyHeap
  <2>4. /\ C \in SUBSET h.live /\ \A i \in Items : i # item => (i \in C <=> i \in h.const)
        /\ own <=> item \notin C /\ name # NULL
    BY <1>1, NoNameIsNull
  <2>5. own \in BOOLEAN /\ name \in Names \cup {NULL}
    OBVIOUS
  <2>6. NameSet(h, named, item, name, C, f)
    BY DEF NameSet
  <2> HIDE DEF f, C, own
  <2>7. Stands(f, L, R) /\ Renamed(h, f, item)
    <3>1. IsNamed(h, L, R, item, name, named, C, f)
      BY <2>1, <2>4, <2>5, <2>6, NameIsSet
    <3> QED BY <3>1 DEF IsNamed
  <2>8. p \in f.live \ f.ref
    BY <2>7 DEF Renamed
  <2>9. g.ret = TRUE /\ Stands(g, Added(L, p, item), Q)
    BY <2>3, <2>7, <2>8, AddStands
  <2> QED BY <2>9, TreeAssumption DEF GetsNamed
<1> QED BY <1>4, <1>5

\* One of the calls that make an item and add it to the list of p.
AddsNew(h, g, L, R, p) ==
    IF g.ret = NULL THEN Stands(g, L, R)
    ELSE \E n \in Items \ h.live : Stands(g, Added(L, p, n), R)

\* A new item is the end of its own tree.
LEMMA NewIsLeaf ==
  ASSUME NEW h, NEW L, NEW R, Stands(h, L, R), NEW n \in Items \ h.live
  PROVE  L[n] = <<>> /\ Tree(L, n) = {n} /\ n \notin R
<1>1. L[n] = <<>> /\ L \in [Items -> Seq(Items)] /\ R \subseteq h.live
  BY StandsFacts
<1> QED BY <1>1, LeafTree

\* With a tree that was made, the heap stands for one root more.
LEMMA MadeStands ==
  ASSUME NEW h, NEW L, NEW R, Stands(h, L, R), NEW f, NEW n, NEW M,
         IsMade(h, L, R, {}, f, n, M), NEW Q, Q = R \cup {n}
  PROVE  /\ Stands(f, M, Q) /\ n \in Items \ h.live /\ n \in Q /\ n # NULL /\ f \in AnyHeap
         /\ h.live \subseteq f.live /\ f.ref = h.ref
<1>1. HeapInv(f, M, R \cup {n}, {}) /\ Grown(h, L, f, M, n)
  BY DEF IsMade
<1>2. Stands(f, M, Q)
  BY <1>1 DEF Stands
<1>3. n \in f.live \ h.live /\ h.live \subseteq f.live /\ f.ref = h.ref
  BY <1>1 DEF Grown
<1>4. f \in AnyHeap /\ f.live \in SUBSET Items
  BY <1>2, StandsFacts
<1> QED BY <1>2, <1>3, <1>4, ItemsAssumption

\* When nothing was made, it stands for what it stood for.
LEMMA UndoneStands ==
  ASSUME NEW h, NEW L, NEW R, NEW g, Undone(h, g, L, R, {})
  PROVE  Stands(g, L, R)
BY DEF Undone, Stands

\* cJSON_AddNullToObject and the eight like it.
LEMMA AddNewStands ==
  ASSUME NEW h, NEW L, NEW R, Stands(h, L, R), NEW p \in h.live \ h.ref,
         NEW name \in Names, NEW string \in BOOLEAN,
         NEW g, g = cJSON_AddNewToObject(h, p, name, string)
  PROVE  AddsNew(h, g, L, R, p)
<1> DEFINE new == Create(h, string)
           n == new.ret
           added == add_item_to_object(new, p, name, n, FALSE)
           O == {}
<1>1. g = IF added.ret = NULL THEN Ret(cJSON_Delete(added, n), NULL) ELSE Ret(added, n)
  BY DEF cJSON_AddNewToObject
<1>2. new = Create(h, string) /\ n = new.ret /\ added = add_item_to_object(new, p, name, n, FALSE)
  OBVIOUS
<1>3. HeapInv(h, L, R, O) /\ O = {}
  BY DEF Stands
<1> HIDE DEF new, n, added, O
<1>4. MakesOne(h, new, L, R, O)
  BY <1>2, <1>3, CreateMakesOne
<1>5. CASE n = NULL
  <2>1. Undone(h, new, L, R, O)
    BY <1>2, <1>4, <1>5 DEF MakesOne
  <2>2. Stands(new, L, R)
    BY <1>3, <2>1, UndoneStands
  <2>3. new \in AnyHeap
    BY <2>2, StandsFacts
  <2>4. added = Ret(new, NULL)
    BY <1>2, <1>5 DEF add_item_to_object
  <2>5. SameItems(new, added) /\ added.ret = NULL /\ added \in AnyHeap
    <3>1. SameItems(new, added) /\ added.ret = NULL
      BY <2>3, <2>4, RetFacts
    <3> QED BY <3>1 DEF SameItems
  <2>6. g = Ret(added, NULL)
    BY <1>1, <1>5, <2>5 DEF cJSON_Delete
  <2>7. SameItems(added, g) /\ g.ret = NULL
    BY <2>5, <2>6, RetFacts
  <2>8. Stands(g, L, R)
    BY <2>2, <2>5, <2>7, SameItemsStand
  <2> QED BY <2>7, <2>8 DEF AddsNew
<1>6. CASE n # NULL
  <2> DEFINE Q == R \cup {n}
  <2>1. IsMade(h, L, R, O, new, n, L)
    BY <1>2, <1>4, <1>6 DEF MakesOne
  <2>2. /\ Stands(new, L, Q) /\ n \in Items \ h.live /\ n \in Q
        /\ h.live \subseteq new.live /\ new.ref = h.ref
    BY <1>3, <2>1, MadeStands
  <2>3. p \in new.live \ new.ref /\ p \notin Tree(L, n) /\ n \notin R
    <3>1. Tree(L, n) = {n} /\ n \notin R
      BY <2>2, NewIsLeaf
    <3> QED BY <2>2, <3>1
  <2>4. Q \ {n} = R
    BY <2>3
  <2> HIDE DEF Q
  <2>5. \/ added.ret = NULL /\ SameItems(new, added)
        \/ added.ret # NULL /\ Stands(added, Added(L, p, n), R)
    <3> DEFINE constant == FALSE
    <3>1. constant \in BOOLEAN /\ R = Q \ {n} /\ added = add_item_to_object(new, p, name, n, constant)
      BY <1>2, <2>4
    <3> HIDE DEF constant
    <3>2. Stands(new, L, Q) /\ n \in Q
      BY <2>2
    <3>3. p \in new.live \ new.ref /\ p \notin Tree(L, n)
      BY <2>3
    <3>4. GetsNamed(new, added, L, p, n, R)
      BY ONLY <3>1, <3>2, <3>3, name \in Names, AddToObjectStands
    <3> QED BY <3>4 DEF GetsNamed
  <2>6. CASE added.ret = NULL
    <3>1. SameItems(new, added)
      BY <2>5, <2>6 DEF SameItems
    <3>2. IsMade(h, L, R, O, added, n, L)
      BY <2>1, <3>1, SameItemsAreMade
    <3>3. g = Ret(cJSON_Delete(added, n), NULL)
      BY <1>1, <2>6
    <3>4. Undone(h, g, L, R, O) /\ g.ret = NULL
      BY <1>3, <3>2, <3>3, UndoMade
    <3>5. Stands(g, L, R)
      BY <1>3, <3>4, UndoneStands
    <3> QED BY <3>4, <3>5 DEF AddsNew
  <2>7. CASE added.ret # NULL
    <3>1. Stands(added, Added(L, p, n), R) /\ g = Ret(added, n)
      BY <1>1, <2>5, <2>7
    <3>2. added \in AnyHeap
      BY <3>1, StandsFacts
    <3>3. SameItems(added, g) /\ g.ret = n
      <4>1. n \in Items /\ g = Ret(added, n)
        BY <2>2, <3>1
      <4> QED BY <3>2, <4>1, RetFacts
    <3>4. Stands(g, Added(L, p, n), R)
      BY <3>1, <3>3, SameItemsStand
    <3> QED BY <1>6, <2>2, <3>3, <3>4 DEF AddsNew
  <2> QED BY <2>6, <2>7
<1> QED BY <1>5, <1>6
---------------------------------------------------------------------------
(* References. *)

\* The new item n of f is made a reference to what c and t lead to.
Refers(f, g, n, c, t) ==
    /\ g \in AnyHeap /\ g.ret = f.ret
    /\ g.live = f.live /\ g.ref = f.ref \cup {n} /\ g.const \subseteq f.live
    /\ \A i \in Items : i # n => (i \in g.const <=> i \in f.const)
    /\ g.strings = f.strings /\ g.sound = f.sound
    /\ g.next = f.next /\ g.prev = f.prev /\ g.key = f.key
    /\ g.child = [f.child EXCEPT ![n] = c] /\ g.text = [f.text EXCEPT ![n] = t]

ReferTo(f, n, c, t, r, C, g) ==
    g = [f EXCEPT !.child[n] = c, !.text[n] = t, !.ref = r, !.const = C]

\* The fields of a heap with a new reference.
LEMMA ReferToFacts ==
  ASSUME NEW f \in AnyHeap, NEW n \in Items, NEW c \in Items \cup {NULL},
         NEW t \in Items \cup {NULL}, NEW r \in SUBSET Items, r = f.ref \cup {n},
         NEW C \in SUBSET f.live, \A i \in Items : i # n => (i \in C <=> i \in f.const),
         NEW g, ReferTo(f, n, c, t, r, C, g)
  PROVE  Refers(f, g, n, c, t)
<1>1. C \in SUBSET Items
  BY AnyHeapTypes
<1>2. /\ g \in AnyHeap /\ g.ret = f.ret
      /\ g.live = f.live /\ g.ref = r /\ g.const = C
      /\ g.strings = f.strings /\ g.sound = f.sound
      /\ g.next = f.next /\ g.prev = f.prev /\ g.key = f.key
      /\ g.child = [f.child EXCEPT ![n] = c] /\ g.text = [f.text EXCEPT ![n] = t]
  BY <1>1 DEF AnyHeap, ReferTo
<1> QED BY <1>2 DEF Refers

\* An item that becomes a reference has no list of its own.
LEMMA RefersShape ==
  ASSUME NEW f, NEW L, NEW Q, NEW O, Shape(f, L, Q, O), f \in AnyHeap, NEW n \in f.live,
         L[n] = <<>>, NEW c, NEW t, NEW g, Refers(f, g, n, c, t)
  PROVE  Shape(g, L, Q, O)
<1>1. /\ f.live \in SUBSET Items /\ n \in Items /\ f.child \in [Items -> Items \cup {NULL}]
      /\ g.live = f.live /\ g.ref = f.ref \cup {n} /\ g.const \subseteq f.live
      /\ g.next = f.next /\ g.prev = f.prev /\ \A p \in Items : p # n => g.child[p] = f.child[p]
  BY AnyHeapTypes DEF Refers
<1>2. ASSUME NEW p \in g.live \ g.ref
      PROVE  IF p \in O THEN IsOpen(g, p, L[p]) ELSE IsList(g, p, L[p])
  <2>1. p \in f.live \ f.ref /\ p # n /\ p \in Items /\ g.child[p] = f.child[p]
    BY <1>1, <1>2
  <2>2. IF p \in O THEN IsOpen(f, p, L[p]) ELSE IsList(f, p, L[p])
    BY <2>1 DEF Shape
  <2>3. IsOpen(f, p, L[p]) => IsOpen(g, p, L[p])
    BY <1>1, <2>1 DEF IsOpen
  <2>4. IsList(f, p, L[p]) => IsList(g, p, L[p])
    BY <1>1, <2>1 DEF IsList
  <2> QED BY <2>2, <2>3, <2>4
<1>3. \A p \in Items : p \notin g.live \ g.ref => L[p] = <<>>
  BY <1>1 DEF Shape
<1>4. \A i \in Items : ~IsMember(L, i) => g.next[i] = NULL /\ g.prev[i] = NULL
  BY <1>1 DEF Shape
<1> QED BY <1>1, <1>2, <1>3, <1>4 DEF Shape

\* What a reference leads to is there, and the reference does not own it.
LEMMA RefersMemory ==
  ASSUME NEW f \in AnyHeap, Memory(f), NEW n \in f.live \ f.ref, f.key[n] = NULL, f.text[n] = NULL,
         NEW c \in f.live \cup {NULL}, NEW t \in f.live \cup {NULL}, NEW g, Refers(f, g, n, c, t)
  PROVE  Memory(g)
<1>1. /\ f.live \in SUBSET Items /\ n \in Items
      /\ f.child \in [Items -> Items \cup {NULL}] /\ f.text \in [Items -> Items \cup {NULL}]
  BY AnyHeapTypes
<1>2. /\ g.live = f.live /\ g.ref = f.ref \cup {n} /\ g.key = f.key
      /\ g.strings = f.strings /\ g.sound = f.sound
      /\ \A i \in Items : i # n => (i \in g.const <=> i \in f.const)
      /\ g.child[n] = c /\ g.text[n] = t
      /\ \A i \in Items : i # n => g.child[i] = f.child[i] /\ g.text[i] = f.text[i]
  BY <1>1 DEF Refers
<1>3. \A i \in Items : i \notin g.live => g.child[i] = NULL /\ g.key[i] = NULL /\ g.text[i] = NULL
  BY <1>2 DEF Memory
<1>4. \A i \in g.live : g.child[i] \in g.live \cup {NULL} /\ g.text[i] \in g.live \cup {NULL}
  BY <1>1, <1>2 DEF Memory
<1>5. \A i \in g.live \ g.ref : g.text[i] \in {NULL, i}
  BY <1>1, <1>2 DEF Memory
<1>6. \A i \in Items : (OwnsKey(g, i) <=> OwnsKey(f, i)) /\ (OwnsText(g, i) <=> OwnsText(f, i))
  BY <1>2 DEF OwnsKey, OwnsText
<1>7. /\ {i \in g.live : OwnsKey(g, i)} = {i \in f.live : OwnsKey(f, i)}
      /\ {i \in g.live : OwnsText(g, i)} = {i \in f.live : OwnsText(f, i)}
  BY <1>1, <1>2, <1>6
<1>8. g.strings = Strings(g)
  BY <1>2, <1>7 DEF Memory, Strings
<1> QED BY <1>2, <1>3, <1>4, <1>5, <1>8 DEF Memory

\* A new reference that its caller holds.
IsReference(h, g, L, Q, n) ==
    /\ Stands(g, L, Q) /\ n \in Items \ h.live /\ n \in Q /\ L[n] = <<>>
    /\ g.ret = n /\ g.key[n] = NULL /\ n \in g.ref
    /\ g.live = h.live \cup {n} /\ g.ref = h.ref \cup {n}

\* A new item that becomes a reference stays a root.
LEMMA RefersStands ==
  ASSUME NEW h, NEW L, NEW R, Stands(h, L, R), NEW f, f = cJSON_New_Item(h),
         NEW n, n = f.ret, n # NULL, NEW Q, Q = R \cup {n},
         NEW c \in h.live \cup {NULL}, NEW t \in h.live \cup {NULL}, NEW g, Refers(f, g, n, c, t)
  PROVE  IsReference(h, g, L, Q, n)
<1> DEFINE O == {}
<1>1. HeapInv(h, L, R, O) /\ O = {}
  BY DEF Stands
<1> HIDE DEF O
<1>2. Allocated(h, f, n) /\ L[n] = <<>>
  BY <1>1, NewItemIsBlank
<1>3. IsMade(h, L, R, O, f, n, L)
  BY <1>1, NewItemIsMade
<1>4. HeapInv(f, L, Q, O) /\ f \in AnyHeap
  BY <1>3 DEF IsMade, HeapInv
<1>5. /\ n \in Items \ h.live /\ f.live = h.live \cup {n} /\ f.ref = h.ref
      /\ f.key[n] = NULL /\ f.text[n] = NULL
  BY <1>2 DEF Allocated
<1>6. n \in f.live \ f.ref
  BY <1>1, <1>5, HeapFacts
<1>7. Shape(f, L, Q, O) /\ Memory(f) /\ Kept(f, L, Q)
  BY <1>4 DEF HeapInv
<1>8. Shape(g, L, Q, O)
  BY <1>2, <1>4, <1>6, <1>7, RefersShape
<1>9. c \in f.live \cup {NULL} /\ t \in f.live \cup {NULL}
  BY <1>5
<1>10. Memory(g)
  BY <1>4, <1>5, <1>6, <1>7, <1>9, RefersMemory
<1>11. g \in AnyHeap /\ g.live = f.live /\ g.ref = f.ref \cup {n} /\ g.key = f.key /\ g.ret = f.ret
  BY DEF Refers
<1>12. Kept(g, L, Q)
  BY <1>7, <1>11 DEF Kept
<1>13. Stands(g, L, Q)
  BY <1>1, <1>8, <1>10, <1>11, <1>12 DEF Stands, HeapInv
<1> QED BY <1>2, <1>5, <1>11, <1>13 DEF IsReference

\* A reference without a name is lost without harm to the rest.
LEMMA LoseStands ==
  ASSUME NEW h, NEW L, NEW Q, Stands(h, L, Q), NEW n \in Q, n \in h.ref, h.key[n] = NULL,
         NEW R, R = Q \ {n}
  PROVE  Stands(h, L, R)
<1>1. h \in AnyHeap /\ Shape(h, L, Q, {}) /\ Memory(h) /\ Kept(h, L, Q)
  BY DEF Stands, HeapInv
<1>2. Shape(h, L, R, {})
  BY <1>1 DEF Shape
<1>3. Kept(h, L, R)
  BY <1>1 DEF Kept
<1> QED BY <1>1, <1>2, <1>3 DEF Stands, HeapInv
\* A new reference, or nothing.
Refering(h, g, L, R) ==
    IF g.ret = NULL THEN SameItems(h, g)
    ELSE \E n, Q : Q = R \cup {n} /\ IsReference(h, g, L, Q, n)

\* When there is no new item, nothing has changed.
LEMMA NoNewItem ==
  ASSUME NEW h, NEW L, NEW R, Stands(h, L, R), NEW f, f = cJSON_New_Item(h), f.ret = NULL
  PROVE  SameItems(h, f)
<1> DEFINE O == {}
<1>1. HeapInv(h, L, R, O)
  BY DEF Stands
<1>2. h \in AnyHeap
  BY StandsFacts
<1> HIDE DEF O
<1>3. ~Allocated(h, f, f.ret)
  BY ItemsAssumption DEF Allocated
<1>4. f = Ret(h, NULL)
  BY <1>1, <1>3, NewItemFacts
<1> QED BY <1>2, <1>4, RetFacts

\* cJSON_CreateArrayReference() makes a reference, or nothing.
LEMMA ArrayReferenceRefers ==
  ASSUME NEW h, NEW L, NEW R, Stands(h, L, R), NEW child \in h.live \cup {NULL},
         NEW g, g = cJSON_CreateArrayReference(h, child)
  PROVE  Refering(h, g, L, R)
<1> DEFINE f == cJSON_New_Item(h)
           n == f.ret
           t == NULL
<1>1. f = cJSON_New_Item(h) /\ n = f.ret /\ t \in h.live \cup {NULL}
  OBVIOUS
<1>2. g = IF n = NULL THEN f ELSE [f EXCEPT !.ref = @ \cup {n}, !.child[n] = child]
  BY DEF cJSON_CreateArrayReference
<1>3. t = NULL
  OBVIOUS
<1> HIDE DEF f, n, t
<1>4. CASE n = NULL
  <2>1. SameItems(h, f)
    BY <1>1, <1>4, NoNewItem
  <2> QED BY <1>1, <1>2, <1>4, <2>1 DEF Refering
<1>5. CASE n # NULL
  <2> DEFINE O == {}
             Q == R \cup {n}
  <2>1. HeapInv(h, L, R, O)
    BY DEF Stands
  <2>2. Q = R \cup {n}
    OBVIOUS
  <2> HIDE DEF O, Q
  <2>3. Allocated(h, f, n) /\ IsMade(h, L, R, O, f, n, L)
    BY <1>1, <1>5, <2>1, NewItemIsBlank, NewItemIsMade
  <2>4. f \in AnyHeap /\ n \in f.live /\ n \in Items /\ f.text[n] = NULL /\ f.const \subseteq f.live
    <3>1. f \in AnyHeap /\ f.const \subseteq f.live
      BY <2>1, <2>3, MadeFacts
    <3> QED BY <2>3, <3>1 DEF Allocated
  <2>5. Refers(f, g, n, child, t)
    <3> DEFINE r == f.ref \cup {n}
               C == f.const
    <3>1. /\ child \in Items \cup {NULL} /\ t \in Items \cup {NULL} /\ r \in SUBSET Items
          /\ C \in SUBSET f.live /\ \A i \in Items : i # n => (i \in C <=> i \in f.const)
      BY <1>3, <2>4, AnyHeapTypes, StandsFacts
    <3>2. g = [f EXCEPT !.child[n] = child, !.text[n] = t, !.ref = r, !.const = C]
      <4>1. g = [f EXCEPT !.ref = r, !.child[n] = child]
        BY <1>2, <1>5, <2>4 DEF AnyHeap
      <4>2. f.text = [f.text EXCEPT ![n] = t]
        BY <1>3, <2>4, AnyHeapTypes
      <4> QED BY <2>4, <4>1, <4>2, ZenonT(60) DEF AnyHeap
    <3>3. r = f.ref \cup {n} /\ f \in AnyHeap /\ n \in Items
      BY <2>4
    <3>4. ReferTo(f, n, child, t, r, C, g)
      BY <3>2 DEF ReferTo
    <3> HIDE DEF r, C
    <3> QED BY ONLY <3>1, <3>3, <3>4, ReferToFacts
  <2>6. IsReference(h, g, L, Q, n)
    BY <1>1, <1>5, <2>2, <2>5, RefersStands
  <2>7. g.ret # NULL
    BY <1>5, <2>6 DEF IsReference
  <2> QED BY <2>2, <2>6, <2>7 DEF Refering
<1> QED BY <1>4, <1>5

\* create_reference() makes one to an item that is there, or nothing.
LEMMA CreateReferenceRefers ==
  ASSUME NEW h, NEW L, NEW R, Stands(h, L, R), NEW item \in h.live,
         NEW g, g = create_reference(h, item)
  PROVE  Refering(h, g, L, R)
<1> DEFINE f == cJSON_New_Item(h)
           n == f.ret
           c == h.child[item]
           t == h.text[item]
<1>1. f = cJSON_New_Item(h) /\ n = f.ret
  OBVIOUS
<1>2. c \in h.live \cup {NULL} /\ t \in h.live \cup {NULL} /\ item # NULL
  <2>1. Memory(h) /\ item \in Items
    BY StandsFacts
  <2> QED BY <2>1, ItemsAssumption DEF Memory
<1>3. g = IF n = NULL THEN f
          ELSE [f EXCEPT !.child[n] = c, !.text[n] = t, !.ref = @ \cup {n},
                         !.const = IF item \in @ THEN @ \cup {n} ELSE @]
  BY <1>2 DEF create_reference
<1> HIDE DEF f, n, c, t
<1>4. CASE n = NULL
  <2>1. SameItems(h, f)
    BY <1>1, <1>4, NoNewItem
  <2> QED BY <1>1, <1>3, <1>4, <2>1 DEF Refering
<1>5. CASE n # NULL
  <2> DEFINE O == {}
             Q == R \cup {n}
             C == IF item \in f.const THEN f.const \cup {n} ELSE f.const
  <2>1. HeapInv(h, L, R, O)
    BY DEF Stands
  <2>2. Q = R \cup {n}
    OBVIOUS
  <2> HIDE DEF O, Q
  <2>3. Allocated(h, f, n) /\ IsMade(h, L, R, O, f, n, L)
    BY <1>1, <1>5, <2>1, NewItemIsBlank, NewItemIsMade
  <2>4. f \in AnyHeap /\ n \in f.live /\ n \in Items /\ f.const \subseteq f.live
    <3>1. f \in AnyHeap /\ f.const \subseteq f.live
      BY <2>1, <2>3, MadeFacts
    <3> QED BY <2>3, <3>1 DEF Allocated
  <2>5. Refers(f, g, n, c, t)
    <3> DEFINE r == f.ref \cup {n}
    <3>1. /\ c \in Items \cup {NULL} /\ t \in Items \cup {NULL} /\ r \in SUBSET Items
      BY <1>2, <2>4, AnyHeapTypes, StandsFacts
    <3>2. C \in SUBSET f.live /\ \A i \in Items : i # n => (i \in C <=> i \in f.const)
      BY <2>4
    <3>3. g = [f EXCEPT !.child[n] = c, !.text[n] = t, !.ref = r, !.const = C]
      BY <1>3, <1>5, <2>4 DEF AnyHeap
    <3>4. r = f.ref \cup {n} /\ f \in AnyHeap /\ n \in Items
      BY <2>4
    <3>5. ReferTo(f, n, c, t, r, C, g)
      BY <3>3 DEF ReferTo
    <3> HIDE DEF r, C
    <3> QED BY ONLY <3>1, <3>2, <3>4, <3>5, ReferToFacts
  <2>6. IsReference(h, g, L, Q, n)
    BY <1>1, <1>2, <1>5, <2>2, <2>5, RefersStands
  <2>7. g.ret # NULL
    BY <1>5, <2>6 DEF IsReference
  <2> QED BY <2>2, <2>6, <2>7 DEF Refering
<1> QED BY <1>4, <1>5

\* What a caller may add to a list of the heap as it was before.
LEMMA ReferenceMayJoin ==
  ASSUME NEW h, NEW L, NEW R, Stands(h, L, R), NEW p \in h.live \ h.ref,
         NEW g, NEW Q, NEW n, IsReference(h, g, L, Q, n)
  PROVE  Stands(g, L, Q) /\ n \in Q /\ p \in g.live \ g.ref /\ p \notin Tree(L, n) /\ n # NULL
<1>1. Stands(g, L, Q) /\ n \in Items \ h.live /\ n \in Q
      /\ g.live = h.live \cup {n} /\ g.ref = h.ref \cup {n}
  BY DEF IsReference
<1>2. Tree(L, n) = {n}
  BY <1>1, NewIsLeaf
<1>3. n # NULL
  BY <1>1, ItemsAssumption
<1> QED BY <1>1, <1>2, <1>3

\* cJSON_AddItemReferenceToArray() adds a new reference to the list, or does
\* nothing.
LEMMA ReferenceToArrayStands ==
  ASSUME NEW h, NEW L, NEW R, Stands(h, L, R), NEW p \in h.live \ h.ref, NEW item \in h.live,
         NEW g, g = cJSON_AddItemReferenceToArray(h, p, item)
  PROVE  AddsNew(h, g, L, R, p)
<1> DEFINE new == create_reference(h, item)
           m == new.ret
<1>1. new = create_reference(h, item) /\ m = new.ret
  OBVIOUS
<1>2. p # NULL
  BY StandsFacts, ItemsAssumption
<1>3. g = add_item_to_array(new, p, m)
  BY <1>2 DEF cJSON_AddItemReferenceToArray
<1> HIDE DEF new, m
<1>4. Refering(h, new, L, R)
  BY <1>1, CreateReferenceRefers
<1>5. CASE m = NULL
  <2>1. SameItems(h, new)
    BY <1>1, <1>4, <1>5 DEF Refering
  <2>2. Stands(new, L, R)
    BY <2>1, SameItemsStand
  <2>3. g = Ret(new, NULL) /\ new \in AnyHeap
    BY <1>3, <1>5, <2>1 DEF add_item_to_array, SameItems
  <2>4. SameItems(new, g) /\ g.ret = NULL
    BY <2>3, RetFacts
  <2>5. Stands(g, L, R)
    BY <2>2, <2>4, SameItemsStand
  <2> QED BY <2>4, <2>5 DEF AddsNew
<1>6. CASE m # NULL
  <2>1. PICK n, Q : Q = R \cup {n} /\ IsReference(h, new, L, Q, n)
    BY <1>1, <1>4, <1>6 DEF Refering
  <2>2. m = n /\ n \in Items \ h.live
    BY <1>1, <2>1 DEF IsReference
  <2>3. Stands(new, L, Q) /\ n \in Q /\ p \in new.live \ new.ref /\ p \notin Tree(L, n)
    BY <2>1, ReferenceMayJoin
  <2>4. R = Q \ {n}
    BY <2>1, <2>2, StandsFacts
  <2>5. g = add_item_to_array(new, p, n)
    BY <1>3, <2>2
  <2>6. g.ret = TRUE /\ Stands(g, Added(L, p, n), R)
    BY <2>3, <2>4, <2>5, AddStands
  <2>7. g.ret # NULL
    BY <2>6, TreeAssumption
  <2> QED BY <2>2, <2>6, <2>7 DEF AddsNew
<1> QED BY <1>5, <1>6

\* The reference that is lost when its name cannot be copied is the only harm done.
LEMMA ReferenceToObjectStands ==
  ASSUME NEW h, NEW L, NEW R, Stands(h, L, R), NEW p \in h.live \ h.ref, NEW item \in h.live,
         NEW name \in Names, NEW g, g = cJSON_AddItemReferenceToObject(h, p, name, item)
  PROVE  AddsNew(h, g, L, R, p)
<1> DEFINE new == create_reference(h, item)
           m == new.ret
           constant == FALSE
<1>1. new = create_reference(h, item) /\ m = new.ret /\ constant \in BOOLEAN
  OBVIOUS
<1>2. p # NULL
  BY StandsFacts, ItemsAssumption
<1>3. g = add_item_to_object(new, p, name, m, constant)
  BY <1>2 DEF cJSON_AddItemReferenceToObject
<1> HIDE DEF new, m, constant
<1>4. Refering(h, new, L, R)
  BY <1>1, CreateReferenceRefers
<1>5. CASE m = NULL
  <2>1. SameItems(h, new)
    BY <1>1, <1>4, <1>5 DEF Refering
  <2>2. Stands(new, L, R)
    BY <2>1, SameItemsStand
  <2>3. g = Ret(new, NULL) /\ new \in AnyHeap
    BY <1>3, <1>5, <2>1 DEF add_item_to_object, SameItems
  <2>4. SameItems(new, g) /\ g.ret = NULL
    BY <2>3, RetFacts
  <2>5. Stands(g, L, R)
    BY <2>2, <2>4, SameItemsStand
  <2> QED BY <2>4, <2>5 DEF AddsNew
<1>6. CASE m # NULL
  <2>1. PICK n, Q : Q = R \cup {n} /\ IsReference(h, new, L, Q, n)
    BY <1>1, <1>4, <1>6 DEF Refering
  <2>2. m = n /\ n \in Items \ h.live /\ n \in new.ref /\ new.key[n] = NULL
    BY <1>1, <2>1 DEF IsReference
  <2>3. Stands(new, L, Q) /\ n \in Q /\ p \in new.live \ new.ref /\ p \notin Tree(L, n)
    BY <2>1, ReferenceMayJoin
  <2>4. R = Q \ {n}
    BY <2>1, <2>2, StandsFacts
  <2>5. g = add_item_to_object(new, p, name, n, constant)
    BY <1>3, <2>2
  <2>6. \/ g.ret = NULL /\ SameItems(new, g)
        \/ g.ret = TRUE /\ g.ret # NULL /\ Stands(g, Added(L, p, n), R)
    <3>1. GetsNamed(new, g, L, p, n, R)
      BY ONLY <1>1, <2>3, <2>4, <2>5, name \in Names, AddToObjectStands
    <3> QED BY <3>1 DEF GetsNamed
  <2>7. CASE g.ret = NULL
    <3>1. SameItems(new, g)
      BY <2>6, <2>7
    <3>2. Stands(g, L, Q)
      BY <2>3, <3>1, SameItemsStand
    <3>3. n \in g.ref /\ g.key[n] = NULL
      BY <2>2, <3>1 DEF SameItems
    <3>4. Stands(g, L, R)
      BY <2>3, <2>4, <3>2, <3>3, LoseStands
    <3> QED BY <2>7, <3>4 DEF AddsNew
  <2>8. CASE g.ret # NULL
    BY <2>2, <2>6, <2>8 DEF AddsNew
  <2> QED BY <2>7, <2>8
<1> QED BY <1>5, <1>6
---------------------------------------------------------------------------
(* Deletion and replacement of members. *)

\* No reference that stays needs an item of D.
Unneeded(h, D) == \A r \in h.ref \ D : h.child[r] \notin D /\ h.text[r] \notin D

Removed(L, p, k, M) == M = Pruned([L EXCEPT ![p] = RemoveAt(@, k)], Tree(L, L[p][k]))
ReplacedBy(L, p, k, new, M) == M = Pruned([L EXCEPT ![p][k] = new], Tree(L, L[p][k]))

IsTree(L, i, D) == D = Tree(L, i)

\* A tree stays what it is when a list changes that belongs to none of its items.
LEMMA OtherTreeIsKept ==
  ASSUME NEW L \in [Items -> Seq(Items)], NEW p \in Items, NEW i \in Items, p \notin Tree(L, i),
         NEW s \in Seq(Items), NEW M, Relisted(L, p, s, M), NEW D, IsTree(L, i, D)
  PROVE  IsTree(M, i, D)
<1>1. M \in [Items -> Seq(Items)]
  BY DEF Relisted
<1>2. \A q \in Tree(L, i) : M[q] = L[q]
  BY TreeFacts DEF Relisted
<1>3. Tree(M, i) = Tree(L, i)
  BY <1>1, <1>2, TreeIsKept
<1> QED BY <1>3 DEF IsTree

\* A root whose tree no reference needs is deleted.
LEMMA DeleteStands ==
  ASSUME NEW h, NEW L, NEW R, Stands(h, L, R), NEW item \in R,
         NEW D, D = Tree(L, item), Unneeded(h, D), NEW g, g = cJSON_Delete(h, item),
         NEW Q, Q = R \ {item}, NEW M, M = Pruned(L, D)
  PROVE  Stands(g, M, Q) /\ g.ret = h.ret
<1> DEFINE O == {}
<1>1. HeapInv(h, L, R, O) /\ O = {}
  BY DEF Stands
<1> HIDE DEF O
<1>2. \A r \in h.ref \ Tree(L, item) :
         h.child[r] \notin Tree(L, item) /\ h.text[r] \notin Tree(L, item)
  BY DEF Unneeded
<1>3. HeapInv(g, Pruned(L, Tree(L, item)), R \ {item}, O) /\ g.ret = h.ret
  BY ONLY <1>1, <1>2, item \in R, g = cJSON_Delete(h, item), DeleteKeeps
<1>4. HeapInv(g, M, Q, O)
  BY <1>3
<1> QED BY <1>1, <1>3, <1>4 DEF Stands

\* A member is detached and deleted.
LEMMA DeleteMemberStands ==
  ASSUME NEW h, NEW L, NEW R, Stands(h, L, R), NEW p \in h.live \ h.ref,
         NEW s, s = L[p], NEW k \in 1..Len(s), NEW item, item = s[k],
         NEW D, D = Tree(L, item), Unneeded(h, D),
         NEW f, f = DetachItemViaPointer(h, p, item),
         NEW g, g = cJSON_Delete(f, f.ret), NEW M, Removed(L, p, k, M)
  PROVE  Stands(g, M, R) /\ g.ret # NULL
<1>1. /\ p \in Items /\ L \in [Items -> Seq(Items)] /\ Acyclic(L) /\ s \in Seq(Items)
      /\ ToSet(s) \subseteq h.live \ R /\ IsList(h, p, s)
  BY StandsFacts
<1>2. item \in ToSet(s)
  BY <1>1 DEF ToSet
<1>3. item \in Items /\ p \notin Tree(L, item) /\ item \notin R
  BY <1>1, <1>2, MembersAreBelow
<1> DEFINE Q == R \cup {item}
           t == RemoveAt(s, k)
           N == [L EXCEPT ![p] = t]
<1>4. t \in Seq(Items)
  <2>1. \A i, j \in 1..Len(s) : s[i] = s[j] => i = j
    BY <1>1 DEF IsList, Distinct
  <2> QED BY <1>1, <2>1, RemoveMembers
<1>5. item \in Q /\ R = Q \ {item} /\ Q = R \cup {item} /\ t = RemoveAt(s, k)
  BY <1>3
<1>6. Relisted(L, p, t, N)
  BY DEF Relisted
<1>7. M = Pruned(N, D)
  BY <1>1 DEF Removed
<1> HIDE DEF Q, t, N
<1>8. /\ f.ret = item /\ Stands(f, N, Q) /\ Relinked(h, f)
      /\ \A q \in Items \ {p} : f.child[q] = h.child[q]
  <2>1. Detaches(h, f, p, item, N, Q)
    BY <1>5, <1>6, DetachStands
  <2> QED BY <2>1 DEF Detaches, Relists
<1>9. Tree(N, item) = D
  <2>1. L \in [Items -> Seq(Items)] /\ p \in Items /\ item \in Items /\ p \notin Tree(L, item)
    BY <1>1, <1>3
  <2>2. IsTree(L, item, D)
    BY DEF IsTree
  <2>3. IsTree(N, item, D)
    BY ONLY <1>4, <1>6, <2>1, <2>2, OtherTreeIsKept
  <2> QED BY <2>3 DEF IsTree
<1>10. Unneeded(f, D)
  <2>1. f.ref = h.ref /\ f.text = h.text /\ \A r \in h.ref : f.child[r] = h.child[r]
    BY <1>1, <1>8, StandsFacts DEF Relinked
  <2> QED BY <2>1 DEF Unneeded
<1>11. g = cJSON_Delete(f, item)
  BY <1>8
<1>12. Stands(g, M, R) /\ g.ret = f.ret
  BY ONLY <1>5, <1>7, <1>8, <1>9, <1>10, <1>11, DeleteStands
<1> QED BY <1>3, <1>8, <1>12, ItemsAssumption

Replaces(g, M, Q) == Stands(g, M, Q) /\ g.ret = TRUE

\* cJSON_ReplaceItemViaPointer(): a root takes the place of a member, which is deleted.
LEMMA ReplaceItemStands ==
  ASSUME NEW h, NEW L, NEW R, Stands(h, L, R), NEW p \in h.live \ h.ref,
         NEW s, s = L[p], NEW k \in 1..Len(s), NEW item, item = s[k],
         NEW new \in R, p \notin Tree(L, new),
         NEW D, D = Tree(L, item), Unneeded(h, D),
         NEW g, g = cJSON_ReplaceItemViaPointer(h, p, item, new),
         NEW M, ReplacedBy(L, p, k, new, M), NEW S, S = R \ {new}
  PROVE  Replaces(g, M, S)
<1>1. /\ p \in Items /\ L \in [Items -> Seq(Items)] /\ Acyclic(L) /\ s \in Seq(Items)
      /\ ToSet(s) \subseteq h.live \ R /\ IsList(h, p, s) /\ R \subseteq Items
  BY StandsFacts
<1>2. item \in ToSet(s)
  BY <1>1 DEF ToSet
<1>3. item \in Items /\ p \notin Tree(L, item) /\ item \notin R
  BY <1>1, <1>2, MembersAreBelow
<1>4. /\ p # NULL /\ new # NULL /\ item # NULL /\ new # item /\ h.child[p] # NULL
  <2>1. h.child[p] = s[1] /\ s[1] \in Items
    BY <1>1 DEF IsList
  <2> QED BY <1>1, <1>3, <2>1, ItemsAssumption
<1> DEFINE f == ReplaceLinks(h, p, item, new)
           e == cJSON_Delete(f, item)
           Q == (R \ {new}) \cup {item}
           t == [s EXCEPT ![k] = new]
           N == [L EXCEPT ![p] = t]
<1>5. g = Ret(e, TRUE)
  BY <1>4 DEF cJSON_ReplaceItemViaPointer
<1>6. t \in Seq(Items)
  BY <1>1
<1>7. /\ Q = (R \ {new}) \cup {item} /\ f = ReplaceLinks(h, p, item, new)
      /\ item \in Q /\ S = Q \ {item} /\ e = cJSON_Delete(f, item)
  BY <1>3
<1>8. Relisted(L, p, t, N) /\ PutAt(s, k, new, t)
  BY DEF Relisted, PutAt
<1>9. M = Pruned(N, D)
  BY <1>1 DEF ReplacedBy
<1> HIDE DEF Q, t, N, f, e
<1>10. /\ Stands(f, N, Q) /\ Relinked(h, f)
       /\ \A q \in Items \ {p} : f.child[q] = h.child[q]
  <2>1. Relists(h, f, p, N, Q)
    BY <1>7, <1>8, ReplaceStands
  <2> QED BY <2>1 DEF Relists
<1>11. Tree(N, item) = D
  <2>1. L \in [Items -> Seq(Items)] /\ p \in Items /\ item \in Items /\ p \notin Tree(L, item)
    BY <1>1, <1>3
  <2>2. IsTree(L, item, D)
    BY DEF IsTree
  <2>3. IsTree(N, item, D)
    BY ONLY <1>6, <1>8, <2>1, <2>2, OtherTreeIsKept
  <2> QED BY <2>3 DEF IsTree
<1>12. Unneeded(f, D)
  <2>1. f.ref = h.ref /\ f.text = h.text /\ \A r \in h.ref : f.child[r] = h.child[r]
    BY <1>1, <1>10, StandsFacts DEF Relinked
  <2> QED BY <2>1 DEF Unneeded
<1>13. Stands(e, M, S)
  BY ONLY <1>7, <1>9, <1>10, <1>11, <1>12, DeleteStands
<1>14. SameItems(e, g) /\ g.ret = TRUE
  <2>1. e \in AnyHeap
    BY <1>13, StandsFacts
  <2> QED BY <1>5, <2>1, RetFacts
<1>15. Stands(g, M, S)
  BY <1>13, <1>14, SameItemsStand
<1> QED BY <1>14, <1>15 DEF Replaces

\* Without a member to replace nothing is done.
LEMMA ReplaceNothing ==
  ASSUME NEW h \in AnyHeap, NEW parent, NEW new,
         NEW g, g = cJSON_ReplaceItemViaPointer(h, parent, NULL, new)
  PROVE  SameItems(h, g) /\ g.ret = NULL
<1>1. g = Ret(h, NULL)
  BY DEF cJSON_ReplaceItemViaPointer
<1> QED BY <1>1, RetFacts
---------------------------------------------------------------------------
(* Members by name. *)

Found(h, s, name, cs) ==
    {k \in DOMAIN s : IF cs THEN h.key[s[k]] \in {NULL, name}
                      ELSE h.key[s[k]] # NULL /\ tolower(h.key[s[k]]) = tolower(name)}
FirstFound(h, s, found) ==
    IF found = {} \/ h.key[s[Min(found)]] = NULL THEN NULL ELSE s[Min(found)]

\* get_object_item() gives the first item its search stops at.
LEMMA ItemIsFound ==
  ASSUME NEW h, NEW object, NEW name, NEW cs, NEW s, s = Children(h, object)
  PROVE  get_object_item(h, object, name, cs) = FirstFound(h, s, Found(h, s, name, cs))
BY DEF get_object_item, Found, FirstFound

\* A set of numbers has its least.
LEMMA LeastIsMin ==
  ASSUME NEW T \in SUBSET Nat, T # {}
  PROVE  Min(T) \in T
<1>1. PICK n \in T : \A m \in T : n <= m
  BY LeastNumber
<1> QED BY <1>1 DEF Min

\* What is found by a name is a member.
LEMMA FoundFacts ==
  ASSUME NEW h, NEW L, NEW R, Stands(h, L, R), NEW p \in h.live \ h.ref, NEW s, s = L[p],
         NEW name, NEW cs, NEW item, item = get_object_item(h, p, name, cs)
  PROVE  item = NULL \/ \E k \in 1..Len(s) : item = s[k]
<1>1. IsList(h, p, s) /\ s \in Seq(Items)
  BY StandsFacts
<1>2. Children(h, p) = s
  BY <1>1, ListIsChildren
<1> DEFINE found == Found(h, s, name, cs)
<1>3. item = FirstFound(h, s, found)
  BY <1>2, ItemIsFound
<1>4. found \in SUBSET (1..Len(s)) /\ found \in SUBSET Nat
  BY <1>1 DEF Found
<1> HIDE DEF found
<1>5. CASE found = {}
  BY <1>3, <1>5 DEF FirstFound
<1>6. CASE found # {}
  <2>1. Min(found) \in found
    BY <1>4, <1>6, LeastIsMin
  <2> QED BY <1>3, <1>4, <2>1 DEF FirstFound
<1> QED BY <1>5, <1>6

\* The name of an item that is no member does not matter.
LEMMA FoundIsKept ==
  ASSUME NEW h, NEW L, NEW R, Stands(h, L, R), NEW p \in h.live \ h.ref, NEW s, s = L[p],
         NEW name, NEW cs, NEW f, Stands(f, L, R), f.live = h.live, f.ref = h.ref,
         NEW i, i \notin ToSet(s), \A j \in Items : j # i => f.key[j] = h.key[j]
  PROVE  get_object_item(f, p, name, cs) = get_object_item(h, p, name, cs)
<1>1. IsList(h, p, s) /\ s \in Seq(Items)
  BY StandsFacts
<1>2. IsList(f, p, s)
  BY StandsFacts
<1>3. Children(h, p) = s /\ Children(f, p) = s
  BY <1>1, <1>2, ListIsChildren
<1>4. \A k \in DOMAIN s : f.key[s[k]] = h.key[s[k]]
  <2> SUFFICES ASSUME NEW k \in DOMAIN s
               PROVE  f.key[s[k]] = h.key[s[k]]
    OBVIOUS
  <2>1. s[k] \in Items /\ s[k] # i
    BY <1>1 DEF ToSet
  <2> QED BY <2>1
<1>5. Found(f, s, name, cs) = Found(h, s, name, cs)
  BY <1>4 DEF Found
<1> DEFINE found == Found(h, s, name, cs)
<1>6. found \in SUBSET DOMAIN s /\ found \in SUBSET Nat
  BY <1>1 DEF Found
<1> HIDE DEF found
<1>7. FirstFound(f, s, found) = FirstFound(h, s, found)
  <2>1. CASE found = {}
    BY <2>1 DEF FirstFound
  <2>2. CASE found # {}
    <3>1. Min(found) \in DOMAIN s
      BY <1>6, <2>2, LeastIsMin
    <3> QED BY <1>4, <3>1 DEF FirstFound
  <2> QED BY <2>1, <2>2
<1> QED BY <1>3, <1>5, <1>7, ItemIsFound DEF found

\* The name of a caller's item is freed, and a copy of another becomes its name.
NameFreed(h, new, freed) ==
    freed = [h EXCEPT !.strings = IF OwnsKey(h, new) THEN @ - 1 ELSE @, !.key[new] = NULL]
NameCopied(copy, new, name, named) ==
    named = [copy EXCEPT !.key[new] = name, !.const = @ \ {new}]
RootRenamed(h, L, R, new, copy, named) ==
    /\ copy.ret = NULL => Stands(copy, L, R)
    /\ copy.ret # NULL =>
         /\ Stands(named, L, R) /\ named.live = h.live /\ named.ref = h.ref
         /\ named.child = h.child /\ named.text = h.text
         /\ \A j \in Items : j # new => named.key[j] = h.key[j]

\* replace_item_in_object() gives the new item its name before it looks for the
\* old one.
LEMMA RenameRoot ==
  ASSUME NEW h, NEW L, NEW R, Stands(h, L, R), NEW new \in R, NEW name \in Names,
         NEW freed, NameFreed(h, new, freed), NEW copy, copy = cJSON_strdup(freed),
         NEW named, NameCopied(copy, new, name, named)
  PROVE  RootRenamed(h, L, R, new, copy, named)
<1>1. /\ h \in AnyHeap /\ h.const \subseteq h.live /\ new \in Items /\ new \in h.live
      /\ h.live \in SUBSET Items
  BY StandsFacts
<1>2. Stands(freed, L, R) /\ Renamed(h, freed, new) /\ freed.const = h.const /\ freed.key[new] = NULL
  <2> DEFINE C == h.const
             none == NULL
             own == FALSE
  <2>1. /\ C \in SUBSET h.live /\ \A i \in Items : i # new => (i \in C <=> i \in h.const)
        /\ own \in BOOLEAN /\ none \in Names \cup {NULL}
        /\ own <=> new \notin C /\ none # NULL
    BY <1>1
  <2>2. IF own THEN Spare(h, h) ELSE SameItems(h, h)
    BY <1>1 DEF SameItems
  <2>3. NameSet(h, h, new, none, C, freed)
    BY <1>1 DEF NameSet, AnyHeap, NameFreed
  <2>4. C = h.const /\ none = NULL
    OBVIOUS
  <2> HIDE DEF C, none, own
  <2>5. IsNamed(h, L, R, new, none, h, C, freed)
    BY ONLY <2>1, <2>2, <2>3, Stands(h, L, R), new \in R, NameIsSet
  <2> QED BY <2>4, <2>5 DEF IsNamed
<1>3. freed \in AnyHeap
  BY <1>2 DEF Renamed
<1>4. CASE copy.ret = NULL
  <2>1. SameItems(freed, copy)
    BY <1>3, <1>4, StrdupFacts
  <2>2. Stands(copy, L, R)
    BY <1>2, <2>1, SameItemsStand
  <2> QED BY <1>4, <2>2 DEF RootRenamed
<1>5. CASE copy.ret # NULL
  <2> DEFINE own == TRUE
             C == copy.const \ {new}
  <2>1. Spare(freed, copy)
    BY <1>3, <1>5, StrdupFacts
  <2>2. copy \in AnyHeap /\ copy.const = freed.const
    BY <2>1 DEF Spare
  <2>3. /\ C \in SUBSET freed.live /\ \A i \in Items : i # new => (i \in C <=> i \in freed.const)
        /\ own \in BOOLEAN /\ name \in Names \cup {NULL}
        /\ own <=> new \notin C /\ name # NULL
    BY <1>1, <1>2, <2>2, NoNameIsNull DEF Renamed
  <2>4. ~OwnsKey(freed, new)
    BY <1>2 DEF OwnsKey
  <2>5. NameSet(freed, copy, new, name, C, named)
    <3>1. named = [copy EXCEPT !.strings = copy.strings, !.key[new] = name, !.const = C]
      BY <2>2 DEF AnyHeap, NameCopied
    <3> QED BY <2>4, <3>1 DEF NameSet
  <2>6. IF own THEN Spare(freed, copy) ELSE SameItems(freed, copy)
    BY <2>1
  <2> HIDE DEF own, C
  <2>7. IsNamed(freed, L, R, new, name, copy, C, named)
    <3>1. Stands(freed, L, R)
      BY <1>2
    <3> QED BY ONLY <2>3, <2>5, <2>6, <3>1, new \in R, NameIsSet
  <2> QED BY <1>2, <1>5, <2>7 DEF IsNamed, Renamed, RootRenamed
<1> QED BY <1>4, <1>5

\* item gives way to new in the list of p, or nothing but a name changes.
MayGiveWay(g, L, R, p, item, new) ==
    \/ g.ret = NULL /\ Stands(g, L, R)
    \/ /\ g.ret = TRUE
       /\ \E M, Q : \E k \in 1..Len(L[p]) :
             /\ item = L[p][k] /\ ReplacedBy(L, p, k, new, M)
             /\ Q = R \ {new} /\ Stands(g, M, Q)

\* cJSON_ReplaceItemInObject(): the member with the name gives way to the new
\* item, or nothing but the new item's name changes.
LEMMA ReplaceInObjectStands ==
  ASSUME NEW h, NEW L, NEW R, Stands(h, L, R), NEW p \in h.live \ h.ref,
         NEW new \in R, p \notin Tree(L, new), NEW name \in Names, NEW cs,
         NEW item, item = get_object_item(h, p, name, cs),
         NEW D, D = Tree(L, item), item # NULL => Unneeded(h, D),
         NEW g, g = replace_item_in_object(h, p, name, new, cs)
  PROVE  MayGiveWay(g, L, R, p, item, new)
<1> DEFINE freed == [h EXCEPT !.strings = IF OwnsKey(h, new) THEN @ - 1 ELSE @, !.key[new] = NULL]
           copy == cJSON_strdup(freed)
           named == [copy EXCEPT !.key[new] = name, !.const = @ \ {new}]
           found == get_object_item(named, p, name, cs)
           s == L[p]
           Q == R \ {new}
<1>0. s = L[p] /\ Q = R \ {new}
  OBVIOUS
<1> HIDE DEF s, Q
<1>1. new \in Items /\ new # NULL /\ new \notin ToSet(s)
  <2>1. p \in Items
    BY StandsFacts
  <2> QED BY <1>0, <2>1, RootsAreNoMembers
<1>2. g = IF copy.ret = NULL THEN copy ELSE cJSON_ReplaceItemViaPointer(named, p, found, new)
  BY <1>1 DEF replace_item_in_object
<1>3. found = get_object_item(named, p, name, cs)
  OBVIOUS
<1>4. /\ copy.ret = NULL => Stands(copy, L, R)
      /\ copy.ret # NULL =>
           /\ Stands(named, L, R) /\ named.live = h.live /\ named.ref = h.ref
           /\ named.child = h.child /\ named.text = h.text
           /\ \A j \in Items : j # new => named.key[j] = h.key[j]
  <2>1. NameFreed(h, new, freed) /\ copy = cJSON_strdup(freed) /\ NameCopied(copy, new, name, named)
    BY DEF NameFreed, NameCopied
  <2> HIDE DEF freed, copy, named, found
  <2>2. RootRenamed(h, L, R, new, copy, named)
    BY ONLY <2>1, Stands(h, L, R), new \in R, name \in Names, RenameRoot
  <2> QED BY <2>2 DEF RootRenamed
<1> HIDE DEF freed, copy, named, found
<1>5. CASE copy.ret = NULL
  BY <1>2, <1>4, <1>5 DEF MayGiveWay
<1>6. CASE copy.ret # NULL
  <2>1. /\ Stands(named, L, R) /\ named.live = h.live /\ named.ref = h.ref
        /\ named.child = h.child /\ named.text = h.text
        /\ \A j \in Items : j # new => named.key[j] = h.key[j]
    BY <1>4, <1>6
  <2>2. found = item
    BY <1>0, <1>1, <1>3, <2>1, FoundIsKept
  <2>3. g = cJSON_ReplaceItemViaPointer(named, p, item, new)
    BY <1>2, <1>6, <2>2
  <2>4. CASE item = NULL
    <3>1. named \in AnyHeap
      BY <2>1, StandsFacts
    <3>2. SameItems(named, g) /\ g.ret = NULL
      BY <2>3, <2>4, <3>1, ReplaceNothing
    <3>3. Stands(g, L, R)
      BY <2>1, <3>2, SameItemsStand
    <3> QED BY <3>2, <3>3 DEF MayGiveWay
  <2>5. CASE item # NULL
    <3>1. PICK k \in 1..Len(s) : item = s[k]
      BY <1>0, <2>5, FoundFacts
    <3>2. PICK M : ReplacedBy(L, p, k, new, M)
      BY DEF ReplacedBy
    <3>3. Unneeded(named, D)
      BY <2>1, <2>5 DEF Unneeded
    <3>4. p \in named.live \ named.ref
      BY <2>1
    <3>5. Stands(named, L, R) /\ s = L[p] /\ k \in 1..Len(s) /\ item = s[k] /\ new \in R
          /\ p \notin Tree(L, new) /\ D = Tree(L, item) /\ Q = R \ {new}
      BY <1>0, <2>1, <3>1
    <3>6. Replaces(g, M, Q)
      BY ONLY <2>3, <3>2, <3>3, <3>4, <3>5, ReplaceItemStands
    <3> QED BY <1>0, <3>1, <3>2, <3>6 DEF Replaces, MayGiveWay
  <2> QED BY <2>4, <2>5
<1> QED BY <1>5, <1>6
---------------------------------------------------------------------------
(* What the caller's trees hold. *)

UsedOf(L, R) == UNION {Tree(L, i) : i \in R}

\* All that is allocated is in a tree of the caller, except lost references.
LEMMA UsedFacts ==
  ASSUME NEW h, NEW L, NEW R, Stands(h, L, R)
  PROVE  /\ R \subseteq UsedOf(L, R) /\ UsedOf(L, R) \subseteq h.live
         /\ h.live \ h.ref \subseteq UsedOf(L, R)
         /\ \A i \in h.live \ UsedOf(L, R) : i \in h.ref /\ h.key[i] = NULL
         /\ \A i \in R : Tree(L, i) \subseteq UsedOf(L, R)
<1> DEFINE U == UsedOf(L, R)
           O == {}
<1>1. /\ L \in [Items -> Seq(Items)] /\ h.live \in SUBSET Items /\ R \subseteq Items
      /\ h.ref \subseteq h.live /\ Kept(h, L, R) /\ Acyclic(L)
      /\ \A p \in Items : p \notin h.live \ h.ref => L[p] = <<>>
  BY StandsFacts
<1>2. HeapInv(h, L, R, O)
  BY DEF Stands
<1> HIDE DEF O
<1>3. \A i \in R : i \in Tree(L, i) /\ Tree(L, i) \subseteq h.live
  <2> SUFFICES ASSUME NEW i \in R
               PROVE  i \in Tree(L, i) /\ Tree(L, i) \subseteq h.live
    OBVIOUS
  <2>1. Tree(L, i) \subseteq h.live
    BY <1>2, DeleteReaches
  <2>2. i \in Tree(L, i)
    BY <1>1, TreeFacts
  <2> QED BY <2>1, <2>2
<1>4. R \subseteq U /\ U \subseteq h.live /\ \A i \in R : Tree(L, i) \subseteq U
  BY <1>3 DEF UsedOf
<1>5. ASSUME NEW p \in U
      PROVE  ToSet(L[p]) \subseteq U
  <2>1. PICK r \in R : p \in Tree(L, r)
    BY <1>5 DEF UsedOf
  <2>2. ToSet(L[p]) \subseteq Tree(L, r)
    BY <1>1, <2>1, TreeFacts
  <2> QED BY <1>4, <2>2
<1> HIDE DEF U
<1> DEFINE S == (h.live \ h.ref) \ U
\* What is in no tree of the caller is in no list.
<1>6. \A i \in h.live \ U : ~(\E p \in Items \ S : i \in ToSet(L[p]))
  <2> SUFFICES ASSUME NEW i \in h.live \ U, NEW p \in Items \ S, i \in ToSet(L[p])
               PROVE  FALSE
    OBVIOUS
  <2>1. L[p] # <<>>
    BY DEF ToSet
  <2>2. p \in h.live \ h.ref
    BY <1>1, <2>1
  <2>3. p \in U
    BY <2>2
  <2> QED BY <1>5, <2>3
<1>7. S = {}
  <2> SUFFICES ASSUME S # {}
               PROVE  FALSE
    OBVIOUS
  <2>1. S \in SUBSET Items
    BY <1>1
  <2>2. PICK i \in S : \A p \in S : i \notin ToSet(L[p])
    BY <1>1, <2>1 DEF Acyclic
  <2>3. ~IsMember(L, i)
    BY <1>6, <2>2 DEF IsMember
  <2>4. i \in h.live \ R
    BY <1>4
  <2> QED BY <1>1, <2>3, <2>4 DEF Kept
<1>8. \A i \in h.live \ U : ~IsMember(L, i) /\ i \notin R
  BY <1>4, <1>6, <1>7 DEF IsMember
<1>9. \A i \in h.live \ U : i \in h.ref /\ h.key[i] = NULL
  BY <1>1, <1>8 DEF Kept
<1> QED BY <1>4, <1>7, <1>9 DEF U

---------------------------------------------------------------------------
(* How a call may change the members, from L to M, and the roots, from R   *)
(* to Q.  These are the actions of JsonForest, without primes.             *)

Grows(L, R, M, Q, i) ==
    /\ i \in Items \ R /\ Q = R \cup {i}
    /\ \A j \in Items \ Tree(M, i) : M[j] = L[j]
    /\ Tree(M, i) \cap UsedOf(L, R) = {}
Drops(L, R, M, Q, i) == i \in R /\ Q = R \ {i} /\ M = Pruned(L, Tree(L, i))
JoinsNew(L, R, M, Q, p, i) ==
    i \in Items \ UsedOf(L, R) /\ Q = R /\ M = Added(L, p, i)
Joins(L, R, M, Q, p, k, i) ==
    /\ i \in R /\ Q = R \ {i} /\ p \notin Tree(L, i)
    /\ k \in 0..Len(L[p]) /\ M = [L EXCEPT ![p] = InsertAt(@, k + 1, i)]
Displaces(L, R, M, Q, p, k, i) ==
    /\ i \in R /\ Q = R \ {i} /\ p \notin Tree(L, i)
    /\ k \in DOMAIN L[p] /\ ReplacedBy(L, p, k, i, M)
Leaves(L, R, M, Q, p, k) ==
    /\ k \in DOMAIN L[p] /\ Q = R \cup {L[p][k]}
    /\ M = [L EXCEPT ![p] = RemoveAt(@, k)]
Vanishes(L, R, M, Q, p, k) == k \in DOMAIN L[p] /\ Q = R /\ Removed(L, p, k, M)

ListChanges(L, R, M, Q, p) ==
    \/ \E i : JoinsNew(L, R, M, Q, p, i)
    \/ \E k, i : Joins(L, R, M, Q, p, k, i) \/ Displaces(L, R, M, Q, p, k, i)
    \/ \E k : Leaves(L, R, M, Q, p, k) \/ Vanishes(L, R, M, Q, p, k)

Changes(L, R, M, Q) ==
    \/ \E i : Grows(L, R, M, Q, i) \/ Drops(L, R, M, Q, i)
    \/ \E p \in UsedOf(L, R) : M[p] # L[p] /\ ListChanges(L, R, M, Q, p)

Same(L, R, M, Q) == M = L /\ Q = R

\* What a call leaves behind: the heap stands for members and roots that are a
\* change of those before, and are those before if the call failed.
Outcome(g, L, R, M, Q) ==
    /\ Stands(g, M, Q)
    /\ g.ret = NULL => Same(L, R, M, Q)
    /\ Same(L, R, M, Q) \/ Changes(L, R, M, Q)

\* A call that changes nothing may succeed or fail.
LEMMA NothingChanged ==
  ASSUME NEW g, NEW L, NEW R, Stands(g, L, R)
  PROVE  Outcome(g, L, R, L, R)
BY DEF Outcome, Same

\* A call that makes a tree.
LEMMA MakesOutcome ==
  ASSUME NEW h, NEW L, NEW R, Stands(h, L, R), NEW O, O = {}, NEW g, Makes(h, g, L, R, O),
         NEW Q, Q = IF g.ret = NULL THEN R ELSE R \cup {g.ret}
  PROVE  \E M : Outcome(g, L, R, M, Q)
<1>1. CASE g.ret = NULL
  <2>1. Undone(h, g, L, R, O)
    BY <1>1 DEF Makes
  <2>2. Stands(g, L, R)
    BY <2>1, UndoneStands
  <2> QED BY <1>1, <2>2, NothingChanged
<1>2. CASE g.ret # NULL
  <2> DEFINE n == g.ret
  <2>1. PICK M : IsMade(h, L, R, O, g, n, M)
    BY <1>2 DEF Makes, Made
  <2>2. n = g.ret /\ Q = R \cup {n}
    BY <1>2
  <2> HIDE DEF n
  <2>3. Stands(g, M, Q) /\ n \in Items \ h.live
    BY <2>1, <2>2, MadeStands
  <2>4. /\ n \in g.live \ h.live /\ h.live \subseteq g.live /\ g.ref = h.ref
        /\ \A p \in h.live : M[p] = L[p]
        /\ Tree(M, n) = g.live \ h.live
    BY <2>1 DEF IsMade, Grown
  <2>5. \A p \in Items : p \notin g.live => M[p] = <<>> /\ L[p] = <<>>
    <3>1. \A p \in Items : p \notin g.live \ g.ref => M[p] = <<>>
      BY <2>3, StandsFacts
    <3>2. \A p \in Items : p \notin h.live \ h.ref => L[p] = <<>>
      BY StandsFacts
    <3> QED BY <2>4, <3>1, <3>2
  <2>6. UsedOf(L, R) \subseteq h.live /\ R \subseteq h.live
    BY UsedFacts, StandsFacts
  <2>7. Grows(L, R, M, Q, n)
    <3>1. \A j \in Items \ Tree(M, n) : M[j] = L[j]
      BY <2>4, <2>5
    <3>2. Tree(M, n) \cap UsedOf(L, R) = {}
      BY <2>4, <2>6
    <3>3. n \in Items \ R
      BY <2>3, <2>6
    <3> QED BY <2>2, <3>1, <3>2, <3>3 DEF Grows
  <2>8. Changes(L, R, M, Q)
    BY <2>7 DEF Changes
  <2> QED BY <1>2, <2>2, <2>3, <2>8 DEF Outcome
<1> QED BY <1>1, <1>2

\* A call that makes a reference.
LEMMA ReferenceOutcome ==
  ASSUME NEW h, NEW L, NEW R, Stands(h, L, R), NEW g, Refering(h, g, L, R),
         NEW Q, Q = IF g.ret = NULL THEN R ELSE R \cup {g.ret}
  PROVE  \E M : Outcome(g, L, R, M, Q)
<1>1. CASE g.ret = NULL
  <2>1. SameItems(h, g)
    BY <1>1 DEF Refering
  <2>2. Stands(g, L, R)
    BY <2>1, SameItemsStand
  <2> QED BY <1>1, <2>2, NothingChanged
<1>2. CASE g.ret # NULL
  <2>1. PICK n, P : P = R \cup {n} /\ IsReference(h, g, L, P, n)
    BY <1>2 DEF Refering
  <2>2. Stands(g, L, Q) /\ n \in Items \ h.live /\ Q = R \cup {n}
    BY <1>2, <2>1 DEF IsReference
  <2>3. Tree(L, n) = {n} /\ n \notin R
    BY <2>2, NewIsLeaf
  <2>4. UsedOf(L, R) \subseteq h.live
    BY UsedFacts
  <2>5. Grows(L, R, L, Q, n)
    BY <2>2, <2>3, <2>4 DEF Grows
  <2>6. Changes(L, R, L, Q)
    BY <2>5 DEF Changes
  <2> QED BY <1>2, <2>2, <2>6 DEF Outcome
<1> QED BY <1>1, <1>2

\* A call that makes an item and adds it to a list.
LEMMA NewOutcome ==
  ASSUME NEW h, NEW L, NEW R, Stands(h, L, R), NEW p \in h.live \ h.ref,
         NEW g, AddsNew(h, g, L, R, p)
  PROVE  \E M : Outcome(g, L, R, M, R)
<1>1. CASE g.ret = NULL
  BY <1>1, NothingChanged DEF AddsNew
<1>2. CASE g.ret # NULL
  <2>1. PICK n \in Items \ h.live : Stands(g, Added(L, p, n), R)
    BY <1>2 DEF AddsNew
  <2> DEFINE M == Added(L, p, n)
  <2>2. L \in [Items -> Seq(Items)] /\ p \in Items /\ ToSet(L[p]) \subseteq h.live
    BY StandsFacts
  <2>3. UsedOf(L, R) \subseteq h.live /\ p \in UsedOf(L, R)
    BY UsedFacts
  <2>4. M[p] = Append(L[p], n)
    BY <2>2 DEF Added
  <2>5. ToSet(Append(L[p], n)) = ToSet(L[p]) \cup {n}
    BY <2>2, AppendMembers
  <2>6. M[p] # L[p]
    <3>1. n \in ToSet(M[p]) /\ n \notin ToSet(L[p])
      BY <2>2, <2>4, <2>5
    <3> QED BY <3>1
  <2>7. JoinsNew(L, R, M, R, p, n)
    BY <2>3 DEF JoinsNew
  <2>8. Changes(L, R, M, R)
    BY <2>3, <2>6, <2>7 DEF Changes, ListChanges
  <2> QED BY <1>2, <2>1, <2>8 DEF Outcome
<1> QED BY <1>1, <1>2

\* A root that becomes a member at place k + 1.
LEMMA InsertOutcome ==
  ASSUME NEW h, NEW L, NEW R, Stands(h, L, R), NEW p \in h.live \ h.ref,
         NEW item \in R, p \notin Tree(L, item), NEW s, s = L[p], NEW which \in 0..Len(s),
         NEW k, k = which + 1, NEW t, t = InsertAt(s, k, item), NEW M, Relisted(L, p, t, M),
         NEW Q, Q = R \ {item}, NEW g, g.ret = TRUE, Stands(g, M, Q)
  PROVE  Outcome(g, L, R, M, Q)
<1>1. /\ L \in [Items -> Seq(Items)] /\ p \in Items /\ s \in Seq(Items) /\ item \in Items
      /\ ToSet(s) \subseteq h.live \ R
  BY StandsFacts
<1>2. p \in UsedOf(L, R)
  BY UsedFacts
<1>3. M = [L EXCEPT ![p] = InsertAt(@, which + 1, item)] /\ M[p] = t
  BY <1>1 DEF Relisted
<1>4. item \in ToSet(t)
  <2>1. CASE which = Len(s)
    <3>1. t = Append(s, item)
      BY <1>1, <2>1, InsertAtEnd
    <3> QED BY <1>1, <3>1, AppendMembers, ZenonT(60)
  <2>2. CASE which # Len(s)
    <3>1. k \in 1..Len(s)
      BY <1>1, <2>2
    <3> QED BY <1>1, <3>1, InsertMembers
  <2> QED BY <2>1, <2>2
<1>5. M[p] # L[p]
  BY <1>1, <1>3, <1>4
<1>6. Joins(L, R, M, Q, p, which, item)
  BY <1>3 DEF Joins
<1>7. Changes(L, R, M, Q)
  BY <1>2, <1>5, <1>6 DEF Changes, ListChanges
<1> QED BY <1>7, TreeAssumption DEF Outcome

\* A root that becomes the last member.
LEMMA AddOutcome ==
  ASSUME NEW h, NEW L, NEW R, Stands(h, L, R), NEW p \in h.live \ h.ref,
         NEW item \in R, p \notin Tree(L, item), NEW Q, Q = R \ {item},
         NEW g, g.ret = TRUE, Stands(g, Added(L, p, item), Q)
  PROVE  \E M : Outcome(g, L, R, M, Q)
<1> DEFINE s == L[p]
           which == Len(s)
           k == which + 1
           t == InsertAt(s, k, item)
           M == Added(L, p, item)
<1>1. s \in Seq(Items) /\ item \in Items /\ p \in Items /\ L \in [Items -> Seq(Items)]
  BY StandsFacts
<1>2. s = L[p] /\ which \in 0..Len(s) /\ k = which + 1 /\ t = InsertAt(s, k, item)
      /\ Stands(g, M, Q) /\ k = Len(s) + 1
  BY <1>1
<1>3. M = [L EXCEPT ![p] = Append(s, item)]
  BY <1>1 DEF Added
<1> HIDE DEF s, which, k, t, M
<1>4. t = Append(s, item)
  BY <1>1, <1>2, InsertAtEnd
<1>5. Relisted(L, p, t, M)
  BY <1>3, <1>4 DEF Relisted
<1>6. Outcome(g, L, R, M, Q)
  BY <1>2, <1>5, InsertOutcome
<1> QED BY <1>6

\* A member that becomes a root.
LEMMA DetachOutcome ==
  ASSUME NEW h, NEW L, NEW R, Stands(h, L, R), NEW p \in h.live \ h.ref,
         NEW s, s = L[p], NEW k \in 1..Len(s), NEW item, item = s[k],
         NEW t, t = RemoveAt(s, k), NEW M, Relisted(L, p, t, M),
         NEW Q, Q = R \cup {item}, NEW g, g.ret = item, Stands(g, M, Q)
  PROVE  Outcome(g, L, R, M, Q)
<1>1. /\ L \in [Items -> Seq(Items)] /\ p \in Items /\ s \in Seq(Items) /\ IsList(h, p, s)
  BY StandsFacts
<1>2. p \in UsedOf(L, R)
  BY UsedFacts
<1>3. M = [L EXCEPT ![p] = RemoveAt(@, k)] /\ M[p] = t
  BY <1>1 DEF Relisted
<1>4. item \in ToSet(s) /\ item \in Items
  BY <1>1 DEF ToSet
<1>5. item \notin ToSet(t)
  <2>1. \A i, j \in 1..Len(s) : s[i] = s[j] => i = j
    BY <1>1 DEF IsList, Distinct
  <2>2. s \in Seq(Items) /\ k \in 1..Len(s)
    BY <1>1
  <2>3. s[k] \notin ToSet(RemoveAt(s, k))
    BY ONLY <2>1, <2>2, RemoveMembers
  <2> QED BY <2>3
<1>6. M[p] # L[p]
  BY <1>3, <1>4, <1>5
<1>7. Leaves(L, R, M, Q, p, k)
  BY <1>1, <1>3 DEF Leaves
<1>8. Changes(L, R, M, Q)
  BY <1>2, <1>6, <1>7 DEF Changes, ListChanges
<1>9. g.ret # NULL
  BY <1>4, ItemsAssumption
<1> QED BY <1>8, <1>9 DEF Outcome

\* A member that is deleted with its tree.
LEMMA DeleteMemberOutcome ==
  ASSUME NEW h, NEW L, NEW R, Stands(h, L, R), NEW p \in h.live \ h.ref,
         NEW s, s = L[p], NEW k \in 1..Len(s),
         NEW M, Removed(L, p, k, M), NEW g, g.ret # NULL, Stands(g, M, R)
  PROVE  Outcome(g, L, R, M, R)
<1>1. /\ L \in [Items -> Seq(Items)] /\ p \in Items /\ s \in Seq(Items) /\ IsList(h, p, s)
      /\ Acyclic(L)
  BY StandsFacts
<1>2. p \in UsedOf(L, R)
  BY UsedFacts
<1>3. s[k] \in ToSet(s)
  BY <1>1 DEF ToSet
<1>4. p \notin Tree(L, s[k])
  <2> DEFINE i == s[k]
  <2>1. i \in ToSet(L[p])
    BY <1>3
  <2> HIDE DEF i
  <2>2. p \notin Tree(L, i)
    BY <1>1, <2>1, MembersAreBelow
  <2> QED BY <2>2 DEF i
<1>5. M[p] = RemoveAt(s, k)
  BY <1>1, <1>4 DEF Removed, Pruned
<1>6. s[k] \notin ToSet(RemoveAt(s, k))
  <2>1. \A i, j \in 1..Len(s) : s[i] = s[j] => i = j
    BY <1>1 DEF IsList, Distinct
  <2> QED BY <1>1, <2>1, RemoveMembers, ZenonT(60)
<1>7. M[p] # L[p]
  BY <1>3, <1>5, <1>6
<1>8. Vanishes(L, R, M, R, p, k)
  BY <1>1 DEF Vanishes
<1>9. Changes(L, R, M, R)
  BY <1>2, <1>7, <1>8 DEF Changes, ListChanges
<1> QED BY <1>9 DEF Outcome

\* A root that takes the place of a member, which is deleted with its tree.
LEMMA ReplaceOutcome ==
  ASSUME NEW h, NEW L, NEW R, Stands(h, L, R), NEW p \in h.live \ h.ref,
         NEW s, s = L[p], NEW k \in 1..Len(s), NEW new \in R, p \notin Tree(L, new),
         NEW M, ReplacedBy(L, p, k, new, M), NEW Q, Q = R \ {new},
         NEW g, g.ret = TRUE, Stands(g, M, Q)
  PROVE  Outcome(g, L, R, M, Q)
<1>1. /\ L \in [Items -> Seq(Items)] /\ p \in Items /\ s \in Seq(Items) /\ Acyclic(L)
      /\ ToSet(s) \subseteq h.live \ R
  BY StandsFacts
<1>2. p \in UsedOf(L, R)
  BY UsedFacts
<1>3. s[k] \in ToSet(s)
  BY <1>1 DEF ToSet
<1>4. p \notin Tree(L, s[k])
  <2> DEFINE i == s[k]
  <2>1. i \in ToSet(L[p])
    BY <1>3
  <2> HIDE DEF i
  <2>2. p \notin Tree(L, i)
    BY <1>1, <2>1, MembersAreBelow
  <2> QED BY <2>2 DEF i
<1>5. M[p][k] = new
  <2>1. M[p] = [s EXCEPT ![k] = new]
    BY <1>1, <1>4 DEF ReplacedBy, Pruned
  <2> QED BY <1>1, <2>1
<1>6. M[p] # L[p]
  BY <1>1, <1>3, <1>5
<1>7. Displaces(L, R, M, Q, p, k, new)
  BY <1>1 DEF Displaces
<1>8. Changes(L, R, M, Q)
  BY <1>2, <1>6, <1>7 DEF Changes, ListChanges
<1> QED BY <1>8, TreeAssumption DEF Outcome

\* A root that is deleted with its tree.
LEMMA DropOutcome ==
  ASSUME NEW h, NEW L, NEW R, Stands(h, L, R), NEW item \in R, NEW M, M = Pruned(L, Tree(L, item)),
         NEW Q, Q = R \ {item}, NEW g, g.ret # NULL, Stands(g, M, Q)
  PROVE  Outcome(g, L, R, M, Q)
<1>1. Drops(L, R, M, Q, item)
  BY DEF Drops
<1>2. Changes(L, R, M, Q)
  BY <1>1 DEF Changes
<1> QED BY <1>2 DEF Outcome
---------------------------------------------------------------------------
(* The invariant of the states, and what every step does. *)

\* Between calls the heap stands for the members and the roots.
HeapStands == Stands(heap, kids, roots) /\ heap.ret = NULL /\ heap.fuel = 0

SameTrees == kids' = kids /\ roots' = roots

StepDone ==
    /\ HeapStands'
    /\ failed' => SameTrees
    /\ SameTrees \/ Changes(kids, roots, kids', roots')

\* The members, read from the heap, are those it stands for.
LEMMA MembersAreListed ==
  ASSUME NEW h, NEW L, NEW R, Stands(h, L, R)
  PROVE  Members(h) = L
<1>1. /\ L \in [Items -> Seq(Items)] /\ \A p \in h.live \ h.ref : IsList(h, p, L[p])
      /\ \A p \in Items : p \notin h.live \ h.ref => L[p] = <<>>
  BY StandsFacts
<1>2. ASSUME NEW p \in Items
      PROVE  Members(h)[p] = L[p]
  <2> DEFINE s == L[p]
  <2>1. CASE p \in h.live \ h.ref
    <3>1. IsList(h, p, s)
      BY <1>1, <2>1
    <3> HIDE DEF s
    <3>2. Children(h, p) = s
      BY <3>1, ListIsChildren
    <3> QED BY <2>1, <3>2 DEF Members, s
  <2>2. CASE p \notin h.live \ h.ref
    BY <1>1, <2>2 DEF Members
  <2> QED BY <2>1, <2>2
<1>3. Members(h) = [p \in Items |-> Members(h)[p]]
  BY DEF Members
<1> QED BY <1>1, <1>2, <1>3

\* How many allocations will succeed is no part of what a heap stands for ...
LEMMA FuelFacts ==
  ASSUME NEW h \in AnyHeap, NEW n \in Nat, NEW g, g = [h EXCEPT !.fuel = n]
  PROVE  SameItems(h, g) /\ g.ret = h.ret /\ g.fuel = n
BY DEF AnyHeap, SameItems

\* ... and neither is what is left of it after the call.
LEMMA ReturnFacts ==
  ASSUME NEW h \in AnyHeap, NEW g, g = [h EXCEPT !.fuel = 0, !.ret = NULL]
  PROVE  SameItems(h, g) /\ g.ret = NULL /\ g.fuel = 0
BY DEF AnyHeap, SameItems

\* Between calls a heap is one that a call may find.
LEMMA HeapsFacts ==
  ASSUME NEW h \in AnyHeap, h.ret = NULL
  PROVE  h \in Heaps
BY DEF AnyHeap, Heaps

\* How a call starts: with a heap that differs in its fuel only.
LEMMA CallStarts ==
  ASSUME HeapStands, NEW n \in Nat, NEW f, f = Fuel(n), NEW O, O = {}
  PROVE  /\ Stands(f, kids, roots) /\ HeapInv(f, kids, roots, O)
         /\ SameItems(heap, f) /\ f \in Heaps
<1>1. heap \in AnyHeap /\ Stands(heap, kids, roots) /\ heap.ret = NULL
  BY StandsFacts DEF HeapStands
<1>2. f = [heap EXCEPT !.fuel = n]
  BY DEF Fuel
<1>3. SameItems(heap, f) /\ f.ret = NULL
  BY <1>1, <1>2, FuelFacts
<1>4. Stands(f, kids, roots)
  BY <1>1, <1>3, SameItemsStand
<1>5. f \in AnyHeap
  BY <1>3 DEF SameItems
<1>6. f \in Heaps
  BY <1>3, <1>5, HeapsFacts
<1> QED BY <1>3, <1>4, <1>6 DEF Stands

Returns(h, held) ==
    /\ heap' = [h EXCEPT !.fuel = 0, !.ret = NULL]
    /\ kids' = Members(h)
    /\ roots' = held
    /\ failed' = (h.ret = NULL)

\* A call whose outcome is one of those above is a step as it should be.
LEMMA ReturnIsDone ==
  ASSUME NEW h, NEW M, NEW held, Outcome(h, kids, roots, M, held), Returns(h, held)
  PROVE  StepDone
<1>1. /\ Stands(h, M, held) /\ (h.ret = NULL => Same(kids, roots, M, held))
      /\ Same(kids, roots, M, held) \/ Changes(kids, roots, M, held)
  BY DEF Outcome
<1> DEFINE g == [h EXCEPT !.fuel = 0, !.ret = NULL]
<1>2. g = [h EXCEPT !.fuel = 0, !.ret = NULL]
  OBVIOUS
<1>3. heap' = g /\ kids' = M /\ roots' = held /\ (failed' <=> h.ret = NULL)
  <2>1. Members(h) = M
    BY <1>1, MembersAreListed
  <2> QED BY <2>1 DEF Returns
<1> HIDE DEF g
<1>4. h \in AnyHeap
  BY <1>1, StandsFacts
<1>5. SameItems(h, g) /\ g.ret = NULL /\ g.fuel = 0
  BY <1>2, <1>4, ReturnFacts
<1>6. Stands(g, M, held)
  BY <1>1, <1>5, SameItemsStand
<1>7. HeapStands'
  BY <1>3, <1>5, <1>6 DEF HeapStands
<1>8. (failed' => SameTrees) /\ (SameTrees \/ Changes(kids, roots, kids', roots'))
  BY <1>1, <1>3 DEF Same, SameTrees
<1> QED BY <1>7, <1>8 DEF StepDone

\* Where the caller's items are.
LEMMA ListsAreLive ==
  ASSUME HeapStands
  PROVE  /\ Forest!Used = UsedOf(kids, roots)
         /\ \A i \in Items : Below(i) = Tree(kids, i)
         /\ Lists = heap.live \ heap.ref
         /\ Forest!Used \subseteq heap.live /\ heap.live \subseteq Items
         /\ roots \subseteq Items /\ kids \in [Items -> Seq(Items)]
<1>1. \A i : Forest!Descendants(i) = Tree(kids, i)
  BY DEF Forest!Descendants, Forest!ToSet, ToSet, Tree, Edges
<1>2. Forest!Used = UsedOf(kids, roots)
  BY <1>1 DEF Forest!Used, UsedOf
<1>3. Stands(heap, kids, roots)
  BY DEF HeapStands
<1>4. /\ heap.live \in SUBSET Items /\ roots \subseteq Items /\ kids \in [Items -> Seq(Items)]
      /\ UsedOf(kids, roots) \subseteq heap.live /\ heap.live \ heap.ref \subseteq UsedOf(kids, roots)
  BY <1>3, StandsFacts, UsedFacts
<1> QED BY <1>1, <1>2, <1>4 DEF Below, Lists

\* What may join a list, and what may be freed.
LEMMA JoinIsNoCycle ==
  ASSUME HeapStands, NEW item \in roots, NEW p, MayJoin(item, p)
  PROVE  p \notin Tree(kids, item)
BY ListsAreLive DEF MayJoin

\* What a caller may free is needed by no reference that stays.
LEMMA FreedIsUnneeded ==
  ASSUME HeapStands, NEW item \in Items, MayFree(Below(item)), NEW D, D = Tree(kids, item),
         NEW f, SameItems(heap, f)
  PROVE  Unneeded(f, D)
<1>1. Below(item) = D /\ D \subseteq Items /\ NULL \notin Items
  <2>1. kids \in [Items -> Seq(Items)] /\ Below(item) = D
    BY ListsAreLive
  <2> QED BY <2>1, TreeFacts, ItemsAssumption
<1>2. \A r \in heap.ref \ D : heap.child[r] \notin D /\ heap.text[r] \notin D
  <2> SUFFICES ASSUME NEW r \in heap.ref \ D
               PROVE  heap.child[r] \notin D /\ heap.text[r] \notin D
    OBVIOUS
  <2>1. NeededBy(heap, r) \cap D = {}
    BY <1>1 DEF MayFree
  <2> QED BY <1>1, <2>1 DEF NeededBy
<1> QED BY <1>2 DEF Unneeded, SameItems
---------------------------------------------------------------------------
(* The calls that make items. *)

\* A call that makes a tree and gives it to the caller.
LEMMA GivesIsDone ==
  ASSUME NEW f, Stands(f, kids, roots), NEW O, O = {}, NEW g, Makes(f, g, kids, roots, O),
         NEW held, held = IF g.ret = NULL THEN roots ELSE roots \cup {g.ret}, Returns(g, held)
  PROVE  StepDone
<1>1. \E M : Outcome(g, kids, roots, M, held)
  BY MakesOutcome
<1> QED BY <1>1, ReturnIsDone

\* What a call that gives an item returns ...
LEMMA GivesReturns ==
  ASSUME NEW g, Gives(g), NEW held, held = IF g.ret = NULL THEN roots ELSE roots \cup {g.ret}
  PROVE  Returns(g, held)
BY DEF Gives, Return, Returns

\* ... and one that takes an item.
LEMMA TakesReturns ==
  ASSUME NEW g, NEW item, Takes(g, item), NEW held,
         held = IF g.ret = NULL THEN roots ELSE roots \ {item}
  PROVE  Returns(g, held)
BY DEF Takes, Return, Returns

\* How many allocations succeed is a number.
LEMMA AllocationsAreNumbers ==
  ASSUME NEW most \in Nat, NEW n \in Allocations(most)
  PROVE  n \in Nat
BY DEF Allocations

\* cJSON_CreateNull and the others that create one item.
LEMMA CreateItemStep ==
  ASSUME HeapStands, CreateItem
  PROVE  StepDone
<1>1. PICK string \in BOOLEAN, n \in Allocations(2) : Gives(Create(Fuel(n), string))
  BY DEF CreateItem
<1> DEFINE f == Fuel(n)
           g == Create(f, string)
           O == {}
           held == IF g.ret = NULL THEN roots ELSE roots \cup {g.ret}
<1>2. /\ n \in Nat /\ f = Fuel(n) /\ O = {} /\ g = Create(f, string) /\ Gives(g)
      /\ held = IF g.ret = NULL THEN roots ELSE roots \cup {g.ret}
  BY <1>1, AllocationsAreNumbers
<1> HIDE DEF f, g, O, held
<1>3. Stands(f, kids, roots) /\ HeapInv(f, kids, roots, O)
  BY <1>2, CallStarts
<1>4. Makes(f, g, kids, roots, O)
  BY <1>2, <1>3, CreateMakes
<1>5. Returns(g, held)
  BY <1>2, GivesReturns
<1> QED BY <1>2, <1>3, <1>4, <1>5, GivesIsDone

\* cJSON_CreateIntArray and the three like it.
LEMMA CreateArrayStep ==
  ASSUME HeapStands, CreateArrayOf
  PROVE  StepDone
<1>1. PICK count \in 0..2, string \in BOOLEAN : \E n \in Allocations(1 + 2 * count) :
         Gives(cJSON_CreateArrayOf(Fuel(n), count, string))
  BY DEF CreateArrayOf
<1>2. PICK n \in Allocations(1 + 2 * count) :
         Gives(cJSON_CreateArrayOf(Fuel(n), count, string))
  BY <1>1
<1> DEFINE f == Fuel(n)
           g == cJSON_CreateArrayOf(f, count, string)
           O == {}
           held == IF g.ret = NULL THEN roots ELSE roots \cup {g.ret}
           most == 1 + 2 * count
<1>3. /\ f = Fuel(n) /\ O = {} /\ g = cJSON_CreateArrayOf(f, count, string) /\ Gives(g)
      /\ held = IF g.ret = NULL THEN roots ELSE roots \cup {g.ret}
      /\ most \in Nat /\ n \in Allocations(most) /\ count \in Nat
  BY <1>2
<1> HIDE DEF f, g, O, held, most
<1>4. n \in Nat
  BY <1>3, AllocationsAreNumbers
<1>5. Stands(f, kids, roots) /\ HeapInv(f, kids, roots, O)
  BY <1>3, <1>4, CallStarts
<1>6. O \subseteq f.live
  BY <1>3
<1>7. Makes(f, g, kids, roots, O)
  BY <1>3, <1>5, <1>6, CreateArrayMakes
<1>8. Returns(g, held)
  BY <1>3, GivesReturns
<1> QED BY <1>3, <1>5, <1>7, <1>8, GivesIsDone

\* cJSON_Duplicate.
LEMMA DuplicateStep ==
  ASSUME HeapStands, Duplicate
  PROVE  StepDone
<1>1. PICK item \in Forest!Used, recurse \in BOOLEAN, n \in Allocations(MaxFuel) :
         LET h == cJSON_Duplicate(Fuel(n), item, recurse) IN
         /\ heap' = [h EXCEPT !.fuel = 0, !.ret = NULL]
         /\ kids' = Members(h)
         /\ failed' = (h.ret = NULL)
         /\ roots' = IF h.ret = NULL THEN roots ELSE roots \cup {h.ret}
  BY DEF Duplicate
<1> DEFINE f == Fuel(n)
           g == cJSON_Duplicate(f, item, recurse)
           O == {}
           held == IF g.ret = NULL THEN roots ELSE roots \cup {g.ret}
<1>2. Returns(g, held)
  BY <1>1 DEF Returns
<1>3. /\ f = Fuel(n) /\ O = {} /\ g = cJSON_Duplicate(f, item, recurse)
      /\ held = IF g.ret = NULL THEN roots ELSE roots \cup {g.ret}
      /\ n \in Nat
  BY TreeAssumption, AllocationsAreNumbers
<1> HIDE DEF f, g, O, held
<1>4. Stands(f, kids, roots) /\ f \in Heaps /\ HeapInv(f, kids, roots, O) /\ SameItems(heap, f)
  BY <1>3, CallStarts
<1>5. item \in f.live
  <2>1. item \in heap.live
    BY ListsAreLive
  <2> QED BY <1>4, <2>1 DEF SameItems
<1>6. Makes(f, g, kids, roots, O)
  <2>1. HeapInv(f, kids, roots, {})
    BY <1>4 DEF Stands
  <2>2. Makes(f, g, kids, roots, {})
    BY <1>3, <1>4, <1>5, <2>1, DuplicateMakes
  <2> QED BY <1>3, <2>2
<1> QED BY <1>2, <1>3, <1>4, <1>6, GivesIsDone

\* cJSON_CreateArrayReference and cJSON_CreateObjectReference.
LEMMA CreateReferenceStep ==
  ASSUME HeapStands, CreateReference
  PROVE  StepDone
<1>1. PICK p \in Lists, n \in Allocations(1) :
         Gives(cJSON_CreateArrayReference(Fuel(n), heap.child[p]))
  BY DEF CreateReference
<1> DEFINE f == Fuel(n)
           child == heap.child[p]
           g == cJSON_CreateArrayReference(f, child)
           O == {}
           held == IF g.ret = NULL THEN roots ELSE roots \cup {g.ret}
<1>2. /\ n \in Nat /\ f = Fuel(n) /\ O = {} /\ g = cJSON_CreateArrayReference(f, child) /\ Gives(g)
      /\ held = IF g.ret = NULL THEN roots ELSE roots \cup {g.ret}
  BY <1>1, AllocationsAreNumbers
<1>3. child \in heap.live \cup {NULL}
  <2>1. p \in heap.live /\ Memory(heap)
    BY ListsAreLive, StandsFacts DEF HeapStands
  <2> QED BY <2>1 DEF Memory
<1> HIDE DEF f, g, O, held, child
<1>4. Stands(f, kids, roots) /\ SameItems(heap, f)
  BY <1>2, CallStarts
<1>5. child \in f.live \cup {NULL}
  BY <1>3, <1>4 DEF SameItems
<1>6. Refering(f, g, kids, roots)
  BY <1>2, <1>4, <1>5, ArrayReferenceRefers
<1>7. Returns(g, held)
  BY <1>2, GivesReturns
<1>8. PICK M : Outcome(g, kids, roots, M, held)
  BY <1>2, <1>4, <1>6, ReferenceOutcome
<1> QED BY <1>7, <1>8, ReturnIsDone
---------------------------------------------------------------------------
(* The calls that add. *)

\* cJSON_AddItemToArray.
LEMMA AddItemStep ==
  ASSUME HeapStands, AddItemToArray
  PROVE  StepDone
<1>1. PICK item \in roots, p \in Lists :
         MayJoin(item, p) /\ Takes(add_item_to_array(heap, p, item), item)
  BY DEF AddItemToArray
<1> DEFINE g == add_item_to_array(heap, p, item)
           Q == roots \ {item}
<1>2. g = add_item_to_array(heap, p, item) /\ Q = roots \ {item} /\ Takes(g, item)
  BY <1>1
<1> HIDE DEF g, Q
<1>3. Stands(heap, kids, roots) /\ p \in heap.live \ heap.ref /\ p \notin Tree(kids, item)
  BY <1>1, ListsAreLive, JoinIsNoCycle DEF HeapStands
<1>4. g.ret = TRUE /\ Stands(g, Added(kids, p, item), Q)
  BY <1>2, <1>3, AddStands
<1>5. PICK M : Outcome(g, kids, roots, M, Q)
  BY <1>2, <1>3, <1>4, AddOutcome
<1>6. Returns(g, Q)
  BY <1>2, <1>4, TreeAssumption, TakesReturns
<1> QED BY <1>5, <1>6, ReturnIsDone

\* cJSON_AddItemToObject and cJSON_AddItemToObjectCS.
LEMMA AddToObjectStep ==
  ASSUME HeapStands, AddItemToObject
  PROVE  StepDone
<1>1. PICK item \in roots, p \in Lists, name \in Names, constant \in BOOLEAN, n \in 0..1 :
         /\ MayJoin(item, p)
         /\ Takes(add_item_to_object(Fuel(n), p, name, item, constant), item)
  BY DEF AddItemToObject
<1> DEFINE f == Fuel(n)
           g == add_item_to_object(f, p, name, item, constant)
           Q == roots \ {item}
           O == {}
<1>2. /\ f = Fuel(n) /\ g = add_item_to_object(f, p, name, item, constant)
      /\ Q = roots \ {item} /\ Takes(g, item) /\ O = {} /\ n \in Nat
  BY <1>1
<1> HIDE DEF f, g, Q, O
<1>3. Stands(f, kids, roots) /\ SameItems(heap, f)
  BY <1>2, CallStarts
<1>4. p \in f.live \ f.ref /\ p \notin Tree(kids, item)
  <2>1. p \in heap.live \ heap.ref /\ p \notin Tree(kids, item)
    BY <1>1, ListsAreLive, JoinIsNoCycle
  <2> QED BY <1>3, <2>1 DEF SameItems
<1>5. \/ g.ret = NULL /\ SameItems(f, g)
      \/ g.ret = TRUE /\ g.ret # NULL /\ Stands(g, Added(kids, p, item), Q)
  <2>1. GetsNamed(f, g, kids, p, item, Q)
    BY <1>1, <1>2, <1>3, <1>4, AddToObjectStands
  <2> QED BY <2>1 DEF GetsNamed
<1>6. CASE g.ret = NULL
  <2>1. Stands(g, kids, roots)
    BY <1>3, <1>5, <1>6, SameItemsStand
  <2>2. Outcome(g, kids, roots, kids, roots)
    BY <2>1, NothingChanged
  <2>3. Returns(g, roots)
    BY <1>2, <1>6, TakesReturns
  <2> QED BY <2>2, <2>3, ReturnIsDone
<1>7. CASE g.ret # NULL
  <2>1. g.ret = TRUE /\ Stands(g, Added(kids, p, item), Q)
    BY <1>5, <1>7
  <2>2. PICK M : Outcome(g, kids, roots, M, Q)
    BY <1>2, <1>3, <1>4, <2>1, AddOutcome
  <2>3. Returns(g, Q)
    BY <1>2, <1>7, TakesReturns
  <2> QED BY <2>2, <2>3, ReturnIsDone
<1> QED BY <1>6, <1>7

\* A call that makes an item and adds it.
LEMMA NewIsDone ==
  ASSUME NEW f, Stands(f, kids, roots), NEW p \in f.live \ f.ref, NEW g,
         AddsNew(f, g, kids, roots, p), Return(g, roots)
  PROVE  StepDone
<1>1. PICK M : Outcome(g, kids, roots, M, roots)
  BY NewOutcome
<1>2. Returns(g, roots)
  BY DEF Return, Returns
<1> QED BY <1>1, <1>2, ReturnIsDone

\* cJSON_AddNullToObject and the eight like it.
LEMMA AddNewStep ==
  ASSUME HeapStands, AddNewToObject
  PROVE  StepDone
<1>1. PICK p \in Lists, name \in Names, string \in BOOLEAN, n \in Allocations(3) :
         Return(cJSON_AddNewToObject(Fuel(n), p, name, string), roots)
  BY DEF AddNewToObject
<1> DEFINE f == Fuel(n)
           g == cJSON_AddNewToObject(f, p, name, string)
           O == {}
<1>2. /\ f = Fuel(n) /\ g = cJSON_AddNewToObject(f, p, name, string)
      /\ Return(g, roots) /\ O = {} /\ n \in Nat
  BY <1>1, AllocationsAreNumbers
<1> HIDE DEF f, g, O
<1>3. Stands(f, kids, roots) /\ SameItems(heap, f)
  BY <1>2, CallStarts
<1>4. p \in f.live \ f.ref
  BY <1>3, ListsAreLive DEF SameItems
<1>5. AddsNew(f, g, kids, roots, p)
  BY <1>1, <1>2, <1>3, <1>4, AddNewStands
<1> QED BY <1>2, <1>3, <1>4, <1>5, NewIsDone

\* cJSON_AddItemReferenceToArray and cJSON_AddItemReferenceToObject.
LEMMA AddReferenceStep ==
  ASSUME HeapStands, AddReference
  PROVE  StepDone
<1>1. PICK p \in Lists, item \in Forest!Used, n \in Allocations(2) :
         \/ Return(cJSON_AddItemReferenceToArray(Fuel(n), p, item), roots)
         \/ \E name \in Names :
               Return(cJSON_AddItemReferenceToObject(Fuel(n), p, name, item), roots)
  BY DEF AddReference
<1> DEFINE f == Fuel(n)
           O == {}
<1>2. f = Fuel(n) /\ O = {} /\ n \in Nat
  BY <1>1, AllocationsAreNumbers
<1>3. \/ Return(cJSON_AddItemReferenceToArray(f, p, item), roots)
      \/ \E name \in Names : Return(cJSON_AddItemReferenceToObject(f, p, name, item), roots)
  BY <1>1
<1> HIDE DEF f, O
<1>4. Stands(f, kids, roots) /\ SameItems(heap, f)
  BY <1>2, CallStarts
<1>5. p \in f.live \ f.ref /\ item \in f.live
  BY <1>4, ListsAreLive DEF SameItems
<1>6. CASE Return(cJSON_AddItemReferenceToArray(f, p, item), roots)
  <2> DEFINE g == cJSON_AddItemReferenceToArray(f, p, item)
  <2>1. g = cJSON_AddItemReferenceToArray(f, p, item) /\ Return(g, roots)
    BY <1>6
  <2> HIDE DEF g
  <2>2. AddsNew(f, g, kids, roots, p)
    BY <1>4, <1>5, <2>1, ReferenceToArrayStands
  <2> QED BY <1>4, <1>5, <2>1, <2>2, NewIsDone
<1>7. ASSUME NEW name \in Names, Return(cJSON_AddItemReferenceToObject(f, p, name, item), roots)
      PROVE  StepDone
  <2> DEFINE g == cJSON_AddItemReferenceToObject(f, p, name, item)
  <2>1. g = cJSON_AddItemReferenceToObject(f, p, name, item) /\ Return(g, roots)
    BY <1>7
  <2> HIDE DEF g
  <2>2. AddsNew(f, g, kids, roots, p)
    BY <1>4, <1>5, <1>7, <2>1, ReferenceToObjectStands
  <2> QED BY <1>4, <1>5, <2>1, <2>2, NewIsDone
<1> QED BY <1>3, <1>6, <1>7

\* cJSON_InsertItemInArray.
LEMMA InsertStep ==
  ASSUME HeapStands, InsertItemInList
  PROVE  StepDone
<1>1. PICK p \in Lists, item \in roots : \E which \in 0..Len(kids[p]) :
         MayJoin(item, p) /\ Takes(InsertItemInArray(heap, p, which, item), item)
  BY DEF InsertItemInList
<1>2. PICK which \in 0..Len(kids[p]) :
         MayJoin(item, p) /\ Takes(InsertItemInArray(heap, p, which, item), item)
  BY <1>1
<1> DEFINE s == kids[p]
           k == which + 1
           t == InsertAt(s, k, item)
           M == [kids EXCEPT ![p] = t]
           g == InsertItemInArray(heap, p, which, item)
           Q == roots \ {item}
<1>3. /\ s = kids[p] /\ which \in 0..Len(s) /\ k = which + 1 /\ t = InsertAt(s, k, item)
      /\ g = InsertItemInArray(heap, p, which, item) /\ Q = roots \ {item} /\ Takes(g, item)
  BY <1>2
<1>4. Relisted(kids, p, t, M)
  BY DEF Relisted
<1> HIDE DEF s, k, t, M, g, Q
<1>5. Stands(heap, kids, roots) /\ p \in heap.live \ heap.ref /\ p \notin Tree(kids, item)
  BY <1>2, ListsAreLive, JoinIsNoCycle DEF HeapStands
<1>6. g.ret = TRUE /\ Stands(g, M, Q)
  BY <1>3, <1>4, <1>5, InsertStands
<1>7. Outcome(g, kids, roots, M, Q)
  BY <1>3, <1>4, <1>5, <1>6, InsertOutcome
<1>8. Returns(g, Q)
  BY <1>3, <1>6, TreeAssumption, TakesReturns
<1> QED BY <1>7, <1>8, ReturnIsDone
---------------------------------------------------------------------------
(* The calls that detach, delete and replace. *)

\* What a caller chooses by an index or a name is a member, or NULL.
LEMMA ChosenFacts ==
  ASSUME HeapStands, NEW p \in heap.live \ heap.ref, NEW item \in Chosen(p),
         NEW s, s = kids[p]
  PROVE  item = NULL \/ \E k \in 1..Len(s) : item = s[k]
<1>1. Stands(heap, kids, roots)
  BY DEF HeapStands
<1>2. p \in Items /\ IsHeap(heap) /\ IsList(heap, p, s) /\ s \in Seq(Items)
  BY <1>1, StandsFacts
<1>3. ASSUME NEW which \in 0..Cardinality(Items), item = get_array_item(heap, p, which)
      PROVE  item = NULL \/ \E k \in 1..Len(s) : item = s[k]
  <2>1. which \in Nat
    OBVIOUS
  <2>2. item = IF which < Len(s) THEN s[which + 1] ELSE NULL
    BY <1>2, <1>3, <2>1, ItemAtIndex
  <2>3. which < Len(s) => which + 1 \in 1..Len(s)
    BY <1>2, <2>1
  <2> QED BY <2>2, <2>3
<1>4. ASSUME NEW name \in Names, NEW cs \in BOOLEAN, item = get_object_item(heap, p, name, cs)
      PROVE  item = NULL \/ \E k \in 1..Len(s) : item = s[k]
  BY <1>1, <1>4, FoundFacts
<1> QED BY <1>3, <1>4 DEF Chosen

\* A member is an item.
LEMMA MemberFactsOf ==
  ASSUME HeapStands, NEW p \in heap.live \ heap.ref, NEW s, s = kids[p],
         NEW k \in 1..Len(s), NEW item, item = s[k]
  PROVE  item \in Items /\ item # NULL
<1>1. s \in Seq(Items)
  BY StandsFacts DEF HeapStands
<1> QED BY <1>1, ItemsAssumption

\* A call that finds no member returns NULL and does nothing.
LEMMA NothingIsDone ==
  ASSUME NEW f, Stands(f, kids, roots), NEW g, SameItems(f, g), g.ret = NULL, Returns(g, roots)
  PROVE  StepDone
<1>1. Stands(g, kids, roots)
  BY SameItemsStand
<1>2. Outcome(g, kids, roots, kids, roots)
  BY <1>1, NothingChanged
<1> QED BY <1>2, ReturnIsDone

\* cJSON_DetachItemFromArray and cJSON_DetachItemFromObject.
LEMMA DetachStep ==
  ASSUME HeapStands, DetachItem
  PROVE  StepDone
<1>1. PICK p \in Lists : \E item \in Chosen(p) : Gives(DetachItemViaPointer(heap, p, item))
  BY DEF DetachItem
<1>2. PICK item \in Chosen(p) : Gives(DetachItemViaPointer(heap, p, item))
  BY <1>1
<1> DEFINE s == kids[p]
           g == DetachItemViaPointer(heap, p, item)
           held == IF g.ret = NULL THEN roots ELSE roots \cup {g.ret}
<1>3. /\ g = DetachItemViaPointer(heap, p, item) /\ s = kids[p] /\ Gives(g)
      /\ held = IF g.ret = NULL THEN roots ELSE roots \cup {g.ret}
  BY <1>2
<1> HIDE DEF s, g, held
<1>4. Returns(g, held)
  BY <1>3, GivesReturns
<1>5. Stands(heap, kids, roots) /\ p \in heap.live \ heap.ref /\ heap \in AnyHeap
  BY ListsAreLive, StandsFacts DEF HeapStands
<1>6. item = NULL \/ \E k \in 1..Len(s) : item = s[k]
  BY <1>3, <1>5, ChosenFacts
<1>7. CASE item = NULL
  <2>1. g = Ret(heap, NULL)
    BY <1>3, <1>7 DEF DetachItemViaPointer
  <2>2. SameItems(heap, g) /\ g.ret = NULL
    BY <1>5, <2>1, RetFacts
  <2>3. Returns(g, roots)
    BY <1>3, <1>4, <2>2
  <2> QED BY <1>5, <2>2, <2>3, NothingIsDone
<1>8. CASE item # NULL
  <2>1. PICK k \in 1..Len(s) : item = s[k]
    BY <1>6, <1>8
  <2> DEFINE t == RemoveAt(s, k)
             M == [kids EXCEPT ![p] = t]
             Q == roots \cup {item}
  <2>2. t = RemoveAt(s, k) /\ Q = roots \cup {item}
    OBVIOUS
  <2>3. Relisted(kids, p, t, M)
    BY DEF Relisted
  <2> HIDE DEF t, M, Q
  <2>4. Detaches(heap, g, p, item, M, Q)
    BY <1>3, <1>5, <2>1, <2>2, <2>3, DetachStands
  <2>5. g.ret = item /\ Stands(g, M, Q)
    BY <2>4 DEF Detaches, Relists
  <2>6. Outcome(g, kids, roots, M, Q)
    BY <1>3, <1>5, <2>1, <2>2, <2>3, <2>5, DetachOutcome
  <2>7. Returns(g, Q)
    BY <1>3, <1>4, <1>8, <2>2, <2>5
  <2> QED BY <2>6, <2>7, ReturnIsDone
<1> QED BY <1>7, <1>8

\* cJSON_DeleteItemFromArray and cJSON_DeleteItemFromObject.
LEMMA DeleteItemStep ==
  ASSUME HeapStands, DeleteItem
  PROVE  StepDone
<1>1. PICK p \in Lists : \E item \in Chosen(p) :
         LET detached == DetachItemViaPointer(heap, p, item) IN
         /\ item # NULL => MayFree(Below(item))
         /\ Return(cJSON_Delete(detached, detached.ret), roots)
  BY DEF DeleteItem
<1>2. PICK item \in Chosen(p) :
         LET detached == DetachItemViaPointer(heap, p, item) IN
         /\ item # NULL => MayFree(Below(item))
         /\ Return(cJSON_Delete(detached, detached.ret), roots)
  BY <1>1
<1> DEFINE s == kids[p]
           f == DetachItemViaPointer(heap, p, item)
           g == cJSON_Delete(f, f.ret)
<1>3. /\ f = DetachItemViaPointer(heap, p, item) /\ s = kids[p] /\ g = cJSON_Delete(f, f.ret)
      /\ Return(g, roots) /\ (item # NULL => MayFree(Below(item)))
  BY <1>2
<1> HIDE DEF s, f, g
<1>4. Returns(g, roots)
  BY <1>3 DEF Return, Returns
<1>5. Stands(heap, kids, roots) /\ p \in heap.live \ heap.ref /\ heap \in AnyHeap
  BY ListsAreLive, StandsFacts DEF HeapStands
<1>6. item = NULL \/ \E k \in 1..Len(s) : item = s[k]
  BY <1>3, <1>5, ChosenFacts
<1>7. CASE item = NULL
  <2>1. f = Ret(heap, NULL)
    BY <1>3, <1>7 DEF DetachItemViaPointer
  <2>2. SameItems(heap, f) /\ f.ret = NULL
    BY <1>5, <2>1, RetFacts
  <2>3. g = f
    BY <1>3, <2>2 DEF cJSON_Delete
  <2> QED BY <1>4, <1>5, <2>2, <2>3, NothingIsDone
<1>8. CASE item # NULL
  <2>1. PICK k \in 1..Len(s) : item = s[k]
    BY <1>6, <1>8
  <2> DEFINE D == Tree(kids, item)
             M == Pruned([kids EXCEPT ![p] = RemoveAt(@, k)], Tree(kids, kids[p][k]))
  <2>2. D = Tree(kids, item)
    OBVIOUS
  <2>3. Removed(kids, p, k, M)
    BY DEF Removed
  <2> HIDE DEF D, M
  <2>4. item \in Items
    BY <1>3, <1>5, <2>1, MemberFactsOf
  <2>5. Unneeded(heap, D)
    <3>1. SameItems(heap, heap)
      BY <1>5 DEF SameItems
    <3> QED BY <1>3, <1>8, <2>2, <2>4, <3>1, FreedIsUnneeded
  <2>6. Stands(g, M, roots) /\ g.ret # NULL
    BY <1>3, <1>5, <2>1, <2>2, <2>3, <2>5, DeleteMemberStands
  <2>7. Outcome(g, kids, roots, M, roots)
    BY <1>3, <1>5, <2>1, <2>3, <2>6, DeleteMemberOutcome
  <2> QED BY <1>4, <2>7, ReturnIsDone
<1> QED BY <1>7, <1>8

\* cJSON_ReplaceItemViaPointer and cJSON_ReplaceItemInArray.
LEMMA ReplaceStep ==
  ASSUME HeapStands, ReplaceItem
  PROVE  StepDone
<1>1. PICK p \in Lists, new \in roots : \E item \in Chosen(p) :
         /\ MayJoin(new, p) /\ (item # NULL => MayFree(Below(item)))
         /\ Takes(cJSON_ReplaceItemViaPointer(heap, p, item, new), new)
  BY DEF ReplaceItem
<1>2. PICK item \in Chosen(p) :
         /\ MayJoin(new, p) /\ (item # NULL => MayFree(Below(item)))
         /\ Takes(cJSON_ReplaceItemViaPointer(heap, p, item, new), new)
  BY <1>1
<1> DEFINE s == kids[p]
           g == cJSON_ReplaceItemViaPointer(heap, p, item, new)
           Q == roots \ {new}
<1>3. /\ g = cJSON_ReplaceItemViaPointer(heap, p, item, new) /\ s = kids[p] /\ Q = roots \ {new}
      /\ Takes(g, new) /\ MayJoin(new, p) /\ (item # NULL => MayFree(Below(item)))
  BY <1>2
<1> HIDE DEF s, g, Q
<1>4. /\ Stands(heap, kids, roots) /\ p \in heap.live \ heap.ref /\ heap \in AnyHeap
      /\ p \notin Tree(kids, new)
  BY <1>3, ListsAreLive, StandsFacts, JoinIsNoCycle DEF HeapStands
<1>5. item = NULL \/ \E k \in 1..Len(s) : item = s[k]
  BY <1>3, <1>4, ChosenFacts
<1>6. CASE item = NULL
  <2>1. g = cJSON_ReplaceItemViaPointer(heap, p, NULL, new)
    BY <1>3, <1>6
  <2>2. SameItems(heap, g) /\ g.ret = NULL
    BY <1>4, <2>1, ReplaceNothing
  <2>3. Returns(g, roots)
    BY <1>3, <2>2, TakesReturns
  <2> QED BY <1>4, <2>2, <2>3, NothingIsDone
<1>7. CASE item # NULL
  <2>1. PICK k \in 1..Len(s) : item = s[k]
    BY <1>5, <1>7
  <2> DEFINE D == Tree(kids, item)
             M == Pruned([kids EXCEPT ![p][k] = new], Tree(kids, kids[p][k]))
  <2>2. D = Tree(kids, item)
    OBVIOUS
  <2>3. ReplacedBy(kids, p, k, new, M)
    BY DEF ReplacedBy
  <2> HIDE DEF D, M
  <2>4. item \in Items
    BY <1>3, <1>4, <2>1, MemberFactsOf
  <2>5. Unneeded(heap, D)
    <3>1. SameItems(heap, heap)
      BY <1>4 DEF SameItems
    <3> QED BY <1>3, <1>7, <2>2, <2>4, <3>1, FreedIsUnneeded
  <2>6. Replaces(g, M, Q)
    BY <1>3, <1>4, <2>1, <2>2, <2>3, <2>5, ReplaceItemStands
  <2>7. Stands(g, M, Q) /\ g.ret = TRUE /\ g.ret # NULL
    BY <2>6, TreeAssumption DEF Replaces
  <2>8. Outcome(g, kids, roots, M, Q)
    BY <1>3, <1>4, <2>1, <2>3, <2>7, ReplaceOutcome
  <2>9. Returns(g, Q)
    BY <1>3, <2>7, TakesReturns
  <2> QED BY <2>8, <2>9, ReturnIsDone
<1> QED BY <1>6, <1>7

\* cJSON_ReplaceItemInObject and its case sensitive twin.
LEMMA ReplaceInObjectStep ==
  ASSUME HeapStands, ReplaceItemInObject
  PROVE  StepDone
<1>1. PICK p \in Lists, new \in roots, name \in Names, cs \in BOOLEAN, n \in 0..1 :
         LET item == get_object_item(heap, p, name, cs) IN
         /\ MayJoin(new, p) /\ (item # NULL => MayFree(Below(item)))
         /\ Takes(replace_item_in_object(Fuel(n), p, name, new, cs), new)
  BY DEF ReplaceItemInObject
<1> DEFINE s == kids[p]
           f == Fuel(n)
           item == get_object_item(heap, p, name, cs)
           g == replace_item_in_object(f, p, name, new, cs)
           Q == roots \ {new}
           D == Tree(kids, item)
           O == {}
<1>2. /\ g = replace_item_in_object(f, p, name, new, cs) /\ s = kids[p] /\ Q = roots \ {new}
      /\ f = Fuel(n) /\ n \in Nat /\ item = get_object_item(heap, p, name, cs)
      /\ Takes(g, new) /\ MayJoin(new, p) /\ (item # NULL => MayFree(Below(item)))
      /\ D = Tree(kids, item) /\ O = {}
  BY <1>1
<1> HIDE DEF s, f, item, g, Q, D, O
<1>3. /\ Stands(heap, kids, roots) /\ p \in heap.live \ heap.ref /\ p \notin Tree(kids, new)
  BY <1>2, ListsAreLive, JoinIsNoCycle DEF HeapStands
<1>4. Stands(f, kids, roots) /\ SameItems(heap, f)
  BY <1>2, CallStarts
<1>5. p \in f.live \ f.ref /\ f.live = heap.live /\ f.ref = heap.ref /\ f.key = heap.key
  BY <1>3, <1>4 DEF SameItems
<1>6. item = get_object_item(f, p, name, cs)
  <2>1. new \notin ToSet(s) /\ new \in Items
    BY <1>2, <1>3, RootsAreNoMembers, StandsFacts
  <2>2. \A j \in Items : j # new => f.key[j] = heap.key[j]
    BY <1>5
  <2>3. /\ Stands(heap, kids, roots) /\ p \in heap.live \ heap.ref /\ s = kids[p]
        /\ Stands(f, kids, roots) /\ f.live = heap.live /\ f.ref = heap.ref
    BY <1>2, <1>3, <1>4, <1>5
  <2>4. get_object_item(f, p, name, cs) = get_object_item(heap, p, name, cs)
    BY ONLY <2>1, <2>2, <2>3, FoundIsKept
  <2> QED BY <1>2, <2>4
<1>7. item # NULL => Unneeded(f, D)
  <2> SUFFICES ASSUME item # NULL
               PROVE  Unneeded(f, D)
    OBVIOUS
  <2>1. \E k \in 1..Len(s) : item = s[k]
    BY <1>2, <1>3, FoundFacts
  <2>2. item \in Items
    BY <1>2, <1>3, <2>1, MemberFactsOf
  <2> QED BY <1>2, <1>4, <2>2, FreedIsUnneeded
<1>8. MayGiveWay(g, kids, roots, p, item, new)
  BY <1>1, <1>2, <1>3, <1>4, <1>5, <1>6, <1>7, ReplaceInObjectStands
<1>9. CASE g.ret = NULL /\ Stands(g, kids, roots)
  <2>1. Outcome(g, kids, roots, kids, roots)
    BY <1>9, NothingChanged
  <2>2. Returns(g, roots)
    BY <1>2, <1>9, TakesReturns
  <2> QED BY <2>1, <2>2, ReturnIsDone
<1>10. ASSUME g.ret = TRUE, NEW k \in 1..Len(s), NEW M,
              ReplacedBy(kids, p, k, new, M), Stands(g, M, Q)
       PROVE  StepDone
  <2>1. Outcome(g, kids, roots, M, Q)
    BY <1>2, <1>3, <1>4, <1>5, <1>10, ReplaceOutcome
  <2>2. g.ret # NULL
    BY <1>10, TreeAssumption
  <2>3. Returns(g, Q)
    BY <1>2, <2>2, TakesReturns
  <2> QED BY <2>1, <2>3, ReturnIsDone
<1> QED BY <1>2, <1>8, <1>9, <1>10 DEF MayGiveWay

\* cJSON_Delete.
LEMMA DeleteStep ==
  ASSUME HeapStands, Delete
  PROVE  StepDone
<1>1. PICK item \in roots :
         /\ MayFree(Below(item))
         /\ Return(Ret(cJSON_Delete(heap, item), TRUE), roots \ {item})
  BY DEF Delete
<1> DEFINE f == cJSON_Delete(heap, item)
           g == Ret(f, TRUE)
           Q == roots \ {item}
           D == Tree(kids, item)
           M == Pruned(kids, D)
<1>2. /\ f = cJSON_Delete(heap, item) /\ g = Ret(f, TRUE) /\ Q = roots \ {item}
      /\ D = Tree(kids, item) /\ M = Pruned(kids, D) /\ M = Pruned(kids, Tree(kids, item))
  OBVIOUS
<1>3. Returns(g, Q)
  BY <1>1 DEF Return, Returns
<1> HIDE DEF f, g, Q, D, M
<1>4. Stands(heap, kids, roots) /\ heap \in AnyHeap /\ item \in Items
  BY StandsFacts DEF HeapStands
<1>5. Unneeded(heap, D)
  <2>1. SameItems(heap, heap)
    BY <1>4 DEF SameItems
  <2> QED BY <1>1, <1>2, <1>4, <2>1, FreedIsUnneeded
<1>6. Stands(f, M, Q)
  BY <1>2, <1>4, <1>5, DeleteStands
<1>7. SameItems(f, g) /\ g.ret = TRUE
  <2>1. f \in AnyHeap
    BY <1>6, StandsFacts
  <2> QED BY <1>2, <2>1, RetFacts
<1>8. Stands(g, M, Q)
  BY <1>6, <1>7, SameItemsStand
<1>9. g.ret # NULL
  BY <1>7, TreeAssumption
<1>10. Outcome(g, kids, roots, M, Q)
  BY <1>2, <1>4, <1>8, <1>9, DropOutcome
<1> QED BY <1>3, <1>10, ReturnIsDone
---------------------------------------------------------------------------
(* The invariant. *)

\* An empty heap stands for no trees.
LEMMA InitStands ==
  ASSUME Init
  PROVE  HeapStands
<1> DEFINE h == EmptyHeap
           L == [i \in Items |-> <<>>]
           O == {}
<1>1. h \in AnyHeap
  BY DEF EmptyHeap, AnyHeap
<1>2. /\ h.live = {} /\ h.ref = {} /\ h.const = {} /\ h.strings = 0 /\ h.sound = TRUE
      /\ h.fuel = 0 /\ h.ret = NULL
      /\ \A i \in Items : /\ h.next[i] = NULL /\ h.prev[i] = NULL /\ h.child[i] = NULL
                          /\ h.key[i] = NULL /\ h.text[i] = NULL
  BY DEF EmptyHeap
<1>3. heap = h /\ roots = {} /\ kids = Members(h) /\ Members(h) = L
  BY <1>2 DEF Init, Members
<1>4. L \in [Items -> Seq(Items)] /\ \A i \in Items : L[i] = <<>> /\ ToSet(L[i]) = {}
  BY DEF ToSet
<1> HIDE DEF h, L, O
<1>5. Shape(h, L, roots, O)
  <2>1. Acyclic(L)
    BY <1>4 DEF Acyclic
  <2> QED BY <1>2, <1>3, <1>4, <2>1 DEF Shape
<1>6. Memory(h)
  <2>1. {i \in h.live : OwnsKey(h, i)} = {} /\ {i \in h.live : OwnsText(h, i)} = {}
    BY <1>2
  <2>2. Strings(h) = 0
    BY <2>1, FS_EmptySet DEF Strings
  <2> QED BY <1>2, <2>2 DEF Memory
<1>7. Kept(h, L, roots)
  BY <1>2 DEF Kept
<1>8. HeapInv(h, L, roots, O)
  BY <1>1, <1>5, <1>6, <1>7 DEF HeapInv
<1>9. Stands(h, L, roots)
  BY <1>8 DEF Stands, O
<1> QED BY <1>2, <1>3, <1>9 DEF HeapStands

\* Every call is a step as it should be.
LEMMA NextIsDone ==
  ASSUME HeapStands, Next
  PROVE  StepDone
BY CreateItemStep, CreateArrayStep, CreateReferenceStep, AddItemStep, AddToObjectStep,
   AddNewStep, AddReferenceStep, DetachStep, DeleteItemStep, InsertStep, ReplaceStep,
   ReplaceInObjectStep, DuplicateStep, DeleteStep DEF Next

\* After every call the heap stands for the caller's trees: all lists are linked
\* as they must be, all pointers lead to memory that is there, and all memory is
\* reached from the caller's items.
THEOREM HeapAlwaysStands == Spec => []HeapStands
<1>1. Init => HeapStands
  BY InitStands
<1>2. HeapStands /\ [Next]_vars => HeapStands'
  <2> SUFFICES ASSUME HeapStands, [Next]_vars
               PROVE  HeapStands'
    OBVIOUS
  <2>1. CASE Next
    BY <2>1, NextIsDone DEF StepDone
  <2>2. CASE UNCHANGED vars
    BY <2>2 DEF vars, HeapStands
  <2> QED BY <2>1, <2>2
<1> QED BY <1>1, <1>2, PTL DEF Spec

\* No call leaves a list whose links do not go both ways, whatever failed in it.
THEOREM ListsAreWellLinked == Spec => []ListsWellLinked
<1>1. HeapStands => ListsWellLinked
  <2> SUFFICES ASSUME HeapStands, NEW p \in Lists
               PROVE  WellLinked(heap, p)
    BY DEF ListsWellLinked
  <2>1. Stands(heap, kids, roots) /\ p \in heap.live \ heap.ref
    BY ListsAreLive DEF HeapStands
  <2> DEFINE s == kids[p]
  <2>2. IsList(heap, p, s) /\ IsHeap(heap) /\ p \in Items
    BY <2>1, StandsFacts
  <2> HIDE DEF s
  <2> QED BY <2>2, ListIsWellLinked
<1> QED BY <1>1, HeapAlwaysStands, PTL

\* The links of an item lead to items that are there.
LEMMA LinksAreLive ==
  ASSUME NEW h, NEW L, NEW R, Stands(h, L, R), NEW i \in h.live
  PROVE  h.next[i] \in h.live \cup {NULL} /\ h.prev[i] \in h.live \cup {NULL}
<1>1. i \in Items /\ \A p \in Items : ToSet(L[p]) \subseteq h.live
  BY StandsFacts
<1>2. CASE ~IsMember(L, i)
  BY <1>1, <1>2, StandsFacts
<1>3. CASE IsMember(L, i)
  <2>1. PICK p \in Items : i \in ToSet(L[p])
    BY <1>3 DEF IsMember
  <2> DEFINE s == L[p]
             n == Len(s)
  <2>2. s # <<>>
    BY <2>1 DEF ToSet
  <2>3. p \in h.live \ h.ref
    BY <2>2, StandsFacts
  <2>4. IsList(h, p, s) /\ s \in Seq(Items) /\ i \in ToSet(s) /\ ToSet(s) \subseteq h.live
    BY <1>1, <2>1, <2>3, StandsFacts
  <2> HIDE DEF s
  <2>5. PICK k \in 1..n : s[k] = i
    BY <2>4 DEF ToSet
  <2>6. \A j \in 1..n : s[j] \in h.live
    BY <2>4 DEF ToSet
  <2>7. h.next[s[k]] = (IF k = n THEN NULL ELSE s[k + 1])
        /\ h.prev[s[k]] = (IF k = 1 THEN s[n] ELSE s[k - 1])
    BY <2>4 DEF IsList
  <2>8. n \in Nat /\ n \in 1..n /\ (k # n => k + 1 \in 1..n) /\ (k # 1 => k - 1 \in 1..n)
    BY <2>4
  <2> QED BY <2>5, <2>6, <2>7, <2>8
<1> QED BY <1>2, <1>3

\* Nothing is freed twice, and no pointer leads to memory that was freed.
THEOREM NothingEverDangles == Spec => []NothingDangles
<1>1. HeapStands => NothingDangles
  <2> SUFFICES ASSUME HeapStands
               PROVE  NothingDangles
    OBVIOUS
  <2>1. Stands(heap, kids, roots)
    BY DEF HeapStands
  <2>2. /\ heap \in AnyHeap /\ Memory(heap) /\ heap.live \in SUBSET Items
        /\ roots \subseteq heap.live /\ heap.ref \subseteq heap.live /\ heap.const \subseteq heap.live
    BY <2>1, StandsFacts
  <2>3. heap.strings \in Nat
    <3>1. \A S \in SUBSET heap.live : Cardinality(S) \in Nat
      BY <2>2, ItemsAssumption, FS_Subset, FS_CardinalityType
    <3>2. heap.strings = Strings(heap)
      BY <2>2 DEF Memory
    <3> DEFINE K == {i \in heap.live : OwnsKey(heap, i)}
               T == {i \in heap.live : OwnsText(heap, i)}
    <3>3. K \in SUBSET heap.live /\ T \in SUBSET heap.live
      OBVIOUS
    <3>4. heap.strings = Cardinality(K) + Cardinality(T)
      BY <3>2 DEF Strings
    <3> HIDE DEF K, T
    <3>5. Cardinality(K) \in Nat /\ Cardinality(T) \in Nat
      BY <3>1, <3>3
    <3> QED BY <3>4, <3>5
  <2>4. TypeOK
    BY <2>2, <2>3, AnyHeapTypes DEF TypeOK
  <2>5. heap.sound
    BY <2>2 DEF Memory
  <2>6. ASSUME NEW i \in heap.live
        PROVE  {heap.next[i], heap.prev[i], heap.child[i], heap.text[i]} \subseteq heap.live \cup {NULL}
    <3>1. heap.next[i] \in heap.live \cup {NULL} /\ heap.prev[i] \in heap.live \cup {NULL}
      BY <2>1, LinksAreLive
    <3>2. heap.child[i] \in heap.live \cup {NULL} /\ heap.text[i] \in heap.live \cup {NULL}
      BY <2>2 DEF Memory
    <3> QED BY <3>1, <3>2
  <2> QED BY <2>4, <2>5, <2>6 DEF NothingDangles
<1> QED BY <1>1, HeapAlwaysStands, PTL

\* No call loses an item or a string, except the reference that
\* cJSON_AddItemReferenceToObject does not delete.
THEOREM NothingIsEverLost == Spec => []NothingLost
<1>1. HeapStands => NothingLost
  <2> SUFFICES ASSUME HeapStands
               PROVE  NothingLost
    OBVIOUS
  <2>1. Stands(heap, kids, roots)
    BY DEF HeapStands
  <2>2. \A i \in heap.live \ Forest!Used : i \in heap.ref /\ heap.key[i] = NULL
    BY <2>1, UsedFacts, ListsAreLive
  <2>3. heap.strings = Strings(heap)
    BY <2>1, StandsFacts DEF Memory
  <2> QED BY <2>2, <2>3 DEF NothingLost, Strings
<1> QED BY <1>1, HeapAlwaysStands, PTL

\* A call that fails leaves the caller's trees as they were.
THEOREM FailuresChangeNothing == Spec => FailureChangesNothing
<1>1. HeapStands /\ [Next]_vars => [failed' => UNCHANGED <<kids, roots>>]_vars
  <2> SUFFICES ASSUME HeapStands, Next
               PROVE  failed' => UNCHANGED <<kids, roots>>
    OBVIOUS
  <2>1. StepDone
    BY NextIsDone
  <2> QED BY <2>1 DEF StepDone, SameTrees
<1> QED BY <1>1, HeapAlwaysStands, PTL DEF Spec, FailureChangesNothing
---------------------------------------------------------------------------
(* The calls implement the forest. *)

\* The forest inserts and removes as the library does ...
LEMMA ForestOperators ==
  ASSUME NEW s, NEW k, NEW i
  PROVE  /\ Forest!InsertAt(s, k, i) = InsertAt(s, k, i)
         /\ Forest!RemoveAt(s, k) = RemoveAt(s, k)
BY DEF Forest!InsertAt, InsertAt, Forest!RemoveAt, RemoveAt

\* ... prunes as the lists above are pruned ...
LEMMA ForestWithout ==
  ASSUME NEW L, NEW D
  PROVE  Forest!Without(L, D) = Pruned(L, D)
BY DEF Forest!Without, Pruned

\* ... and has the same trees.
LEMMA ForestTrees ==
  ASSUME HeapStands
  PROVE  /\ \A i : Forest!Descendants(i) = Tree(kids, i)
         /\ \A i : Forest!Descendants(i)' = Tree(kids', i)
         /\ Forest!Used = UsedOf(kids, roots)
<1>1. \A i : Forest!Descendants(i) = Tree(kids, i)
  BY DEF Forest!Descendants, Forest!ToSet, ToSet, Tree, Edges
<1>2. \A i : Forest!Descendants(i)' = Tree(kids', i)
  BY DEF Forest!Descendants, Forest!ToSet, ToSet, Tree, Edges
<1> QED BY <1>1, <1>2, ListsAreLive

\* What happens to the list of p is a step of the forest.
LEMMA ListChangeIsAllowed ==
  ASSUME HeapStands, NEW p \in UsedOf(kids, roots), kids'[p] # kids[p],
         ListChanges(kids, roots, kids', roots', p)
  PROVE  Forest!Next
<1>1. p \in Items /\ p \in Forest!Used
  BY ListsAreLive
<1>2. <<kids, roots>>' # <<kids, roots>>
  OBVIOUS
<1>3. ASSUME NEW i, JoinsNew(kids, roots, kids', roots', p, i)
      PROVE  Forest!Next
  <2>1. i \in Items /\ Forest!AttachNew(p, i)
    BY <1>1, <1>3, ForestTrees DEF JoinsNew, Added, Forest!AttachNew
  <2> QED BY <1>1, <1>2, <2>1 DEF Forest!Next
<1>4. ASSUME NEW k, NEW i, Joins(kids, roots, kids', roots', p, k, i)
      PROVE  Forest!Next
  <2>1. i \in roots \ roots' /\ k \in 0..Len(kids[p])
    BY <1>4 DEF Joins
  <2>2. Forest!Attach(p, k, i)
    BY <1>1, <1>4, ForestTrees, ForestOperators DEF Joins, Forest!Attach
  <2> QED BY <1>1, <1>2, <2>1, <2>2 DEF Forest!Next
<1>5. ASSUME NEW k, NEW i, Displaces(kids, roots, kids', roots', p, k, i)
      PROVE  Forest!Next
  <2>1. i \in roots \ roots' /\ k \in DOMAIN kids[p]
    BY <1>5 DEF Displaces
  <2>2. Forest!Replace(p, k, i)
    BY <1>1, <1>5, ForestTrees, ForestWithout DEF Displaces, ReplacedBy, Forest!Replace
  <2> QED BY <1>1, <1>2, <2>1, <2>2 DEF Forest!Next
<1>6. ASSUME NEW k, Leaves(kids, roots, kids', roots', p, k)
      PROVE  Forest!Next
  <2>1. k \in DOMAIN kids[p]
    BY <1>6 DEF Leaves
  <2>2. Forest!Detach(p, k)
    BY <1>1, <1>6, ForestOperators DEF Leaves, Forest!Detach
  <2> QED BY <1>1, <1>2, <2>1, <2>2 DEF Forest!Next
<1>7. ASSUME NEW k, Vanishes(kids, roots, kids', roots', p, k)
      PROVE  Forest!Next
  <2>1. k \in DOMAIN kids[p]
    BY <1>7 DEF Vanishes
  <2>2. Forest!Erase(p, k)
    BY <1>1, <1>7, ForestTrees, ForestOperators, ForestWithout DEF Vanishes, Removed, Forest!Erase
  <2> QED BY <1>1, <1>2, <2>1, <2>2 DEF Forest!Next
<1> QED BY <1>3, <1>4, <1>5, <1>6, <1>7 DEF ListChanges

\* Every change is a step of the forest.
LEMMA ChangeIsAllowed ==
  ASSUME HeapStands, Changes(kids, roots, kids', roots'), ~SameTrees
  PROVE  Forest!Next
<1>1. <<kids, roots>>' # <<kids, roots>>
  BY DEF SameTrees
<1>2. ASSUME NEW i, Grows(kids, roots, kids', roots', i)
      PROVE  Forest!Next
  <2>1. i \in roots' \ roots
    BY <1>2 DEF Grows
  <2>2. Forest!Grow(i)
    BY <1>2, ForestTrees DEF Grows, Forest!Grow
  <2> QED BY <1>1, <2>1, <2>2 DEF Forest!Next
<1>3. ASSUME NEW i, Drops(kids, roots, kids', roots', i)
      PROVE  Forest!Next
  <2>1. i \in roots \ roots'
    BY <1>3 DEF Drops
  <2>2. Forest!Discard(i)
    BY <1>3, ForestTrees, ForestWithout DEF Drops, Forest!Discard
  <2> QED BY <1>1, <2>1, <2>2 DEF Forest!Next
<1> QED BY <1>2, <1>3, ListChangeIsAllowed DEF Changes

\* Every call changes the caller's trees as JsonForest allows, or not at all.
THEOREM CallsImplementForest == Spec => ImplementsForest
<1>1. Init => Forest!Init
  <2> SUFFICES ASSUME Init
               PROVE  Forest!Init
    OBVIOUS
  <2>1. kids = Members(EmptyHeap) /\ roots = {} /\ EmptyHeap.live = {}
    BY DEF Init, EmptyHeap
  <2>2. Members(EmptyHeap) = [i \in Items |-> <<>>]
    BY <2>1 DEF Members
  <2> QED BY <2>1, <2>2 DEF Forest!Init
<1>2. HeapStands /\ [Next]_vars => [Forest!Next]_<<kids, roots>>
  <2> SUFFICES ASSUME HeapStands, [Next]_vars
               PROVE  [Forest!Next]_<<kids, roots>>
    OBVIOUS
  <2>1. CASE Next
    <3>1. SameTrees \/ Changes(kids, roots, kids', roots')
      BY <2>1, NextIsDone DEF StepDone
    <3>2. CASE SameTrees
      BY <3>2 DEF SameTrees
    <3>3. CASE ~SameTrees
      <4>1. Forest!Next
        BY <3>1, <3>3, ChangeIsAllowed
      <4> QED BY <4>1
    <3> QED BY <3>2, <3>3
  <2>2. CASE UNCHANGED vars
    BY <2>2 DEF vars
  <2> QED BY <2>1, <2>2
<1> QED BY <1>1, <1>2, HeapAlwaysStands, PTL DEF Spec, ImplementsForest, Forest!Spec
---------------------------------------------------------------------------
(* What a copy has of its original.  H is the heap that the first call of  *)
(* cJSON_Duplicate finds, h the one a recursive call finds and g what it   *)
(* leaves; o gives for each item that is new in g the one it was made from.*)

\* In the copy a leads on where b did in the original.
Follows(o, a, b) == IF a = NULL THEN b = NULL ELSE a \in DOMAIN o /\ o[a] = b

\* A call does not change what was there, but for prev.
Untouched(h, g) ==
    /\ h.live \subseteq g.live
    /\ \A i \in h.live : /\ g.next[i] = h.next[i] /\ g.child[i] = h.child[i]
                         /\ g.key[i] = h.key[i] /\ g.text[i] = h.text[i]

SameData(H, g, o, j) ==
    g.key[j] = H.key[o[j]] /\ (g.text[j] = NULL <=> H.text[o[j]] = NULL)

IsOrigin(o, H, h, g) == o \in [g.live \ h.live -> H.live]

IsCopy(H, h, item, g, n, o) ==
    /\ IsOrigin(o, H, h, g)
    /\ n \in g.live \ h.live /\ o[n] = item
    /\ \A j \in g.live \ h.live :
          /\ SameData(H, g, o, j)
          /\ Follows(o, g.child[j], H.child[o[j]])
          /\ j # n => Follows(o, g.next[j], H.next[o[j]])

Copied(H, h, item, g) ==
    g.ret # NULL => Untouched(h, g) /\ \E o : IsCopy(H, h, item, g, g.ret, o)

\* What the recursive call is taken to do.
Copying(deeper, H) ==
    \A h, L, R, O : \A item \in Items :
        /\ h \in Heaps /\ HeapInv(h, L, R, O) /\ O \subseteq h.live
        /\ item \in H.live /\ Untouched(H, h)
        => Copied(H, h, item, deeper[<<h, item>>])

\* Between the turns of the loop: last is the copy of the member before child.
IsPartCopy(H, h, item, f, child, last, n, o) ==
    /\ Untouched(h, f) /\ IsOrigin(o, H, h, f)
    /\ n \in f.live \ h.live /\ o[n] = item
    /\ \A j \in f.live \ h.live :
          /\ SameData(H, f, o, j)
          /\ j # n => Follows(o, f.child[j], H.child[o[j]])
          /\ j # n /\ j # last => Follows(o, f.next[j], H.next[o[j]])
    /\ IF last = NULL THEN f.child[n] = NULL /\ child = H.child[item]
       ELSE /\ last \in f.live \ h.live /\ last # n
            /\ f.child[n] # NULL /\ Follows(o, f.child[n], H.child[item])
            /\ f.next[last] = NULL /\ H.next[o[last]] = child

\* It stays the same through calls that make other items.
LEMMA UntouchedAgain ==
  ASSUME NEW h, NEW f, NEW g, Untouched(h, f), Untouched(f, g)
  PROVE  Untouched(h, g)
BY DEF Untouched

\* ... and does not depend on fuel and ret.
LEMMA SameItemsAreCopied ==
  ASSUME NEW f, NEW g, SameItems(f, g), NEW H, NEW h, NEW item, NEW n, NEW o
  PROVE  /\ Untouched(h, f) => Untouched(h, g)
         /\ Untouched(f, h) => Untouched(g, h)
         /\ IsCopy(H, h, item, f, n, o) => IsCopy(H, h, item, g, n, o)
         /\ IsCopy(H, f, item, h, n, o) => IsCopy(H, g, item, h, n, o)
         /\ \A child, last : IsPartCopy(H, h, item, f, child, last, n, o)
                               => IsPartCopy(H, h, item, g, child, last, n, o)
<1> SUFFICES ASSUME NEW child, NEW last
             PROVE  /\ Untouched(h, f) => Untouched(h, g)
                    /\ Untouched(f, h) => Untouched(g, h)
                    /\ IsCopy(H, h, item, f, n, o) => IsCopy(H, h, item, g, n, o)
                    /\ IsCopy(H, f, item, h, n, o) => IsCopy(H, g, item, h, n, o)
                    /\ IsPartCopy(H, h, item, f, child, last, n, o)
                         => IsPartCopy(H, h, item, g, child, last, n, o)
  OBVIOUS
<1>1. g.live = f.live /\ g.next = f.next /\ g.child = f.child /\ g.key = f.key /\ g.text = f.text
  BY DEF SameItems
<1>2. (Untouched(h, f) => Untouched(h, g)) /\ (Untouched(f, h) => Untouched(g, h))
  BY <1>1 DEF Untouched
<1>3. /\ IsCopy(H, h, item, f, n, o) => IsCopy(H, h, item, g, n, o)
      /\ IsCopy(H, f, item, h, n, o) => IsCopy(H, g, item, h, n, o)
  BY <1>1 DEF IsCopy, IsOrigin, SameData
<1>4. IsPartCopy(H, h, item, f, child, last, n, o) => IsPartCopy(H, h, item, g, child, last, n, o)
  BY <1>1, <1>2 DEF IsPartCopy, IsOrigin, SameData
<1> QED BY <1>2, <1>3, <1>4

\* q tells where the copies up to f, told by o, and those from there to k, told
\* by p, come from.
IsJoined(H, h, f, k, o, p, q) ==
    /\ IsOrigin(q, H, h, k)
    /\ \A j \in f.live \ h.live : q[j] = o[j]
    /\ \A j \in k.live \ f.live : q[j] = p[j]
    /\ \A a, b : Follows(o, a, b) \/ Follows(p, a, b) => Follows(q, a, b)

\* Origins of two trees are joined.
LEMMA OriginsJoin ==
  ASSUME NEW H, NEW h, NEW f, NEW k, h.live \subseteq f.live, f.live \subseteq k.live,
         NEW o, IsOrigin(o, H, h, f), NEW p, IsOrigin(p, H, f, k)
  PROVE  \E q : IsJoined(H, h, f, k, o, p, q)
<1> DEFINE X == f.live \ h.live
           Y == k.live \ f.live
           Z == k.live \ h.live
           q == [j \in Z |-> IF j \in X THEN o[j] ELSE p[j]]
<1>1. o \in [X -> H.live] /\ p \in [Y -> H.live]
  BY DEF IsOrigin
<1>2. Z = X \cup Y /\ X \cap Y = {}
  OBVIOUS
<1> HIDE DEF X, Y, Z
<1>3. q \in [Z -> H.live] /\ (\A j \in X : q[j] = o[j]) /\ (\A j \in Y : q[j] = p[j])
  BY <1>1, <1>2
<1> HIDE DEF q
<1>4. \A a, b : Follows(o, a, b) \/ Follows(p, a, b) => Follows(q, a, b)
  BY <1>1, <1>2, <1>3 DEF Follows
<1>5. IsJoined(H, h, f, k, o, p, q)
  BY <1>3, <1>4 DEF IsJoined, IsOrigin, X, Y, Z
<1> QED BY <1>5

\* The copy of one more member is hung behind the last.
LEMMA HungIsPartCopy ==
  ASSUME NEW H, NEW h, NEW item, NEW f, NEW child, NEW last, NEW n,
         NEW o, IsPartCopy(H, h, item, f, child, last, n, o), f \in AnyHeap,
         child \in H.live, child # NULL, \A i \in H.live : i # NULL,
         NEW k \in AnyHeap, Untouched(f, k), Untouched(H, k),
         NEW c \in Items, c # NULL, NEW p, IsCopy(H, f, child, k, c, p), k.next[c] = NULL,
         last # NULL => last \in Items, n \in Items,
         NEW g, g = IF last = NULL THEN [k EXCEPT !.child[n] = c] ELSE suffix_object(k, last, c)
  PROVE  \E q : IsPartCopy(H, h, item, g, k.next[child], c, n, q)
<1> DEFINE X == f.live \ h.live
           Y == k.live \ f.live
           Z == k.live \ h.live
<1>1. /\ h.live \subseteq f.live /\ f.live \subseteq k.live /\ X \subseteq Z /\ Y \subseteq Z
      /\ Z \subseteq X \cup Y /\ X \cap Y = {} /\ Z \subseteq k.live
      /\ IsOrigin(o, H, h, f) /\ IsOrigin(p, H, f, k)
  BY DEF IsPartCopy, IsCopy, Untouched
<1>2. PICK q : /\ IsOrigin(q, H, h, k)
               /\ \A j \in X : q[j] = o[j]
               /\ \A j \in Y : q[j] = p[j]
               /\ \A a, b : Follows(o, a, b) \/ Follows(p, a, b) => Follows(q, a, b)
  <2>1. PICK q : IsJoined(H, h, f, k, o, p, q)
    BY <1>1, OriginsJoin
  <2> QED BY <2>1 DEF IsJoined
<1>3. /\ n \in X /\ o[n] = item /\ c \in Y /\ p[c] = child
      /\ c # n /\ (last # NULL => last \in X /\ last # c /\ last # n)
  BY <1>1 DEF IsPartCopy, IsCopy
<1>4. /\ g.live = k.live /\ g.key = k.key /\ g.text = k.text
      /\ g.child = IF last = NULL THEN [k.child EXCEPT ![n] = c] ELSE k.child
      /\ g.next = IF last = NULL THEN k.next ELSE [k.next EXCEPT ![last] = c]
  BY DEF suffix_object, AnyHeap
<1>5. /\ \A j \in Items : j # n => g.child[j] = k.child[j]
      /\ \A j \in Items : j # last => g.next[j] = k.next[j]
      /\ last = NULL => g.child[n] = c
      /\ last # NULL => g.child[n] = k.child[n] /\ g.next[last] = c
      /\ g.next[c] = NULL
  <2>1. /\ k.child \in [Items -> Items \cup {NULL}] /\ k.next \in [Items -> Items \cup {NULL}]
        /\ k.live \in SUBSET Items
    BY AnyHeapTypes
  <2> QED BY <1>3, <1>4, <2>1
<1>6. k.live \subseteq Items /\ X \subseteq Items /\ Y \subseteq Items /\ Z \subseteq Items
  BY AnyHeapTypes, <1>1
<1>7. Untouched(h, g)
  <2>1. Untouched(h, k)
    BY UntouchedAgain DEF IsPartCopy
  <2>2. \A i \in h.live : i \in Items /\ i # n /\ i # last
    BY <1>1, <1>3, <1>6, ItemsAssumption
  <2> QED BY <1>4, <1>5, <2>1, <2>2 DEF Untouched
<1>8. IsOrigin(q, H, h, g) /\ n \in g.live \ h.live /\ q[n] = item
  BY <1>1, <1>2, <1>3, <1>4 DEF IsOrigin
<1>9. \A j \in X : /\ k.next[j] = f.next[j] /\ k.child[j] = f.child[j]
                   /\ k.key[j] = f.key[j] /\ k.text[j] = f.text[j]
  BY DEF Untouched
<1>10. \A a, b : q[c] = child /\ Follows(q, c, child)
  <2>1. c \in Z /\ q[c] = child
    BY <1>1, <1>2, <1>3
  <2> QED BY <2>1, <1>2 DEF Follows, IsOrigin
<1>11. ASSUME NEW j \in Z
       PROVE  /\ SameData(H, g, q, j)
              /\ j # n => Follows(q, g.child[j], H.child[q[j]])
              /\ j # n /\ j # c => Follows(q, g.next[j], H.next[q[j]])
  <2>1. CASE j \in X
    <3>1. /\ SameData(H, f, o, j)
          /\ j # n => Follows(o, f.child[j], H.child[o[j]])
          /\ j # n /\ j # last => Follows(o, f.next[j], H.next[o[j]])
          /\ j = last /\ last # NULL => H.next[o[j]] = child
      BY <2>1, <1>3 DEF IsPartCopy
    <3>2. q[j] = o[j] /\ j \in Items /\ j # NULL
      BY <1>2, <1>6, <2>1, ItemsAssumption
    <3>3. SameData(H, g, q, j)
      BY <1>4, <1>9, <2>1, <3>1, <3>2 DEF SameData
    <3>4. j # n => Follows(q, g.child[j], H.child[q[j]])
      BY <1>2, <1>5, <1>9, <2>1, <3>1, <3>2
    <3>5. j # n /\ j # last => Follows(q, g.next[j], H.next[q[j]])
      BY <1>2, <1>5, <1>9, <2>1, <3>1, <3>2
    <3>6. j = last => Follows(q, g.next[j], H.next[q[j]])
      BY <1>5, <1>10, <3>1, <3>2
    <3> QED BY <3>3, <3>4, <3>5, <3>6
  <2>2. CASE j \in Y
    <3>1. /\ SameData(H, k, p, j)
          /\ Follows(p, k.child[j], H.child[p[j]])
          /\ j # c => Follows(p, k.next[j], H.next[p[j]])
      BY <2>2 DEF IsCopy
    <3>2. q[j] = p[j] /\ j \in Items /\ j # NULL /\ j # n /\ j # last
      BY <1>1, <1>2, <1>3, <1>6, <2>2, ItemsAssumption
    <3>3. SameData(H, g, q, j)
      BY <1>4, <3>1, <3>2 DEF SameData
    <3>4. Follows(q, g.child[j], H.child[q[j]])
      BY <1>2, <1>5, <3>1, <3>2
    <3>5. j # c => Follows(q, g.next[j], H.next[q[j]])
      BY <1>2, <1>5, <3>1, <3>2
    <3> QED BY <3>3, <3>4, <3>5
  <2> QED BY <1>1, <2>1, <2>2
<1>12. g.child[n] # NULL /\ Follows(q, g.child[n], H.child[item])
  <2>1. CASE last = NULL
    <3>1. child = H.child[item]
      BY <2>1 DEF IsPartCopy
    <3> QED BY <1>5, <1>10, <2>1, <3>1
  <2>2. CASE last # NULL
    <3>1. f.child[n] # NULL /\ Follows(o, f.child[n], H.child[item])
      BY <2>2 DEF IsPartCopy
    <3> QED BY <1>2, <1>3, <1>5, <1>9, <2>2, <3>1
  <2> QED BY <2>1, <2>2
<1>13. c \in g.live \ h.live /\ c # n /\ g.next[c] = NULL /\ H.next[q[c]] = k.next[child]
  BY <1>1, <1>3, <1>4, <1>5, <1>10 DEF Untouched
<1>14. g.live \ h.live = Z
  BY <1>4
<1> HIDE DEF X, Y, Z
<1> QED BY <1>7, <1>8, <1>11, <1>12, <1>13, <1>14 DEF IsPartCopy

\* h and g have the same items, linked alike.
Alike(h, g) == g.live = h.live /\ g.next = h.next /\ g.child = h.child

\* What CopyFields leaves when it succeeds: an item with the name of another, and
\* with a string if the other has one.
LEMMA FieldsAreCopied ==
  ASSUME NEW h, NEW L, NEW R, NEW O, HeapInv(h, L, R, O), NEW item \in h.live,
         NEW f, f = cJSON_New_Item(h), NEW n, n = f.ret, n # NULL,
         NEW g, g = CopyFields(f, item, n), g.ret # NULL
  PROVE  /\ n \in Items \ h.live /\ g.live = h.live \cup {n} /\ g.next = h.next /\ g.child = h.child
         /\ g.child[n] = NULL /\ g.key = [h.key EXCEPT ![n] = h.key[item]]
         /\ g.text = IF h.text[item] = NULL THEN h.text ELSE [h.text EXCEPT ![n] = n]
         /\ h.text[n] = NULL
<1> DEFINE flags == [f EXCEPT !.const = IF item \in @ THEN @ \cup {n} ELSE @]
           bare == f.text[item] = NULL
           text == IF bare THEN Ret(flags, TRUE) ELSE cJSON_strdup(flags)
           texted == IF bare \/ text.ret = NULL THEN text ELSE [text EXCEPT !.text[n] = n]
           name == f.key[item]
           shared == name = NULL \/ item \in f.const
           key == IF shared THEN Ret(texted, TRUE) ELSE cJSON_strdup(texted)
<1>1. g = IF text.ret = NULL THEN text ELSE IF key.ret = NULL THEN key
          ELSE [key EXCEPT !.key[n] = name]
  BY DEF CopyFields
<1>2. text.ret # NULL /\ key.ret # NULL /\ g = [key EXCEPT !.key[n] = name]
  BY <1>1
<1>3. Allocated(h, f, n) /\ f \in AnyHeap /\ n \in Items
  <2>1. IsMade(h, L, R, O, f, n, L)
    BY NewItemIsMade
  <2> QED BY <2>1, NewItemIsBlank, MadeFacts
<1>4. flags \in AnyHeap /\ Alike(f, flags) /\ flags.key = f.key /\ flags.text = f.text
  <2>1. f.const \cup {n} \in SUBSET Items
    BY <1>3, AnyHeapTypes
  <2> QED BY <1>3, <2>1 DEF AnyHeap, Alike
<1> HIDE DEF flags
<1>5. text \in AnyHeap /\ Alike(flags, text) /\ text.key = flags.key /\ text.text = flags.text
  <2>1. CASE bare
    <3>1. SameItems(flags, text)
      BY <1>4, <2>1, RetFacts
    <3> QED BY <3>1 DEF SameItems, Alike
  <2>2. CASE ~bare
    <3>1. text = cJSON_strdup(flags)
      BY <2>2
    <3> HIDE DEF text
    <3>2. SameItems(flags, text) \/ Spare(flags, text)
      BY <1>4, <3>1, StrdupFacts
    <3> QED BY <3>2 DEF SameItems, Spare, Alike
  <2> QED BY <2>1, <2>2
<1>6. texted = IF bare THEN text ELSE [text EXCEPT !.text[n] = n]
  BY <1>2
<1> HIDE DEF text, texted
<1>7. /\ texted \in AnyHeap /\ Alike(text, texted) /\ texted.key = text.key
      /\ texted.text = IF bare THEN text.text ELSE [text.text EXCEPT ![n] = n]
  BY <1>3, <1>5, <1>6 DEF AnyHeap, Alike
<1> HIDE DEF bare
<1>8. /\ key \in AnyHeap /\ Alike(texted, key) /\ key.key = texted.key /\ key.text = texted.text
  <2>1. CASE shared
    <3>1. SameItems(texted, key)
      BY <1>7, <2>1, RetFacts
    <3> QED BY <3>1 DEF SameItems, Alike
  <2>2. CASE ~shared
    <3>1. key = cJSON_strdup(texted)
      BY <2>2
    <3> HIDE DEF key, shared
    <3>2. SameItems(texted, key) \/ Spare(texted, key)
      BY <1>7, <3>1, StrdupFacts
    <3> QED BY <3>2 DEF SameItems, Spare, Alike
  <2> QED BY <2>1, <2>2
<1> HIDE DEF key, shared, name
<1>9. Alike(key, g) /\ g.key = [key.key EXCEPT ![n] = name] /\ g.text = key.text
  BY <1>2, <1>8 DEF AnyHeap, Alike
<1>10. /\ g.live = f.live /\ g.next = f.next /\ g.child = f.child
       /\ g.key = [f.key EXCEPT ![n] = name]
       /\ g.text = IF bare THEN f.text ELSE [f.text EXCEPT ![n] = n]
  BY <1>4, <1>5, <1>7, <1>8, <1>9 DEF Alike
<1>11. /\ f.live = h.live \cup {n} /\ f.next = h.next /\ f.child = h.child
       /\ f.key = h.key /\ f.text = h.text /\ f.child[n] = NULL /\ f.text[n] = NULL
       /\ n \in Items \ h.live
  BY <1>3 DEF Allocated
<1> QED BY <1>10, <1>11 DEF bare, name

\* Before the loop.
LEMMA LeafIsPartCopy ==
  ASSUME NEW h, NEW L, NEW R, NEW O, HeapInv(h, L, R, O), NEW H, Untouched(H, h),
         NEW item \in H.live,
         NEW f, f = cJSON_New_Item(h), NEW n, n = f.ret, n # NULL,
         NEW g, g = CopyFields(f, item, n), g.ret # NULL
  PROVE  \E o : IsPartCopy(H, h, item, g, H.child[item], NULL, n, o)
<1> DEFINE o == [j \in {n} |-> item]
<1>1. item \in h.live /\ h.key[item] = H.key[item] /\ h.text[item] = H.text[item]
  BY DEF Untouched
<1>2. /\ n \in Items \ h.live /\ g.live = h.live \cup {n} /\ g.next = h.next /\ g.child = h.child
      /\ g.child[n] = NULL /\ g.key = [h.key EXCEPT ![n] = h.key[item]]
      /\ g.text = IF h.text[item] = NULL THEN h.text ELSE [h.text EXCEPT ![n] = n]
      /\ h.text[n] = NULL
  BY <1>1, FieldsAreCopied
<1>3. g.live \ h.live = {n}
  BY <1>2
<1>4. /\ h.key \in [Items -> Names \cup {NULL}] /\ h.text \in [Items -> Items \cup {NULL}]
      /\ h.live \subseteq Items
  <2>1. h \in AnyHeap
    BY HeapFacts
  <2> QED BY <2>1, AnyHeapTypes
<1>5. g.key[n] = H.key[item] /\ \A i \in h.live : g.key[i] = h.key[i]
  BY <1>1, <1>2, <1>4
<1>6. (g.text[n] = NULL <=> H.text[item] = NULL) /\ \A i \in h.live : g.text[i] = h.text[i]
  BY <1>1, <1>2, <1>4
<1>7. Untouched(h, g)
  BY <1>2, <1>5, <1>6 DEF Untouched
<1>8. o \in [{n} -> H.live] /\ o[n] = item
  OBVIOUS
<1>9. IsPartCopy(H, h, item, g, H.child[item], NULL, n, o)
  <2> HIDE DEF o
  <2>1. SameData(H, g, o, n)
    BY <1>5, <1>6, <1>8 DEF SameData
  <2>2. IsOrigin(o, H, h, g)
    BY <1>3, <1>8 DEF IsOrigin
  <2> QED BY <1>2, <1>3, <1>7, <1>8, <2>1, <2>2 DEF IsPartCopy
<1> QED BY <1>9

\* What is below an item that is copied was there before the first call.
IsClosed(H) ==
    /\ H.live \subseteq Items
    /\ \A i \in H.live : H.child[i] \in H.live \cup {NULL} /\ H.next[i] \in H.live \cup {NULL}

\* After i turns of the loop, unless one failed: with a member left there are
\* more than i items, the copy itself and the copies of i members.
CopyInv(H, h, item, b, n, i) ==
    b.heap.ret # NULL =>
        /\ \E o : IsPartCopy(H, h, item, b.heap, b.child, b.last, n, o)
        /\ b.child # NULL => Cardinality(b.heap.live) > i

\* A new tree's root has no next, and one item more is live at least.
LEMMA MadeRoot ==
  ASSUME NEW h, NEW L, NEW R, NEW O, HeapInv(h, L, R, O), NEW k, NEW c, NEW M,
         IsMade(h, L, R, O, k, c, M)
  PROVE  k.next[c] = NULL /\ Cardinality(k.live) > Cardinality(h.live)
         /\ Cardinality(h.live) \in Nat /\ Cardinality(k.live) \in Nat
<1>1. HeapInv(k, M, R \cup {c}, O)
  BY DEF IsMade
<1>2. c \in k.live \ h.live /\ c \in Items /\ h.live \subseteq k.live /\ k.live \in SUBSET Items
  BY MadeFacts
<1>3. k.next[c] = NULL
  <2> DEFINE Q == R \cup {c}
  <2>1. c \in Q /\ HeapInv(k, M, Q, O)
    BY <1>1
  <2> HIDE DEF Q
  <2>2. \A p \in Items : c \notin ToSet(M[p])
    BY <2>1, HeapFacts
  <2>3. ~IsMember(M, c)
    BY <2>2 DEF IsMember
  <2> QED BY <1>2, <2>1, <2>3, HeapFacts
<1>4. IsFiniteSet(k.live) /\ IsFiniteSet(h.live)
  BY <1>2, ItemsAssumption, FS_Subset
<1>5. Cardinality(h.live) < Cardinality(k.live)
  <2>1. Cardinality(h.live) <= Cardinality(k.live) /\ (Cardinality(h.live) = Cardinality(k.live) => h.live = k.live)
    BY <1>2, <1>4, FS_Subset
  <2>2. Cardinality(h.live) \in Nat /\ Cardinality(k.live) \in Nat
    BY <1>4, FS_CardinalityType
  <2> QED BY <1>2, <2>1, <2>2
<1>6. Cardinality(h.live) \in Nat /\ Cardinality(k.live) \in Nat
  BY <1>4, FS_CardinalityType
<1> QED BY <1>3, <1>5, <1>6

\* The member that is copied next was there before the first call.
LEMMA NextMemberIsOld ==
  ASSUME NEW H, IsClosed(H), NEW h, NEW item \in H.live, NEW f, NEW child, NEW last, NEW n, NEW o,
         IsPartCopy(H, h, item, f, child, last, n, o)
  PROVE  child \in H.live \cup {NULL}
<1>1. CASE last = NULL
  BY <1>1 DEF IsPartCopy, IsClosed
<1>2. CASE last # NULL
  <2>1. o[last] \in H.live /\ child = H.next[o[last]]
    BY <1>2 DEF IsPartCopy, IsOrigin
  <2> QED BY <2>1 DEF IsClosed
<1> QED BY <1>1, <1>2

\* A turn of the loop.
LEMMA DupStepCopies ==
  ASSUME NEW h, NEW L, NEW R, NEW O, HeapInv(h, L, R, O), O \subseteq h.live,
         NEW H, IsClosed(H), Untouched(H, h), NEW item \in H.live,
         NEW levels, NEW deeper, levels # 0 => Duplicating(deeper) /\ Copying(deeper, H),
         NEW b, NEW n, DupInv(h, L, R, O, b, n), NEW i \in Nat \ {0},
         CopyInv(H, h, item, b, n, i - 1), NEW e, e = DupStep(b, n, levels, deeper)
  PROVE  CopyInv(H, h, item, e, n, i)
<1> DEFINE child == b.child
           last == b.last
           u == b.heap
           f == Ret(u, NULL)
           k == IF levels = 0 THEN f ELSE deeper[<<f, child>>]
           c == k.ret
           g == IF last = NULL THEN [k EXCEPT !.child[n] = c] ELSE suffix_object(k, last, c)
           v == Ret(g, TRUE)
<1>1. CASE child = NULL
  <2>1. e = b
    BY <1>1 DEF DupStep
  <2> QED BY <1>1, <2>1 DEF CopyInv
<1>2. CASE child # NULL
  <2>1. PICK F : /\ Growing(h, L, R, O, u, n, F) /\ F[n] \in Seq(Items)
                 /\ u.ret = TRUE /\ last = LastOf(F[n])
    BY <1>2 DEF DupInv
  <2>2. PICK o : IsPartCopy(H, h, item, u, child, last, n, o)
    <3>1. u.ret # NULL
      BY <2>1, TreeAssumption
    <3> QED BY <3>1 DEF CopyInv
  <2>3. Cardinality(u.live) > i - 1
    <3>1. u.ret # NULL
      BY <2>1, TreeAssumption
    <3> QED BY <1>2, <3>1 DEF CopyInv
  <2>4. e = IF c = NULL THEN [heap |-> k, child |-> NULL, last |-> NULL]
            ELSE [heap |-> v, child |-> k.next[child], last |-> c]
    BY <1>2 DEF DupStep
  <2> HIDE DEF child, last, u
  <2>5. child \in H.live /\ child \in Items
    <3>1. child \in H.live \cup {NULL}
      BY <2>2, NextMemberIsOld
    <3> QED BY <1>2, <3>1 DEF IsClosed
  <2>6. u \in AnyHeap /\ SameItems(u, f) /\ f.ret = NULL
    <3>1. u \in AnyHeap
      BY <2>1, MadeFacts
    <3> QED BY <3>1, RetFacts
  <2> HIDE DEF f
  <2>7. Growing(h, L, R, O, f, n, F) /\ IsPartCopy(H, h, item, f, child, last, n, o)
    BY <2>1, <2>2, <2>6, SameItemsAreMade, SameItemsAreCopied
  <2> DEFINE Q == R \cup {n}
             P == O \cup {n}
  <2>8. /\ HeapInv(f, F, Q, P) /\ n \in f.live /\ n \in Items /\ n # NULL
        /\ h.live \subseteq f.live /\ f \in AnyHeap /\ f \in Heaps
    <3>1. HeapInv(f, F, Q, P)
      BY <2>7 DEF Growing
    <3>2. /\ n \in f.live /\ n \in Items /\ n # NULL
          /\ h.live \subseteq f.live /\ f \in AnyHeap
      BY <2>7, MadeFacts
    <3>3. f \in Heaps
      BY <2>6, <3>2 DEF AnyHeap, Heaps
    <3> QED BY <3>1, <3>2, <3>3
  <2>9. Untouched(h, f) /\ Untouched(H, f)
    <3>1. Untouched(h, f)
      BY <2>7 DEF IsPartCopy
    <3> QED BY <3>1, UntouchedAgain
  <2>10. CASE c = NULL
    <3>1. e.heap = k /\ k.ret = NULL
      BY <2>4, <2>10
    <3> QED BY <3>1 DEF CopyInv
  <2>11. CASE c # NULL
    <3>1. levels # 0
      <4>1. levels = 0 => c = f.ret
        OBVIOUS
      <4> QED BY <2>6, <2>11, <4>1
    <3>2. k = deeper[<<f, child>>]
      BY <3>1
    <3> HIDE DEF k
    <3>3. Makes(f, k, F, Q, P) /\ Copied(H, f, child, k)
      <4>1. P \subseteq f.live /\ child \in f.live
        BY <2>5, <2>8, <2>9 DEF Untouched
      <4> HIDE DEF Q, P
      <4>2. Makes(f, k, F, Q, P)
        BY <2>5, <2>8, <3>1, <3>2, <4>1 DEF Duplicating
      <4>3. Copied(H, f, child, k)
        BY <2>5, <2>8, <2>9, <3>1, <3>2, <4>1 DEF Copying
      <4> QED BY <4>2, <4>3
    <3>4. Untouched(f, k) /\ \E p : IsCopy(H, f, child, k, c, p)
      BY <2>11, <3>3 DEF Copied
    <3> HIDE DEF c
    <3>5. PICK M : IsMade(f, F, Q, P, k, c, M)
      BY <2>11, <3>3 DEF c, Makes, Made
    <3>6. PICK p : IsCopy(H, f, child, k, c, p)
      BY <3>4
    <3> HIDE DEF Q, P
    <3>7. c \in Items /\ k \in AnyHeap
      BY <2>8, <3>5, MadeFacts
    <3>8. /\ k.next[c] = NULL /\ Cardinality(k.live) > Cardinality(f.live)
          /\ Cardinality(f.live) \in Nat /\ Cardinality(k.live) \in Nat
      BY <2>8, <3>5, MadeRoot
    <3>9. last # NULL => last \in Items
      <4>1. f.live \subseteq Items
        BY <2>8, AnyHeapTypes
      <4> QED BY <2>7, <4>1 DEF IsPartCopy
    <3>10. Untouched(H, k) /\ \A j \in H.live : j # NULL
      BY <2>9, <3>4, UntouchedAgain, ItemsAssumption DEF IsClosed
    <3>11. PICK q : IsPartCopy(H, h, item, g, k.next[child], c, n, q)
      <4> DEFINE w == g
      <4>1. w = IF last = NULL THEN [k EXCEPT !.child[n] = c] ELSE suffix_object(k, last, c)
        OBVIOUS
      <4> HIDE DEF w, g
      <4>2. \E q : IsPartCopy(H, h, item, w, k.next[child], c, n, q)
        BY <1>2, <2>5, <2>7, <2>8, <2>11, <3>4, <3>6, <3>7, <3>8, <3>9, <3>10, <4>1,
           HungIsPartCopy
      <4> QED BY <4>2 DEF w
    <3>12. g \in AnyHeap /\ g.live = k.live
      <4>1. last = NULL => Relinked(k, [k EXCEPT !.child[n] = c])
        BY <2>8, <3>7, OneLink
      <4>2. last # NULL => Relinked(k, suffix_object(k, last, c))
        BY <3>7, <3>9, SuffixRelinks
      <4> QED BY <4>1, <4>2 DEF Relinked
    <3> HIDE DEF g
    <3>13. SameItems(g, v) /\ v.ret = TRUE
      BY <3>12, RetFacts
    <3> HIDE DEF v
    <3>14. IsPartCopy(H, h, item, v, k.next[child], c, n, q)
      BY <3>11, <3>13, SameItemsAreCopied
    <3>15. Cardinality(v.live) > i
      <4>1. v.live = k.live /\ f.live = u.live
        BY <2>6, <3>12, <3>13 DEF SameItems
      <4> QED BY <2>3, <3>8, <4>1
    <3>16. e.heap = v /\ e.child = k.next[child] /\ e.last = c
      BY <2>4, <2>11
    <3> QED BY <3>14, <3>15, <3>16 DEF CopyInv
  <2> QED BY <2>10, <2>11
<1> QED BY <1>1, <1>2

\* With no member left the copy is whole, whatever prev is set to.
LEMMA NoMemberIsLeft ==
  ASSUME NEW H, IsClosed(H), NEW h, NEW item \in H.live, NEW f, NEW last, NEW n, NEW o,
         IsPartCopy(H, h, item, f, NULL, last, n, o),
         f.live \subseteq Items, NEW g, Alike(f, g), g.key = f.key, g.text = f.text
  PROVE  Untouched(h, g) /\ IsCopy(H, h, item, g, n, o)
<1>1. g.live = f.live /\ g.next = f.next /\ g.child = f.child
  BY DEF Alike
<1>2. Untouched(h, g)
  BY <1>1 DEF IsPartCopy, Untouched
<1>3. IsOrigin(o, H, h, g) /\ n \in g.live \ h.live /\ o[n] = item
  BY <1>1 DEF IsPartCopy, IsOrigin
<1>4. ASSUME NEW j \in g.live \ h.live
      PROVE  /\ SameData(H, g, o, j)
             /\ Follows(o, g.child[j], H.child[o[j]])
             /\ j # n => Follows(o, g.next[j], H.next[o[j]])
  <2>1. /\ SameData(H, f, o, j)
        /\ j # n => Follows(o, f.child[j], H.child[o[j]])
        /\ j # n /\ j # last => Follows(o, f.next[j], H.next[o[j]])
    BY <1>1 DEF IsPartCopy
  <2>2. SameData(H, g, o, j)
    BY <2>1 DEF SameData
  <2>3. CASE last = NULL
    <3>1. f.child[n] = NULL /\ H.child[item] = NULL
      BY <2>3 DEF IsPartCopy
    <3>2. j # last
      BY <1>1, <2>3, ItemsAssumption
    <3>3. j # n => Follows(o, g.child[j], H.child[o[j]])
      BY <1>1, <2>1
    <3>4. Follows(o, g.child[n], H.child[o[n]])
      BY <1>1, <1>3, <3>1 DEF Follows
    <3>5. j # n => Follows(o, g.next[j], H.next[o[j]])
      BY <1>1, <2>1, <3>2
    <3> QED BY <2>2, <3>3, <3>4, <3>5
  <2>4. CASE last # NULL
    <3>1. /\ Follows(o, f.child[n], H.child[item])
          /\ f.next[last] = NULL /\ H.next[o[last]] = NULL
      BY <2>4 DEF IsPartCopy
    <3>2. Follows(o, g.child[j], H.child[o[j]])
      BY <1>1, <1>3, <2>1, <3>1
    <3>3. j = last => Follows(o, g.next[j], H.next[o[j]])
      BY <1>1, <3>1 DEF Follows
    <3> QED BY <1>1, <2>1, <2>2, <3>2, <3>3
  <2> QED BY <2>3, <2>4
<1> QED BY <1>2, <1>3, <1>4 DEF IsCopy

\* The copies of all members.
LEMMA DuplicateChildrenCopies ==
  ASSUME NEW h, NEW L, NEW R, NEW O, HeapInv(h, L, R, O), O \subseteq h.live,
         NEW H, IsClosed(H), Untouched(H, h), NEW item \in H.live,
         NEW levels, NEW deeper, levels # 0 => Duplicating(deeper) /\ Copying(deeper, H),
         NEW f, NEW n, Growing(h, L, R, O, f, n, L), L[n] = <<>>,
         NEW child \in h.live \cup {NULL}, NEW o, IsPartCopy(H, h, item, f, child, NULL, n, o),
         NEW g, g = DuplicateChildren(f, n, child, levels, deeper), g.ret # NULL
  PROVE  Untouched(h, g) /\ \E p : IsCopy(H, h, item, g, n, p)
<1> DEFINE P(v) == IsDupLoop(v, Count, f, n, child, levels, deeper)
           v == CHOOSE v : P(v)
           end == v[Count]
           last == end.heap
<1>1. g = DupEnd(end, n)
  BY DupIsChosen
<1>2. P(v)
  <2>1. \E w : P(w)
    BY DupLoopExists, CountIsNat
  <2> HIDE DEF P
  <2> QED BY <2>1
<1> HIDE DEF v
<1>3. /\ v[0] = DupStart(f, child)
      /\ \A i \in 1..Count : v[i] = DupStep(v[i - 1], n, levels, deeper)
  <2>1. \A i \in 0..Count :
           v[i] = IF i = 0 THEN DupStart(f, child) ELSE DupStep(v[i - 1], n, levels, deeper)
    BY <1>2 DEF IsDupLoop
  <2>2. 0 \in 0..Count /\ \A i \in 1..Count : i \in 0..Count /\ i # 0
    BY CountIsNat
  <2> QED BY <2>1, <2>2
<1> DEFINE N == {i \in 0..Count : DupInv(h, L, R, O, v[i], n) /\ CopyInv(H, h, item, v[i], n, i)}
<1>4. 0 \in N
  <2> DEFINE b == v[0]
             u == Ret(f, TRUE)
  <2>1. SameItems(f, u) /\ u.ret = TRUE /\ u.ret # NULL
    <3>1. f \in AnyHeap
      BY MadeFacts
    <3> QED BY <3>1, RetFacts, TreeAssumption
  <2>2. b.heap = u /\ b.child = child /\ b.last = NULL
    BY <1>3 DEF DupStart
  <2> HIDE DEF b, u
  <2>3. Growing(h, L, R, O, u, n, L) /\ IsPartCopy(H, h, item, u, child, NULL, n, o)
    BY <2>1, SameItemsAreMade, SameItemsAreCopied
  <2>4. L[n] \in Seq(Items) /\ LastOf(L[n]) = NULL
    <3>1. <<>> \in Seq(Items)
      OBVIOUS
    <3> QED BY <3>1 DEF LastOf
  <2>5. DupInv(h, L, R, O, b, n)
    BY <2>1, <2>2, <2>3, <2>4 DEF DupInv
  <2>6. Cardinality(u.live) > 0
    <3>1. n \in u.live /\ u.live \in SUBSET Items
      BY <2>3, MadeFacts
    <3>2. IsFiniteSet(u.live)
      BY <3>1, ItemsAssumption, FS_Subset
    <3> QED BY <3>1, <3>2, FS_EmptySet, FS_CardinalityType
  <2>7. CopyInv(H, h, item, b, n, 0)
    BY <2>2, <2>3, <2>6 DEF CopyInv
  <2> QED BY <2>5, <2>7, CountIsNat DEF b
<1>5. ASSUME NEW i \in 1..Count, i - 1 \in N
      PROVE  i \in N
  <2> DEFINE b == v[i - 1]
             e == v[i]
  <2>1. /\ DupInv(h, L, R, O, b, n) /\ CopyInv(H, h, item, b, n, i - 1)
        /\ i \in 0..Count /\ i \in Nat \ {0}
    BY <1>5, CountIsNat
  <2>2. e = DupStep(b, n, levels, deeper)
    BY <1>3
  <2> HIDE DEF b, e
  <2>3. DupInv(h, L, R, O, e, n)
    BY <2>1, <2>2, DupStepKeeps
  <2>4. CopyInv(H, h, item, e, n, i)
    BY <2>1, <2>2, DupStepCopies
  <2> QED BY <2>1, <2>3, <2>4 DEF e
<1>6. DupInv(h, L, R, O, end, n) /\ CopyInv(H, h, item, end, n, Count)
  <2>1. Count \in 0..Count
    BY CountIsNat
  <2>2. Count \in N
    <3> HIDE DEF N
    <3> QED BY <1>4, <1>5, <2>1, CountIsNat, Induction
  <2> QED BY <2>2
<1> HIDE DEF N, end, P
<1>7. PICK F : /\ Growing(h, L, R, O, last, n, F) /\ F[n] \in Seq(Items)
               /\ IF last.ret = NULL THEN end.last = NULL
                  ELSE last.ret = TRUE /\ end.last = LastOf(F[n])
  BY <1>6 DEF DupInv
<1>8. g = IF end.last = NULL THEN last ELSE [last EXCEPT !.prev[last.child[n]] = end.last]
  BY <1>1 DEF DupEnd
<1>9. last.live \subseteq Items /\ last \in AnyHeap /\ n \in Items
  BY <1>7, MadeFacts
<1>10. last.ret # NULL
  <2>1. last.ret = NULL => g = last
    BY <1>7, <1>8
  <2> QED BY <2>1
<1>11. PICK p : IsPartCopy(H, h, item, last, end.child, end.last, n, p)
  BY <1>6, <1>10 DEF CopyInv
<1>12. end.child = NULL
  <2>1. Cardinality(last.live) <= Count /\ Cardinality(last.live) \in Nat
    BY <1>9, ItemsAssumption, FS_Subset, FS_CardinalityType DEF Count
  <2>2. end.child # NULL => Cardinality(last.live) > Count
    BY <1>6, <1>10 DEF CopyInv
  <2> QED BY <2>1, <2>2, CountIsNat
<1>13. Alike(last, g) /\ g.key = last.key /\ g.text = last.text
  BY <1>8, <1>9 DEF Alike, AnyHeap
<1>14. IsPartCopy(H, h, item, last, NULL, end.last, n, p)
  BY <1>11, <1>12
<1> HIDE DEF last
<1> QED BY <1>9, <1>13, <1>14, NoMemberIsLeft

\* A copy, made at some level of the recursion.
LEMMA DuplicateRecCopies ==
  ASSUME NEW h, NEW L, NEW R, NEW O, HeapInv(h, L, R, O), O \subseteq h.live,
         NEW H, IsClosed(H), Untouched(H, h), NEW item \in H.live,
         NEW levels, NEW deeper, levels # 0 => Duplicating(deeper) /\ Copying(deeper, H),
         NEW g, g = cJSON_Duplicate_rec(h, item, TRUE, levels, deeper)
  PROVE  Copied(H, h, item, g)
<1> DEFINE new == cJSON_New_Item(h)
           n == new.ret
           fields == CopyFields(new, item, n)
           child == h.child[item]
           whole == IF fields.ret = NULL THEN fields
                    ELSE DuplicateChildren(fields, n, child, levels, deeper)
<1>1. g = IF n = NULL THEN new
          ELSE IF whole.ret = NULL THEN Ret(cJSON_Delete(whole, n), NULL) ELSE Ret(whole, n)
  BY DEF cJSON_Duplicate_rec
<1>2. item \in h.live /\ child = H.child[item] /\ child \in h.live \cup {NULL}
  <2>1. item \in h.live /\ child = H.child[item]
    BY DEF Untouched
  <2> QED BY <2>1, HeapFacts DEF Memory
<1>3. n = new.ret /\ new = cJSON_New_Item(h) /\ fields = CopyFields(new, item, n)
  OBVIOUS
<1>4. whole = IF fields.ret = NULL THEN fields
              ELSE DuplicateChildren(fields, n, child, levels, deeper)
  OBVIOUS
<1> HIDE DEF new, n, fields, child, whole
<1>5. CASE n = NULL
  <2>1. g.ret = NULL
    BY <1>1, <1>3, <1>5
  <2> QED BY <2>1 DEF Copied
<1>6. CASE n # NULL /\ whole.ret = NULL
  <2>1. L[n] = <<>>
    BY <1>3, <1>6, NewItemIsBlank
  <2>2. IsMade(h, L, R, O, fields, n, L)
    BY <1>2, <1>3, <1>6, CopyFieldsMakes
  <2>3. fields.ret # NULL => \E F : Growing(h, L, R, O, whole, n, F)
    <3> SUFFICES ASSUME fields.ret # NULL
                 PROVE  \E F : Growing(h, L, R, O, whole, n, F)
      OBVIOUS
    <3>1. Growing(h, L, R, O, fields, n, L)
      BY <2>1, <2>2, LeafGrows
    <3>2. whole = DuplicateChildren(fields, n, child, levels, deeper) /\ whole.ret # TRUE
      BY <1>4, <1>6, TreeAssumption
    <3>3. levels # 0 => Duplicating(deeper)
      OBVIOUS
    <3> QED BY <1>2, <2>1, <3>1, <3>2, <3>3, DuplicateChildrenGrows
  <2>4. PICK M : IsMade(h, L, R, O, whole, n, M) \/ Growing(h, L, R, O, whole, n, M)
    BY <1>4, <2>2, <2>3
  <2>5. g = Ret(cJSON_Delete(whole, n), NULL)
    BY <1>1, <1>6
  <2>6. g.ret = NULL
    BY <2>4, <2>5, UndoMade
  <2> QED BY <2>6 DEF Copied
<1>7. CASE n # NULL /\ whole.ret # NULL
  <2>1. fields.ret # NULL /\ whole = DuplicateChildren(fields, n, child, levels, deeper)
    BY <1>4, <1>7
  <2>2. L[n] = <<>> /\ IsMade(h, L, R, O, fields, n, L)
    <3>1. L[n] = <<>>
      BY <1>3, <1>7, NewItemIsBlank
    <3>2. IsMade(h, L, R, O, fields, n, L)
      BY <1>2, <1>3, <1>7, CopyFieldsMakes
    <3> QED BY <3>1, <3>2
  <2>3. Growing(h, L, R, O, fields, n, L)
    BY <2>2, LeafGrows
  <2>4. PICK o : IsPartCopy(H, h, item, fields, child, NULL, n, o)
    <3>1. \E o : IsPartCopy(H, h, item, fields, H.child[item], NULL, n, o)
      BY <1>3, <1>7, <2>1, LeafIsPartCopy
    <3> QED BY <1>2, <3>1
  <2>5. Untouched(h, whole) /\ \E p : IsCopy(H, h, item, whole, n, p)
    BY <1>2, <1>7, <2>1, <2>2, <2>3, <2>4, DuplicateChildrenCopies
  <2>6. PICK p : IsCopy(H, h, item, whole, n, p)
    BY <2>5
  <2>7. whole \in AnyHeap /\ n \in Items
    <3>1. levels # 0 => Duplicating(deeper)
      OBVIOUS
    <3>2. \E F : IsMade(h, L, R, O, whole, n, F)
      BY <1>2, <1>7, <2>1, <2>2, <2>3, <3>1, DuplicateChildrenGrows
    <3> QED BY <3>2, MadeFacts
  <2>8. g = Ret(whole, n)
    BY <1>1, <1>7
  <2>9. SameItems(whole, g) /\ g.ret = n
    BY <2>7, <2>8, RetFacts
  <2>10. Untouched(h, g) /\ IsCopy(H, h, item, g, n, p)
    BY <2>5, <2>6, <2>9, SameItemsAreCopied
  <2> QED BY <2>9, <2>10 DEF Copied
<1> QED BY <1>5, <1>6, <1>7

\* At every level.
LEMMA DuplicatesCopy ==
  ASSUME NEW H, IsClosed(H)
  PROVE  Copying(Duplicates[CIRCULAR_LIMIT], H)
<1> DEFINE P(f) == IsLevels(f, CIRCULAR_LIMIT)
           D == Duplicates
<1>0. CIRCULAR_LIMIT \in Nat
  BY TreeAssumption
<1>1. P(D)
  <2>1. \E f : P(f)
    BY <1>0, LevelsExist
  <2>2. D = CHOOSE f : P(f)
    BY DuplicatesAreChosen
  <2> HIDE DEF P, D
  <2> QED BY <2>1, <2>2
<1> HIDE DEF D
<1>2. /\ D[0] = Level(0, <<>>)
      /\ \A i \in 1..CIRCULAR_LIMIT : D[i] = Level(i, D[i - 1])
  <2>1. \A i \in 0..CIRCULAR_LIMIT : D[i] = Level(i, IF i = 0 THEN <<>> ELSE D[i - 1])
    BY <1>1 DEF IsLevels
  <2>2. 0 \in 0..CIRCULAR_LIMIT /\ \A i \in 1..CIRCULAR_LIMIT : i \in 0..CIRCULAR_LIMIT /\ i # 0
    BY <1>0
  <2> QED BY <2>1, <2>2
<1> DEFINE Works(d) == Duplicating(d) /\ Copying(d, H)
<1>3. ASSUME NEW levels \in Nat, NEW deeper, levels # 0 => Works(deeper)
      PROVE  Works(Level(levels, deeper))
  <2>1. Duplicating(Level(levels, deeper))
    <3> SUFFICES ASSUME NEW h, NEW L, NEW R, NEW O, NEW item \in Items,
                        h \in Heaps, HeapInv(h, L, R, O), O \subseteq h.live, item \in h.live
                 PROVE  Makes(h, Level(levels, deeper)[<<h, item>>], L, R, O)
      BY DEF Duplicating
    <3> DEFINE g == cJSON_Duplicate_rec(h, item, TRUE, levels, deeper)
    <3>1. Level(levels, deeper)[<<h, item>>] = g
      BY DEF Level
    <3>2. TRUE \in BOOLEAN /\ (TRUE /\ levels # 0 => Duplicating(deeper))
      BY <1>3
    <3>3. Makes(h, g, L, R, O)
      BY <3>2, DuplicateRecMakes
    <3> QED BY <3>1, <3>3
  <2>2. Copying(Level(levels, deeper), H)
    <3> SUFFICES ASSUME NEW h, NEW L, NEW R, NEW O, NEW item \in Items,
                        h \in Heaps, HeapInv(h, L, R, O), O \subseteq h.live,
                        item \in H.live, Untouched(H, h)
                 PROVE  Copied(H, h, item, Level(levels, deeper)[<<h, item>>])
      BY DEF Copying
    <3> DEFINE g == cJSON_Duplicate_rec(h, item, TRUE, levels, deeper)
    <3>1. Level(levels, deeper)[<<h, item>>] = g
      BY DEF Level
    <3>2. levels # 0 => Duplicating(deeper) /\ Copying(deeper, H)
      BY <1>3
    <3>3. Copied(H, h, item, g)
      BY <3>2, DuplicateRecCopies
    <3> QED BY <3>1, <3>3
  <2> QED BY <2>1, <2>2
<1> DEFINE N == {i \in 0..CIRCULAR_LIMIT : Works(D[i])}
<1>4. 0 \in N
  <2>1. Works(Level(0, <<>>))
    BY <1>3
  <2> HIDE DEF Works
  <2> QED BY <1>0, <1>2, <2>1
<1>5. ASSUME NEW i \in 1..CIRCULAR_LIMIT, i - 1 \in N
      PROVE  i \in N
  <2>1. Works(D[i - 1]) /\ i \in Nat /\ i \in 0..CIRCULAR_LIMIT
    BY <1>0, <1>5
  <2>2. Works(Level(i, D[i - 1]))
    BY <1>3, <2>1
  <2> HIDE DEF Works
  <2> QED BY <1>2, <2>1, <2>2
<1>6. CIRCULAR_LIMIT \in N
  <2>1. CIRCULAR_LIMIT \in 0..CIRCULAR_LIMIT
    BY <1>0
  <2> HIDE DEF N
  <2> QED BY <1>0, <1>4, <1>5, <2>1, Induction
<1> QED BY <1>6 DEF D

\* Between calls, all that is below an item is there.
LEMMA StandingIsClosed ==
  ASSUME NEW h, NEW L, NEW R, Stands(h, L, R)
  PROVE  IsClosed(h)
<1>1. /\ h.live \subseteq Items /\ h \in AnyHeap /\ Memory(h) /\ L \in [Items -> Seq(Items)]
      /\ \A p \in Items : ToSet(L[p]) \subseteq h.live \ R
  BY StandsFacts
<1>2. HeapInv(h, L, R, {})
  BY DEF Stands
<1>3. h.next \in [Items -> Items \cup {NULL}]
  BY <1>1, AnyHeapTypes
<1>4. ASSUME NEW j \in h.live, h.next[j] # NULL
      PROVE  h.next[j] \in h.live
  <2> DEFINE i == h.next[j]
  <2>1. j \in Items /\ i \in Items /\ h.next[j] = i
    BY <1>1, <1>3, <1>4
  <2> HIDE DEF i
  <2> DEFINE O == {}
  <2>2. HeapInv(h, L, R, O)
    BY <1>2
  <2> HIDE DEF O
  <2>3. PICK p \in h.live \ h.ref : \E m \in 1..Len(L[p]) :
          m # Len(L[p]) /\ j = L[p][m] /\ i = L[p][m + 1] /\ m + 1 \in 1..Len(L[p])
    BY <2>1, <2>2, LinksLeadToPlaces
  <2>4. p \in Items /\ L[p] \in Seq(Items)
    BY <1>1, <2>3
  <2>5. i \in ToSet(L[p])
    BY <2>3, <2>4, MemberFacts
  <2>6. i \in h.live
    BY <1>1, <2>4, <2>5
  <2> QED BY <2>6 DEF i
<1>5. \A i \in h.live : h.child[i] \in h.live \cup {NULL}
  BY <1>1 DEF Memory
<1> QED BY <1>1, <1>4, <1>5 DEF IsClosed

\* A whole copy, when nothing fails: the items of h are untouched, and each new
\* one has the name of the one it was made from, a string if that has one, and
\* leads on to where that leads on.
LEMMA DuplicateCopies ==
  ASSUME NEW h, NEW L, NEW R, Stands(h, L, R), h \in Heaps, NEW item \in h.live,
         NEW g, g = cJSON_Duplicate(h, item, TRUE), NEW n, n = g.ret, n # NULL
  PROVE  Untouched(h, g) /\ \E o : IsCopy(h, h, item, g, n, o)
<1> DEFINE O == {}
<1>1. HeapInv(h, L, R, O) /\ O \subseteq h.live /\ item \in Items
  BY StandsFacts DEF Stands
<1> HIDE DEF O
<1>2. IsClosed(h) /\ Untouched(h, h)
  BY StandingIsClosed DEF Untouched
<1>3. g = Duplicates[CIRCULAR_LIMIT][<<h, item>>]
  BY DEF cJSON_Duplicate
<1>4. Copied(h, h, item, g)
  BY <1>1, <1>2, <1>3, DuplicatesCopy DEF Copying
<1> QED BY <1>4 DEF Copied

---------------------------------------------------------------------------
(* The comparison of SameTree, level by level.                             *)

SameLevel(h, n, s) ==
    [pair \in Items \X Items |->
        LET i == pair[1]           j == pair[2]
            a == Children(h, i)    b == Children(h, j) IN
        /\ h.key[i] = h.key[j] /\ (h.text[i] = NULL <=> h.text[j] = NULL)
        /\ Len(a) = Len(b)
        /\ \A k \in DOMAIN a : n > 0 /\ s[<<a[k], b[k]>>]]

IsSame(f, h, m) == f = [n \in 0..m |-> SameLevel(h, n, f[n - 1])]

LEMMA SameIsChosen ==
  ASSUME NEW h, NEW item, NEW copy
  PROVE  SameTree(h, item, copy) = (CHOOSE f : IsSame(f, h, Count))[Count][<<item, copy>>]
BY DEF SameTree, SameLevel, IsSame, Count

\* The lowest level asks for nothing below.
LEMMA LowestLevel ==
  ASSUME NEW h, NEW s, NEW t
  PROVE  SameLevel(h, 0, s) = SameLevel(h, 0, t)
BY DEF SameLevel

\* It is a function.
LEMMA SameExists ==
  ASSUME NEW h, NEW m \in Nat
  PROVE  \E f : IsSame(f, h, m)
<1> DEFINE N == {k \in 0..m : \E f : IsSame(f, h, k)}
<1>1. 0 \in N
  <2> DEFINE f == [i \in 0..0 |-> SameLevel(h, 0, <<>>)]
  <2>1. f[0] = SameLevel(h, 0, <<>>) /\ f = [i \in 0..0 |-> f[i]]
    OBVIOUS
  <2>2. f[0] = SameLevel(h, 0, f[0 - 1])
    <3> HIDE DEF f
    <3> QED BY <2>1, LowestLevel
  <2> HIDE DEF f
  <2>3. f = [i \in 0..0 |-> SameLevel(h, i, f[i - 1])]
    BY <2>1, <2>2
  <2>4. IsSame(f, h, 0) /\ 0 \in 0..m
    BY <2>3 DEF IsSame
  <2> QED BY <2>4
<1>2. ASSUME NEW k \in 1..m, k - 1 \in N
      PROVE  k \in N
  <2>1. PICK f : IsSame(f, h, k - 1)
    BY <1>2
  <2> DEFINE v == [i \in 0..k |-> IF i = k THEN SameLevel(h, k, f[k - 1]) ELSE f[i]]
  <2>2. ASSUME NEW i \in 0..k
        PROVE  v[i] = SameLevel(h, i, v[i - 1])
    <3>1. i # 0 => i - 1 \in 0..k /\ i - 1 # k /\ v[i - 1] = f[i - 1]
      OBVIOUS
    <3>2. CASE i = k
      BY <3>1, <3>2
    <3>3. CASE i # k
      <4>1. i \in 0..(k - 1) /\ v[i] = f[i]
        BY <3>3
      <4>2. f[i] = SameLevel(h, i, f[i - 1])
        BY <2>1, <4>1 DEF IsSame
      <4>3. CASE i = 0
        <5> DEFINE s == f[i - 1]
                   t == v[i - 1]
        <5>1. v[i] = SameLevel(h, 0, s) /\ t = v[i - 1]
          BY <4>1, <4>2, <4>3
        <5> HIDE DEF s, t
        <5>2. v[i] = SameLevel(h, 0, t)
          BY <5>1, LowestLevel
        <5> HIDE DEF v
        <5> QED BY <4>3, <5>1, <5>2
      <4>4. CASE i # 0
        <5> HIDE DEF v
        <5> QED BY <3>1, <4>1, <4>2, <4>4
      <4> QED BY <4>3, <4>4
    <3> QED BY <3>2, <3>3
  <2>3. v = [i \in 0..k |-> v[i]]
    OBVIOUS
  <2> HIDE DEF v
  <2>4. IsSame(v, h, k)
    BY <2>2, <2>3 DEF IsSame
  <2> QED BY <2>4
<1>3. m \in N
  <2>1. m \in 0..m
    OBVIOUS
  <2> HIDE DEF N
  <2> QED BY <1>1, <1>2, <2>1, Induction
<1> QED BY <1>3

---------------------------------------------------------------------------
(* A copy, item by item. *)

\* In g the members of j, which are the items s, are copies of those of o[j].
CopiesItem(g, o, N, j, s) ==
    /\ o[j] \in Items /\ s \in Seq(Items) /\ \A k \in 1..Len(s) : s[k] \in N
    /\ Children(g, j) = s
    /\ Children(g, o[j]) = [k \in 1..Len(s) |-> o[s[k]]]
    /\ g.key[o[j]] = g.key[j] /\ (g.text[o[j]] = NULL <=> g.text[j] = NULL)

\* o leads from the new items N of g to those of h.
IsCopyIn(h, g, M, Q, n, o, N) ==
    /\ Stands(g, M, Q) /\ n \in Q /\ N = g.live \ h.live /\ N = Tree(M, n)
    /\ g.ref = h.ref /\ h.ref \subseteq h.live /\ Untouched(h, g)
    /\ \E item : IsCopy(h, h, item, g, n, o)

LEMMA ItemsAreCopied ==
  ASSUME NEW h, NEW g, NEW M, NEW Q, NEW n, NEW o, NEW N, IsCopyIn(h, g, M, Q, n, o, N),
         NEW j \in N, NEW s, s = M[j]
  PROVE  CopiesItem(g, o, N, j, s)
<1> DEFINE i == o[j]
           t == [k \in 1..Len(s) |-> o[s[k]]]
<1>1. /\ Stands(g, M, Q) /\ n \in Q /\ N = g.live \ h.live /\ N = Tree(M, n)
      /\ N \cap g.ref = {} /\ Untouched(h, g)
  BY DEF IsCopyIn
<1>2. PICK item : IsCopy(h, h, item, g, n, o)
  BY DEF IsCopyIn
<1>3. o \in [N -> h.live] /\ h.live \subseteq g.live /\ g.live \subseteq Items
  <2>1. IsOrigin(o, h, h, g) /\ h.live \subseteq g.live
    BY <1>1, <1>2 DEF IsCopy, Untouched
  <2> QED BY <1>1, <2>1, StandsFacts DEF IsOrigin
<1>4. /\ \A x \in N : /\ g.key[x] = h.key[o[x]] /\ (g.text[x] = NULL <=> h.text[o[x]] = NULL)
                      /\ Follows(o, g.child[x], h.child[o[x]])
                      /\ x # n => Follows(o, g.next[x], h.next[o[x]])
  BY <1>1, <1>2 DEF IsCopy, SameData
<1>5. \A x \in h.live : /\ g.next[x] = h.next[x] /\ g.child[x] = h.child[x]
                        /\ g.key[x] = h.key[x] /\ g.text[x] = h.text[x]
  BY <1>1 DEF Untouched
<1>6. i \in h.live /\ i \in Items
  BY <1>3
<1>7. IsList(g, j, s) /\ s \in Seq(Items) /\ Len(s) \in Nat
  <2>1. j \in g.live \ g.ref
    BY <1>1
  <2>2. M \in [Items -> Seq(Items)] /\ IsList(g, j, M[j]) /\ j \in Items
    BY <1>1, <1>3, <2>1, StandsFacts
  <2> QED BY <2>2
<1>8. ToSet(s) \subseteq N /\ n \notin ToSet(s)
  <2>1. n \in Items /\ j \in Items /\ M \in [Items -> Seq(Items)]
    BY <1>1, <1>3, RootsAreNoMembers, StandsFacts
  <2>2. ToSet(M[j]) \subseteq Tree(M, n)
    BY <1>1, <2>1, TreeFacts
  <2> QED BY <1>1, <2>1, <2>2, RootsAreNoMembers
<1>9. \A k \in 1..Len(s) : s[k] \in N /\ s[k] # n /\ o[s[k]] \in h.live
  BY <1>3, <1>7, <1>8 DEF ToSet
<1>10. Children(g, j) = s
  BY <1>7, ListIsChildren
<1>11. Children(g, i) = t
  <2>1. t \in Seq(Items) /\ Len(t) = Len(s) /\ \A k \in 1..Len(s) : t[k] = o[s[k]]
    BY <1>3, <1>7, <1>9
  <2>2. Len(s) <= Count
    BY <1>7, NoLongerThanItems DEF IsList
  <2>3. /\ g.child[j] = IF s = <<>> THEN NULL ELSE s[1]
        /\ \A k \in 1..Len(s) : g.next[s[k]] = IF k = Len(s) THEN NULL ELSE s[k + 1]
    BY <1>7 DEF IsList
  <2> HIDE DEF t
  <2>4. (t = <<>> <=> Len(s) = 0) /\ (s = <<>> <=> Len(s) = 0)
    BY ONLY <1>7, <2>1
  <2>5. g.child[i] = IF t = <<>> THEN NULL ELSE t[1]
    <3>1. Follows(o, g.child[j], g.child[i])
      BY <1>4, <1>5, <1>6
    <3>2. CASE Len(s) = 0
      BY <2>3, <2>4, <3>1, <3>2 DEF Follows
    <3>3. CASE Len(s) # 0
      <4>1. 1 \in 1..Len(s)
        BY <1>7, <3>3
      <4>2. g.child[j] = s[1] /\ s[1] # NULL
        <5>1. s[1] \in Items
          BY <1>7, <4>1
        <5> QED BY <2>3, <2>4, <3>3, <5>1, ItemsAssumption
      <4>3. g.child[i] = t[1]
        BY <2>1, <3>1, <4>1, <4>2 DEF Follows
      <4> QED BY <2>4, <3>3, <4>3
    <3> QED BY <3>2, <3>3
  <2>6. ASSUME NEW k \in 1..Len(t)
        PROVE  g.next[t[k]] = IF k = Len(t) THEN NULL ELSE t[k + 1]
    <3> DEFINE c == s[k]
    <3>1. c \in N /\ c # n /\ o[c] \in h.live /\ t[k] = o[c] /\ k \in 1..Len(s)
      BY <1>9, <2>1
    <3>2. g.next[c] = IF k = Len(s) THEN NULL ELSE s[k + 1]
      BY <2>3, <3>1
    <3> HIDE DEF c
    <3>3. Follows(o, g.next[c], g.next[t[k]])
      BY <1>4, <1>5, <3>1
    <3>4. CASE k = Len(s)
      BY <2>1, <3>2, <3>3, <3>4 DEF Follows
    <3>5. CASE k # Len(s)
      <4>1. k + 1 \in 1..Len(s) /\ k # Len(t)
        BY <1>7, <2>1, <3>1, <3>5
      <4>2. g.next[c] = s[k + 1] /\ s[k + 1] # NULL
        <5>1. s[k + 1] \in Items
          BY <1>7, <4>1
        <5> QED BY <3>2, <3>5, <5>1, ItemsAssumption
      <4>3. g.next[t[k]] = t[k + 1]
        BY <2>1, <3>3, <4>1, <4>2 DEF Follows
      <4> QED BY <4>1, <4>3
    <3> QED BY <3>4, <3>5
  <2>7. IsChain(g, i, t)
    BY <2>1, <2>2, <2>5, <2>6 DEF IsChain
  <2> HIDE DEF i
  <2> QED BY <2>7, ChainIsChildren
<1>12. g.key[i] = g.key[j] /\ (g.text[i] = NULL <=> g.text[j] = NULL)
  BY <1>4, <1>5, <1>6
<1> QED BY <1>6, <1>7, <1>9, <1>10, <1>11, <1>12 DEF CopiesItem

\* The copy of the tree of j is the same as the tree it was made from, when it
\* is no deeper than m.
LEMMA TreesAreCopied ==
  ASSUME NEW h, NEW g, NEW M, NEW Q, NEW n, NEW o, NEW N, IsCopyIn(h, g, M, Q, n, o, N),
         NEW f, IsSame(f, g, Count), NEW m \in 0..Count, NEW j \in N,
         Cardinality(Tree(M, j)) <= m + 1
  PROVE  f[m][<<o[j], j>>]
<1> DEFINE Fits(k, i) == Cardinality(Tree(M, i)) <= k + 1
           Holds(k) == \A i \in N : Fits(k, i) => f[k][<<o[i], i>>]
           K == {k \in 0..Count : Holds(k)}
<1>1. /\ M \in [Items -> Seq(Items)] /\ Acyclic(M) /\ N \subseteq Items /\ Count \in Nat
  BY StandsFacts, CountIsNat DEF IsCopyIn
<1>2. ASSUME NEW k \in 0..Count, k # 0 => Holds(k - 1)
      PROVE  Holds(k)
  <2> SUFFICES ASSUME NEW i \in N, Fits(k, i)
               PROVE  f[k][<<o[i], i>>]
    OBVIOUS
  <2> DEFINE s == M[i]
             t == [x \in 1..Len(s) |-> o[s[x]]]
             p == o[i]
             F == f[k - 1]
  <2>1. CopiesItem(g, o, N, i, s)
    BY ItemsAreCopied
  <2>2. /\ p \in Items /\ s \in Seq(Items) /\ \A x \in 1..Len(s) : s[x] \in N
        /\ Children(g, i) = s /\ Children(g, p) = t
        /\ g.key[p] = g.key[i] /\ (g.text[p] = NULL <=> g.text[i] = NULL)
    BY <2>1 DEF CopiesItem
  <2>3. ASSUME NEW x \in 1..Len(s)
        PROVE  k > 0 /\ F[<<t[x], s[x]>>]
    <3> DEFINE c == s[x]
               T == Tree(M, i)
               C == Tree(M, c)
    <3>1. c \in N /\ c \in Items /\ i \in Items /\ c \in ToSet(M[i]) /\ t[x] = o[c]
      BY <1>1, <2>2 DEF ToSet
    <3>2. c \in C /\ C \subseteq T \ {i} /\ i \in T /\ T \subseteq Items
      <4>1. i \in T /\ T \in SUBSET Items /\ (\A q \in T : ToSet(M[q]) \subseteq T)
        BY <1>1, <3>1, TreeFacts
      <4>2. c \in T
        BY <3>1, <4>1
      <4>3. C \subseteq T /\ c \in C
        BY <1>1, <3>1, <4>1, <4>2, TreeFacts
      <4>4. i \notin C
        BY <1>1, <3>1, MembersAreBelow
      <4> QED BY <4>1, <4>3, <4>4
    <3> HIDE DEF c, T, C
    <3>3. IsFiniteSet(T) /\ Cardinality(T) \in Nat
      BY <3>2, ItemsAssumption, FS_Subset, FS_CardinalityType
    <3>4. IsFiniteSet(T \ {i}) /\ Cardinality(T \ {i}) = Cardinality(T) - 1
      BY <3>2, <3>3, FS_RemoveElement
    <3>5. IsFiniteSet(C) /\ Cardinality(C) \in Nat /\ Cardinality(C) <= Cardinality(T) - 1
      BY <3>2, <3>4, FS_Subset, FS_CardinalityType
    <3>6. Cardinality(C) # 0
      BY <3>2, <3>5, FS_EmptySet
    <3>7. Cardinality(T) <= k + 1
      BY DEF T
    <3>8. k # 0 /\ k > 0 /\ Cardinality(C) <= (k - 1) + 1
      BY <3>3, <3>5, <3>6, <3>7
    <3>9. Fits(k - 1, c)
      BY <3>8 DEF C
    <3>10. F[<<o[c], c>>]
      BY <1>2, <3>1, <3>8, <3>9
    <3> QED BY <3>1, <3>8, <3>10 DEF c
  <2>4. Len(t) = Len(s) /\ DOMAIN t = 1..Len(s)
    BY <2>2
  <2>5. f[k] = SameLevel(g, k, F)
    BY DEF IsSame
  <2> HIDE DEF t, s, F, p
  <2>6. i \in Items
    BY <1>1
  <2>7. SameLevel(g, k, F)[<<p, i>>]
    BY <2>2, <2>3, <2>4, <2>6 DEF SameLevel
  <2> QED BY <2>5, <2>7 DEF p
<1> HIDE DEF Holds
<1>3. 0 \in K
  BY <1>1, <1>2
<1>4. ASSUME NEW k \in 1..m, k - 1 \in K
      PROVE  k \in K
  BY <1>1, <1>2, <1>4
<1>5. m \in K
  <2>1. m \in 0..m /\ m \in Nat
    OBVIOUS
  <2> HIDE DEF K
  <2> QED BY <1>3, <1>4, <2>1, Induction
<1> QED BY <1>5 DEF Holds

\* So a copy compares as the same.
LEMMA CopyIsSame ==
  ASSUME NEW h, NEW g, NEW M, NEW Q, NEW n, NEW o, NEW N, IsCopyIn(h, g, M, Q, n, o, N),
         NEW i, i = o[n]
  PROVE  SameTree(g, i, n)
<1> DEFINE P(s) == IsSame(s, g, Count)
           f == CHOOSE s : P(s)
<1>1. Count \in Nat
  BY CountIsNat
<1>2. P(f)
  <2>1. \E s : P(s)
    BY <1>1, SameExists
  <2> HIDE DEF P
  <2> QED BY <2>1
<1>3. SameTree(g, i, n) = f[Count][<<i, n>>]
  BY SameIsChosen
<1> HIDE DEF f
<1> DEFINE T == Tree(M, n)
<1>4. n \in N /\ T \subseteq Items
  <2>1. Stands(g, M, Q) /\ n \in Q /\ N = T
    BY DEF IsCopyIn
  <2>2. n \in Items /\ M \in [Items -> Seq(Items)]
    BY <2>1, StandsFacts
  <2> QED BY <2>1, <2>2, TreeFacts
<1>5. Cardinality(T) <= Count + 1
  <2> HIDE DEF T
  <2>1. Cardinality(T) <= Count /\ Cardinality(T) \in Nat
    BY <1>4, ItemsAssumption, FS_Subset, FS_CardinalityType DEF Count
  <2> QED BY <1>1, <2>1
<1> DEFINE m == Count
<1>6. m \in 0..Count /\ Cardinality(Tree(M, n)) <= m + 1 /\ IsSame(f, g, Count)
  BY <1>1, <1>2, <1>5
<1> HIDE DEF m
<1>7. f[m][<<o[n], n>>]
  BY <1>4, <1>6, TreesAreCopied
<1> QED BY <1>3, <1>7 DEF m

---------------------------------------------------------------------------
(* What is true of a copy until the next call. *)

IsWhole(h, L, item, copy) ==
    /\ copy \in Items /\ SameTree(h, item, copy)
    /\ h.next[copy] = NULL /\ h.prev[copy] = NULL
    /\ Tree(L, copy) \cap h.ref = {}
    /\ \A i \in Tree(L, copy) : h.text[i] \in {NULL, i}

CopyStands == copied # NULL => IsWhole(heap, kids, copied[1], copied[2])

\* A copy that was made is whole in the heap the call leaves.
LEMMA CopyIsWhole ==
  ASSUME NEW h, NEW L, NEW R, Stands(h, L, R), h \in Heaps, NEW item \in h.live,
         NEW f, f = cJSON_Duplicate(h, item, TRUE), NEW n, n = f.ret, n # NULL,
         NEW g, SameItems(f, g)
  PROVE  IsWhole(g, Members(f), item, n)
<1> DEFINE O == {}
<1>1. HeapInv(h, L, R, O) /\ O = {} /\ h.ref \subseteq h.live
  BY StandsFacts DEF Stands
<1>2. Makes(h, f, L, R, O)
  <2>1. TRUE \in BOOLEAN /\ HeapInv(h, L, R, {})
    BY <1>1
  <2> QED BY <2>1, DuplicateMakes
<1> HIDE DEF O
<1>3. PICK M : IsMade(h, L, R, O, f, n, M)
  BY <1>2 DEF Makes, Made
<1>4. HeapInv(f, M, R \cup {n}, O) /\ Grown(h, L, f, M, n)
  BY <1>3 DEF IsMade
<1> DEFINE Q == R \cup {n}
           N == g.live \ h.live
<1>5. Stands(f, M, Q) /\ n \in Q
  BY <1>1, <1>4 DEF Stands
<1> HIDE DEF Q
<1>6. Stands(g, M, Q) /\ Members(f) = M
  BY <1>5, SameItemsStand, MembersAreListed
<1>7. g.live = f.live /\ g.ref = f.ref /\ f.ref = h.ref /\ Tree(M, n) = f.live \ h.live
  BY <1>4 DEF SameItems, Grown
<1>8. Untouched(h, f) /\ \E o : IsCopy(h, h, item, f, n, o)
  BY DuplicateCopies
<1>9. PICK o : IsCopy(h, h, item, f, n, o)
  BY <1>8
<1>10. Untouched(h, g) /\ IsCopy(h, h, item, g, n, o)
  BY <1>8, <1>9, SameItemsAreCopied
<1>11. N = g.live \ h.live /\ N = Tree(M, n) /\ n \in N /\ o[n] = item
  BY <1>7, <1>10 DEF IsCopy
<1> HIDE DEF N
<1>12. IsCopyIn(h, g, M, Q, n, o, N)
  BY <1>1, <1>5, <1>6, <1>7, <1>10, <1>11 DEF IsCopyIn
<1>13. SameTree(g, item, n)
  BY <1>11, <1>12, CopyIsSame
<1>14. n \in Items /\ g.next[n] = NULL /\ g.prev[n] = NULL
  BY <1>5, <1>6, RootsAreNoMembers, ZenonT(60)
<1>15. N \cap g.ref = {}
  BY <1>1, <1>7, <1>11
<1>16. \A i \in N : g.text[i] \in {NULL, i}
  <2>1. Memory(g)
    BY <1>6, StandsFacts
  <2>2. \A i \in g.live \ g.ref : g.text[i] \in {NULL, i}
    BY <2>1 DEF Memory
  <2> QED BY <1>11, <1>15, <2>2
<1> QED BY <1>6, <1>11, <1>13, <1>14, <1>15, <1>16 DEF IsWhole

\* So is one that cJSON_Duplicate gives to the caller ...
LEMMA DuplicateIsWhole ==
  ASSUME HeapStands, Duplicate
  PROVE  CopyStands'
<1>1. PICK item \in Forest!Used, recurse \in BOOLEAN, n \in Allocations(MaxFuel) :
         LET h == cJSON_Duplicate(Fuel(n), item, recurse) IN
         /\ heap' = [h EXCEPT !.fuel = 0, !.ret = NULL]
         /\ kids' = Members(h)
         /\ copied' = IF h.ret = NULL \/ ~recurse THEN NULL ELSE <<item, h.ret>>
  BY DEF Duplicate
<1> DEFINE h == Fuel(n)
           f == cJSON_Duplicate(h, item, recurse)
           g == [f EXCEPT !.fuel = 0, !.ret = NULL]
           O == {}
           copy == f.ret
<1>2. /\ h = Fuel(n) /\ O = {} /\ f = cJSON_Duplicate(h, item, recurse)
      /\ g = [f EXCEPT !.fuel = 0, !.ret = NULL] /\ copy = f.ret
      /\ heap' = g /\ kids' = Members(f)
      /\ copied' = IF copy = NULL \/ ~recurse THEN NULL ELSE <<item, copy>>
      /\ n \in Nat
  BY <1>1, TreeAssumption, AllocationsAreNumbers
<1> HIDE DEF h, f, g, O, copy
<1>3. Stands(h, kids, roots) /\ h \in Heaps /\ SameItems(heap, h)
  BY <1>2, CallStarts
<1>4. item \in h.live
  <2>1. item \in heap.live
    BY ListsAreLive
  <2> QED BY <1>3, <2>1 DEF SameItems
<1>5. CASE copy = NULL \/ ~recurse
  BY <1>2, <1>5 DEF CopyStands
<1>6. CASE copy # NULL /\ recurse
  <2>1. f = cJSON_Duplicate(h, item, TRUE)
    BY <1>2, <1>6
  <2>2. f \in AnyHeap
    <3>1. Makes(h, f, kids, roots, {})
      <4>1. HeapInv(h, kids, roots, {})
        BY <1>3 DEF Stands
      <4> QED BY <1>2, <1>3, <1>4, <4>1, DuplicateMakes
    <3>2. Made(h, f, kids, roots, {})
      BY <1>2, <1>6, <3>1 DEF Makes
    <3> QED BY <3>2 DEF Made, IsMade, HeapInv
  <2>3. SameItems(f, g)
    BY <1>2, <2>2, ReturnFacts
  <2>4. IsWhole(g, Members(f), item, copy)
    BY <1>2, <1>3, <1>4, <1>6, <2>1, <2>3, CopyIsWhole
  <2>5. copied' = <<item, copy>>
    BY <1>2, <1>6
  <2>6. copied'[1] = item /\ copied'[2] = copy
    BY <2>5
  <2>7. IsWhole(heap', kids', copied'[1], copied'[2])
    BY <1>2, <2>4, <2>6
  <2> QED BY <2>7 DEF CopyStands
<1> QED BY <1>5, <1>6

\* ... and the other calls make none.
LEMMA OthersCopyNothing ==
  ASSUME Next, ~Duplicate
  PROVE  copied' = NULL
<1>1. \A h, held : Return(h, held) => copied' = NULL
  BY DEF Return
<1>2. \A h : Gives(h) => copied' = NULL
  BY <1>1 DEF Gives
<1>3. \A h, item : Takes(h, item) => copied' = NULL
  BY <1>1 DEF Takes
<1>4. CreateItem \/ CreateArrayOf \/ CreateReference \/ DetachItem => copied' = NULL
  BY <1>2 DEF CreateItem, CreateArrayOf, CreateReference, DetachItem
<1>5. AddItemToArray \/ AddItemToObject \/ InsertItemInList \/ ReplaceItem => copied' = NULL
  BY <1>3 DEF AddItemToArray, AddItemToObject, InsertItemInList, ReplaceItem
<1>6. ReplaceItemInObject => copied' = NULL
  BY <1>3 DEF ReplaceItemInObject
<1>7. AddNewToObject \/ AddReference \/ DeleteItem \/ Delete => copied' = NULL
  BY <1>1 DEF AddNewToObject, AddReference, DeleteItem, Delete
<1> QED BY <1>4, <1>5, <1>6, <1>7 DEF Next

\* cJSON_Duplicate() gives a copy with the shape, the names and the strings of
\* its original, no reference in it, and no memory that is shared.
THEOREM CopiesAreAlwaysWhole == Spec => []CopiesAreWhole
<1>1. Init => CopyStands
  BY DEF Init, CopyStands
<1>2. HeapStands /\ CopyStands /\ [Next]_vars => CopyStands'
  <2> SUFFICES ASSUME HeapStands, CopyStands, [Next]_vars
               PROVE  CopyStands'
    OBVIOUS
  <2>1. CASE Duplicate
    BY <2>1, DuplicateIsWhole
  <2>2. CASE Next /\ ~Duplicate
    BY <2>2, OthersCopyNothing DEF CopyStands
  <2>3. CASE UNCHANGED vars
    BY <2>3 DEF vars, CopyStands
  <2> QED BY <2>1, <2>2, <2>3
<1>3. HeapStands /\ CopyStands => CopiesAreWhole
  <2> SUFFICES ASSUME HeapStands, IsWhole(heap, kids, copied[1], copied[2]), copied # NULL
               PROVE  CopiesAreWhole
    BY DEF CopyStands, CopiesAreWhole
  <2>1. copied[2] \in Items
    BY DEF IsWhole
  <2>2. Below(copied[2]) = Tree(kids, copied[2])
    BY <2>1, ListsAreLive
  <2> QED BY <2>2 DEF IsWhole, CopiesAreWhole
<1> QED BY <1>1, <1>2, <1>3, HeapAlwaysStands, PTL DEF Spec
=============================================================================
