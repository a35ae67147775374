---------------------------- MODULE JsonForest ----------------------------
(***************************************************************************)
(* What cJSON promises of its trees: a forest of ordered trees, where an   *)
(* item is a member of at most one list and a caller owns the items that   *)
(* are in none.  Every call is one atomic change of the forest, or none.   *)
(***************************************************************************)
EXTENDS Naturals, FiniteSets, SequencesExt

CONSTANT Items

VARIABLES
    kids,    \* the members of each item, in order
    roots    \* the items a caller owns

\* S and all that edges leads to from there.
Closure(S, edges) ==
    LET from[n \in 0..Cardinality(Items)] ==
            IF n = 0 THEN S
            ELSE LET T == from[n - 1] IN T \cup UNION {edges[i] : i \in T}
    IN  from[Cardinality(Items)]

Descendants(i) == Closure({i}, [j \in Items |-> ToSet(kids[j])])

Used == UNION {Descendants(i) : i \in roots}

Init == kids = [i \in Items |-> <<>>] /\ roots = {}

Without(k, gone) == [i \in Items |-> IF i \in gone THEN <<>> ELSE k[i]]

\* A new tree, whole, out of items not in use.
Grow(i) ==
    /\ roots' = roots \cup {i}
    /\ \A j \in Items \ Descendants(i)' : kids'[j] = kids[j]
    /\ Descendants(i)' \cap Used = {}

\* A tree of the caller becomes the member of a list after its first k.
Attach(p, k, i) ==
    /\ roots' = roots \ {i}
    /\ kids' = [kids EXCEPT ![p] = InsertAt(@, k + 1, i)]
    /\ p \in Used \ Descendants(i)

\* A new item is made and added at once.
AttachNew(p, i) ==
    /\ UNCHANGED roots
    /\ kids' = [kids EXCEPT ![p] = Append(@, i)]
    /\ i \notin Used /\ p \in Used

Detach(p, k) ==
    /\ roots' = roots \cup {kids[p][k]}
    /\ kids' = [kids EXCEPT ![p] = RemoveAt(@, k)]
    /\ p \in Used

\* A member and all below it is gone.
Erase(p, k) ==
    /\ UNCHANGED roots
    /\ kids' = Without([kids EXCEPT ![p] = RemoveAt(@, k)], Descendants(kids[p][k]))
    /\ p \in Used

\* A tree of the caller takes the place of a member, which is gone.
Replace(p, k, i) ==
    /\ roots' = roots \ {i}
    /\ kids' = Without([kids EXCEPT ![p][k] = i], Descendants(kids[p][k]))
    /\ p \in Used \ Descendants(i)

Discard(i) ==
    /\ roots' = roots \ {i}
    /\ kids' = Without(kids, Descendants(i))

Next ==
    /\ <<kids, roots>>' # <<kids, roots>>
    /\ \/ \E i \in roots' \ roots : Grow(i)
       \/ \E i \in roots \ roots' : Discard(i)
       \/ \E p \in Items :
             /\ kids'[p] # kids[p]
             /\ \/ \E i \in Items : AttachNew(p, i)
                \/ \E i \in roots \ roots' :
                      \/ \E k \in 0..Len(kids[p]) : Attach(p, k, i)
                      \/ \E k \in DOMAIN kids[p] : Replace(p, k, i)
                \/ \E k \in DOMAIN kids[p] : Detach(p, k) \/ Erase(p, k)

Spec == Init /\ [][Next]_<<kids, roots>>
=============================================================================
