------------------------------ MODULE Shuffle ------------------------------
(***************************************************************************)
(* The SHUFFLE macro of tests.c, which reorders an array of tests before   *)
(* each round: the Fisher-Yates shuffle, over positions 1..N.              *)
(*                                                                         *)
(* An operator D_X is a faulty version of D: the mutation with which a run *)
(* of D's properties is seen to fail.                                      *)
(***************************************************************************)
EXTENDS Naturals, FiniteSets

CONSTANT N   \* length of the array

ASSUME NAssumption == N \in Nat

VARIABLES
    arr,   \* the array: its elements are numbered as they stand at first
    i      \* positions i + 1 .. N have got their element

vars == <<arr, i>>

swap_OneWay(a, p, q) == [a EXCEPT ![p] = a[q]]

swap(a, p, q) == [a EXCEPT ![p] = a[q], ![q] = a[p]]

Init ==
    /\ arr = [p \in 1..N |-> p]
    /\ i = N

Choices_Whole(k) == 1..N

\* The positions n can be: rand() % i is any of 0 .. i - 1.
Choices(k) == 1..k

\* One iteration of the loop.
Step ==
    /\ i > 0
    /\ \E n \in Choices(i) : arr' = swap(arr, i, n)
    /\ i' = i - 1

Done == i = 0 /\ UNCHANGED vars

Next == Step \/ Done

Spec == Init /\ [][Next]_vars

\* The orders the last k iterations of the loop can make of an array.
Orders[k \in 0..N] ==
    [a \in [1..N -> 1..N] |->
        IF k = 0 THEN {a} ELSE UNION {Orders[k - 1][swap(a, k, n)] : n \in Choices(k)}]
---------------------------------------------------------------------------
TypeOK ==
    /\ arr \in [1..N -> 1..N]
    /\ i \in 0..N

\* No test is lost and none is doubled, in the middle of the loop or after.
EveryTestOnce ==
    /\ \A p, q \in 1..N : arr[p] = arr[q] => p = q
    /\ \A test \in 1..N : \E p \in 1..N : arr[p] = test

\* A position the loop has gone past keeps its test.
SettledStays == [][\A p \in 1..N : p > i => arr'[p] = arr[p]]_vars

\* From every state, each sequence of choices that is left leads to an order
\* of its own: no order is favoured, beyond the bias of rand() % i.
EveryOrderAsLikely ==
    Cardinality(Orders[i][arr])
        = Cardinality({c \in [1..i -> 1..N] : \A k \in 1..i : c[k] \in Choices(k)})
=============================================================================
