----------------------------- MODULE JsonList -----------------------------
(***************************************************************************)
(* The linked lists of cJSON.c: the members of an array or object hang on  *)
(* its child pointer and are chained by next; prev is the member before,   *)
(* and for the first member the LAST one, so that appending takes no walk. *)
(*                                                                         *)
(* A heap is a record with the functions next, prev and child from items   *)
(* to items or NULL; operators take it and return it changed, with the     *)
(* result of the call in its field ret: TRUE or a pointer, and NULL for    *)
(* false as for the null pointer.  Dereferencing NULL is an application    *)
(* outside a function's domain, which TLC reports.                         *)
(***************************************************************************)
EXTENDS Naturals, FiniteSets, Sequences

CONSTANTS Items, NULL

ASSUME ItemsAssumption == IsFiniteSet(Items) /\ NULL \notin Items

Ret(h, result) == [h EXCEPT !.ret = result]

\* The item at an index, counted from 0, or NULL past the end.
get_array_item(h, array, index) ==
    LET walk[k \in 0..index] ==
            IF k = 0 THEN h.child[array]
            ELSE LET i == walk[k - 1] IN IF i = NULL THEN NULL ELSE h.next[i]
    IN  IF array = NULL THEN NULL ELSE walk[index]

\* The items of a list, in the order of cJSON_ArrayForEach.  The bound
\* makes this defined for a list with a cycle.
Children(h, array) ==
    LET walk[n \in 0..Cardinality(Items)] ==
            IF n = 0 THEN <<>>
            ELSE LET s == walk[n - 1]
                     i == IF s = <<>> THEN h.child[array] ELSE h.next[s[Len(s)]]
                 IN  IF i = NULL THEN s ELSE Append(s, i)
    IN  walk[Cardinality(Items)]

GetArraySize(h, array) == IF array = NULL THEN 0 ELSE Len(Children(h, array))

suffix_object(h, prev, item) ==
    [h EXCEPT !.next[prev] = item, !.prev[item] = prev]

add_item_to_array_KeepsTail(h, array, item) ==
    IF item = NULL \/ array = NULL \/ array = item THEN Ret(h, NULL)
    ELSE IF h.child[array] = NULL
    THEN Ret([h EXCEPT !.child[array] = item, !.prev[item] = item, !.next[item] = NULL], TRUE)
    ELSE Ret(suffix_object(h, h.prev[h.child[array]], item), TRUE)

add_item_to_array(h, array, item) ==
    IF item = NULL \/ array = NULL \/ array = item THEN Ret(h, NULL)
    ELSE LET head == h.child[array] IN
         IF head = NULL
         THEN Ret([h EXCEPT !.child[array] = item, !.prev[item] = item, !.next[item] = NULL], TRUE)
         ELSE IF h.prev[head] = NULL THEN Ret(h, TRUE)
         ELSE Ret([suffix_object(h, h.prev[head], item) EXCEPT !.prev[head] = item], TRUE)

\* The three assignments in the order of the code: the member before, the
\* member after, and the parent or, for the last member, the head's prev.
DetachItemViaPointer(h, parent, item) ==
    IF parent = NULL \/ item = NULL \/ (item # h.child[parent] /\ h.prev[item] = NULL)
    THEN Ret(h, NULL)
    ELSE LET first == item = h.child[parent]
             last == h.next[item] = NULL
             before == IF first THEN h ELSE [h EXCEPT !.next[h.prev[item]] = h.next[item]]
             after == IF last THEN before ELSE [before EXCEPT !.prev[h.next[item]] = h.prev[item]]
             head == IF first THEN [after EXCEPT !.child[parent] = h.next[item]]
                     ELSE IF last THEN [after EXCEPT !.prev[after.child[parent]] = h.prev[item]]
                     ELSE after
         IN  Ret([head EXCEPT !.prev[item] = NULL, !.next[item] = NULL], item)

InsertItemInArray(h, array, which, newitem) ==
    LET after == get_array_item(h, array, which) IN
    IF newitem = NULL THEN Ret(h, NULL)
    ELSE IF after = NULL THEN add_item_to_array(h, array, newitem)
    ELSE IF after # h.child[array] /\ h.prev[after] = NULL THEN Ret(h, NULL)
    ELSE LET linked == [h EXCEPT !.next[newitem] = after,
                                 !.prev[newitem] = h.prev[after],
                                 !.prev[after] = newitem]
         IN  Ret(IF after = h.child[array]
                 THEN [linked EXCEPT !.child[array] = newitem]
                 ELSE [linked EXCEPT !.next[h.prev[after]] = newitem], TRUE)

ReplaceLinks_DropsRest(h, parent, item, replacement) ==
    LET copied == [h EXCEPT !.prev[replacement] = h.prev[item]]
    IN  IF h.child[parent] = item
        THEN [copied EXCEPT !.child[parent] = replacement, !.next[item] = NULL, !.prev[item] = NULL]
        ELSE [copied EXCEPT !.next[h.prev[item]] = replacement, !.next[item] = NULL, !.prev[item] = NULL]

\* cJSON_ReplaceItemViaPointer up to its cJSON_Delete(item).
ReplaceLinks(h, parent, item, replacement) ==
    LET copied == [h EXCEPT !.next[replacement] = h.next[item],
                            !.prev[replacement] = h.prev[item]]
        after == IF h.next[item] = NULL THEN copied
                 ELSE [copied EXCEPT !.prev[h.next[item]] = replacement]
        around == IF h.child[parent] = item
                  THEN [after EXCEPT
                          !.prev[replacement] = IF h.prev[item] = item THEN replacement ELSE @,
                          !.child[parent] = replacement]
                  ELSE LET before == IF h.prev[item] = NULL THEN after
                                     ELSE [after EXCEPT !.next[h.prev[item]] = replacement]
                       IN  IF h.next[item] = NULL
                           THEN [before EXCEPT !.prev[h.child[parent]] = replacement]
                           ELSE before
    IN  [around EXCEPT !.next[item] = NULL, !.prev[item] = NULL]

(***************************************************************************)
(* The list of an item is well formed: next goes from each member to the   *)
(* one after it and ends, prev goes back, and from the first to the last.  *)
(* This is what every operator above relies on and must restore.           *)
(***************************************************************************)
WellLinked(h, array) ==
    LET s == Children(h, array) IN
    /\ \A j, k \in DOMAIN s : s[j] = s[k] => j = k
    /\ \A k \in DOMAIN s :
          /\ h.next[s[k]] = IF k = Len(s) THEN NULL ELSE s[k + 1]
          /\ h.prev[s[k]] = IF k = 1 THEN s[Len(s)] ELSE s[k - 1]
=============================================================================
