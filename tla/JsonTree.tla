----------------------------- MODULE JsonTree -----------------------------
(***************************************************************************)
(* cJSON's items in memory: cJSON_New_Item and cJSON_Delete, the calls     *)
(* that create, add, detach, insert, replace and duplicate items, and      *)
(* what each does when an allocation fails half way.                       *)
(*                                                                         *)
(* A heap extends the record of JsonList with: live, the allocated items;  *)
(* ref and const, the items with the flags cJSON_IsReference and           *)
(* cJSON_StringIsConst; key, an item's name; text, the item whose string   *)
(* the pointer valuestring leads to; strings, the count of allocated       *)
(* strings; fuel, how many allocations succeed until the next one fails;   *)
(* sound, FALSE once memory was freed that was not allocated.  The fields  *)
(* of a free item are NULL, as memset leaves those of a new one.           *)
(*                                                                         *)
(* The type of an item plays no part: no call here looks at it.            *)
(***************************************************************************)
EXTENDS JsonList, Integers, FiniteSetsExt

CONSTANTS CIRCULAR_LIMIT,   \* CJSON_CIRCULAR_LIMIT
          MaxFuel,          \* bounds the allocations before one fails
          MaxSize           \* bounds the items, their strings, names and flags together

ASSUME TreeAssumption ==
    /\ CIRCULAR_LIMIT \in Nat /\ MaxFuel \in Nat
    /\ NULL \notin {"a", "A"} /\ NULL # TRUE

VARIABLES
    heap,
    roots,    \* the items whose pointers the caller holds, to delete or to add
    kids,     \* the members of each item that is no reference: what heap stands for
    failed,   \* whether the last call returned false or NULL
    copied    \* after cJSON_Duplicate, <<the item, its copy>>; otherwise NULL

vars == <<heap, roots, kids, failed, copied>>

Forest == INSTANCE JsonForest

\* Two names that only cJSON_GetObjectItemCaseSensitive tells apart.
Names == {"a", "A"}
tolower(name) == IF name = "A" THEN "a" ELSE name

EmptyHeap ==
    [live |-> {}, ref |-> {}, const |-> {}, strings |-> 0, sound |-> TRUE,
     fuel |-> 0, ret |-> NULL,
     next |-> [i \in Items |-> NULL], prev |-> [i \in Items |-> NULL],
     child |-> [i \in Items |-> NULL], key |-> [i \in Items |-> NULL],
     text |-> [i \in Items |-> NULL]]

-----------------------------------------------------------------------------
(* Allocation and deletion *)

cJSON_New_Item(h) ==
    IF h.fuel = 0 \/ h.live = Items THEN Ret(h, NULL)
    ELSE LET i == CHOOSE free \in Items \ h.live : TRUE
         IN  Ret([h EXCEPT !.fuel = @ - 1, !.live = @ \cup {i}], i)

cJSON_strdup(h) ==
    IF h.fuel = 0 THEN Ret(h, NULL)
    ELSE Ret([h EXCEPT !.fuel = @ - 1, !.strings = @ + 1], TRUE)

OwnsKey(h, i) == i \notin h.const /\ h.key[i] # NULL
OwnsText(h, i) == i \notin h.ref /\ h.text[i] # NULL

Followed_IntoReferences(h, i) == {h.next[i], h.child[i]} \ {NULL}

\* Where cJSON_Delete goes on from an item.
Followed(h, i) == {h.next[i], IF i \in h.ref THEN NULL ELSE h.child[i]} \ {NULL}

Reached(h, item) == Forest!Closure({item}, [i \in Items |-> Followed(h, i)])

\* How often cJSON_Delete(item) comes to i.
Visits(h, item, i) ==
    Cardinality({j \in Reached(h, item) : h.next[j] = i})
    + Cardinality({j \in Reached(h, item) \ h.ref : h.child[j] = i})
    + (IF i = item THEN 1 ELSE 0)

Clear(f, gone) == [i \in Items |-> IF i \in gone THEN NULL ELSE f[i]]

cJSON_Delete(h, item) ==
    IF item = NULL THEN h
    ELSE LET gone == Reached(h, item) IN
         [h EXCEPT
            !.live = @ \ gone, !.ref = @ \ gone, !.const = @ \ gone,
            !.next = Clear(@, gone), !.prev = Clear(@, gone), !.child = Clear(@, gone),
            !.key = Clear(@, gone), !.text = Clear(@, gone),
            !.strings = @ - Cardinality({i \in gone : OwnsKey(h, i)})
                          - Cardinality({i \in gone : OwnsText(h, i)}),
            !.sound = @ /\ \A i \in gone : i \in h.live /\ Visits(h, item, i) = 1]

-----------------------------------------------------------------------------
(* Creation *)

\* cJSON_CreateNull, True, False, Bool, Number, Array and Object.
cJSON_CreateItem(h) == cJSON_New_Item(h)

cJSON_CreateString_Leaks(h) ==
    LET new == cJSON_New_Item(h)
        copy == cJSON_strdup(new)
    IN  IF new.ret = NULL \/ copy.ret = NULL THEN Ret(copy, NULL)
        ELSE Ret([copy EXCEPT !.text[new.ret] = new.ret], new.ret)

\* cJSON_CreateString and cJSON_CreateRaw.
cJSON_CreateString(h) ==
    LET new == cJSON_New_Item(h)
        copy == cJSON_strdup(new)
    IN  IF new.ret = NULL THEN new
        ELSE IF copy.ret = NULL THEN Ret(cJSON_Delete(copy, new.ret), NULL)
        ELSE Ret([copy EXCEPT !.text[new.ret] = new.ret], new.ret)

Create(h, string) == IF string THEN cJSON_CreateString(h) ELSE cJSON_CreateItem(h)

\* cJSON_CreateIntArray and the three like it.  In the loop the first item
\* is hung on the array, and its prev is set after the last one only.
cJSON_CreateArrayOf(h, count, string) ==
    LET a == cJSON_New_Item(h)
        loop[i \in 0..count] ==
            IF i = 0 THEN [heap |-> a, p |-> NULL, done |-> a.ret = NULL]
            ELSE LET b == loop[i - 1]
                     n == Create(b.heap, string)
                 IN  IF b.done THEN b
                     ELSE IF n.ret = NULL
                     THEN [b EXCEPT !.heap = Ret(cJSON_Delete(n, a.ret), NULL), !.done = TRUE]
                     ELSE [b EXCEPT !.p = n.ret,
                             !.heap = IF i = 1 THEN [n EXCEPT !.child[a.ret] = n.ret]
                                      ELSE suffix_object(n, b.p, n.ret)]
        end == loop[count]
    IN  IF end.done \/ end.heap.child[a.ret] = NULL
        THEN IF end.done THEN end.heap ELSE Ret(end.heap, a.ret)
        ELSE Ret([end.heap EXCEPT !.prev[end.heap.child[a.ret]] = end.p], a.ret)

\* cJSON_CreateArrayReference and cJSON_CreateObjectReference.
cJSON_CreateArrayReference(h, child) ==
    LET new == cJSON_New_Item(h) IN
    IF new.ret = NULL THEN new
    ELSE [new EXCEPT !.ref = @ \cup {new.ret}, !.child[new.ret] = child]

\* The flags are copied with the rest, so a reference to an item with a
\* constant name has cJSON_StringIsConst and no name.
create_reference(h, item) ==
    LET new == cJSON_New_Item(h) IN
    IF item = NULL THEN Ret(h, NULL)
    ELSE IF new.ret = NULL THEN new
    ELSE [new EXCEPT !.child[new.ret] = h.child[item], !.text[new.ret] = h.text[item],
                     !.ref = @ \cup {new.ret},
                     !.const = IF item \in @ THEN @ \cup {new.ret} ELSE @]

-----------------------------------------------------------------------------
(* Objects *)

add_item_to_object_AddsFirst(h, object, name, item, constant_key) ==
    LET added == add_item_to_array(h, object, item)
        named == IF constant_key THEN Ret(added, TRUE) ELSE cJSON_strdup(added)
    IN  IF added.ret = NULL \/ named.ret = NULL THEN Ret(named, NULL)
        ELSE [named EXCEPT !.strings = IF OwnsKey(h, item) THEN @ - 1 ELSE @,
                !.key[item] = name,
                !.const = IF constant_key THEN @ \cup {item} ELSE @ \ {item}]

add_item_to_object(h, object, name, item, constant_key) ==
    LET named == IF constant_key THEN Ret(h, TRUE) ELSE cJSON_strdup(h) IN
    IF object = NULL \/ item = NULL \/ object = item THEN Ret(h, NULL)
    ELSE IF named.ret = NULL THEN named
    ELSE add_item_to_array([named EXCEPT
             !.strings = IF OwnsKey(h, item) THEN @ - 1 ELSE @,
             !.key[item] = name,
             !.const = IF constant_key THEN @ \cup {item} ELSE @ \ {item}], object, item)

\* cJSON_AddNullToObject and the eight like it.
cJSON_AddNewToObject(h, object, name, string) ==
    LET new == Create(h, string)
        added == add_item_to_object(new, object, name, new.ret, FALSE)
    IN  IF added.ret = NULL THEN Ret(cJSON_Delete(added, new.ret), NULL)
        ELSE Ret(added, new.ret)

cJSON_AddItemReferenceToArray(h, array, item) ==
    IF array = NULL THEN Ret(h, NULL)
    ELSE LET new == create_reference(h, item) IN add_item_to_array(new, array, new.ret)

\* When the name cannot be copied, nothing deletes the new reference.
cJSON_AddItemReferenceToObject(h, object, name, item) ==
    IF object = NULL THEN Ret(h, NULL)
    ELSE LET new == create_reference(h, item)
         IN  add_item_to_object(new, object, name, new.ret, FALSE)

\* The search with case stops at the first item without a name.
get_object_item(h, object, name, case_sensitive) ==
    LET list == Children(h, object)
        Stops(i) == IF case_sensitive THEN h.key[i] \in {NULL, name}
                    ELSE h.key[i] # NULL /\ tolower(h.key[i]) = tolower(name)
        found == {k \in DOMAIN list : Stops(list[k])}
    IN  IF found = {} \/ h.key[list[Min(found)]] = NULL THEN NULL ELSE list[Min(found)]

-----------------------------------------------------------------------------
(* Replacement and duplication *)

cJSON_ReplaceItemViaPointer(h, parent, item, replacement) ==
    IF parent = NULL \/ replacement = NULL \/ item = NULL THEN Ret(h, NULL)
    ELSE IF h.child[parent] = NULL THEN Ret(h, NULL)
    ELSE IF replacement = item THEN Ret(h, TRUE)
    ELSE Ret(cJSON_Delete(ReplaceLinks(h, parent, item, replacement), item), TRUE)

replace_item_in_object(h, object, name, replacement, case_sensitive) ==
    LET freed == [h EXCEPT !.strings = IF OwnsKey(h, replacement) THEN @ - 1 ELSE @,
                           !.key[replacement] = NULL]
        copy == cJSON_strdup(freed)
        named == [copy EXCEPT !.key[replacement] = name, !.const = @ \ {replacement}]
    IN  IF replacement = NULL THEN Ret(h, NULL)
        ELSE IF copy.ret = NULL THEN copy
        ELSE cJSON_ReplaceItemViaPointer(named, object,
                 get_object_item(named, object, name, case_sensitive), replacement)

CopyFields_SharesTexts(h, item, new) ==
    LET flags == [h EXCEPT !.const = IF item \in @ THEN @ \cup {new} ELSE @]
        key == IF h.key[item] = NULL \/ item \in h.const THEN Ret(flags, TRUE)
               ELSE cJSON_strdup(flags)
    IN  IF key.ret = NULL THEN key
        ELSE [key EXCEPT !.key[new] = h.key[item], !.text[new] = h.text[item]]

\* Where a reference led to memory of another item, its copy has its own.
CopyFields(h, item, new) ==
    LET flags == [h EXCEPT !.const = IF item \in @ THEN @ \cup {new} ELSE @]
        text == IF h.text[item] = NULL THEN Ret(flags, TRUE) ELSE cJSON_strdup(flags)
        texted == IF h.text[item] = NULL \/ text.ret = NULL THEN text
                  ELSE [text EXCEPT !.text[new] = new]
        key == IF h.key[item] = NULL \/ item \in h.const THEN Ret(texted, TRUE)
               ELSE cJSON_strdup(texted)
    IN  IF text.ret = NULL THEN text
        ELSE IF key.ret = NULL THEN key
        ELSE [key EXCEPT !.key[new] = h.key[item]]

\* The walk along the next chain of the members.  levels says how far
\* CIRCULAR_LIMIT is, deeper is the recursive call.  No chain of more members
\* than there are items is ever duplicated whole.
DuplicateChildren(h, new, child, levels, deeper) ==
    LET loop[i \in 0..Cardinality(Items)] ==
            IF i = 0 THEN [heap |-> Ret(h, TRUE), child |-> child, last |-> NULL]
            ELSE LET b == loop[i - 1]
                     copy == IF levels = 0 THEN Ret(b.heap, NULL)
                             ELSE deeper[<<Ret(b.heap, NULL), b.child>>]
                 IN  IF b.child = NULL THEN b
                     ELSE IF copy.ret = NULL
                     THEN [heap |-> copy, child |-> NULL, last |-> NULL]
                     ELSE [heap |-> Ret(IF b.last = NULL THEN [copy EXCEPT !.child[new] = copy.ret]
                                        ELSE suffix_object(copy, b.last, copy.ret), TRUE),
                           child |-> copy.next[b.child], last |-> copy.ret]
        end == loop[Cardinality(Items)]
    IN  IF end.last = NULL THEN end.heap
        ELSE [end.heap EXCEPT !.prev[end.heap.child[new]] = end.last]

cJSON_Duplicate_rec(h, item, recurse, levels, deeper) ==
    LET new == cJSON_New_Item(h)
        fields == CopyFields(new, item, new.ret)
        whole == IF fields.ret = NULL \/ ~recurse THEN fields
                 ELSE DuplicateChildren(fields, new.ret, h.child[item], levels, deeper)
    IN  IF new.ret = NULL THEN new
        ELSE IF whole.ret = NULL THEN Ret(cJSON_Delete(whole, new.ret), NULL)
        ELSE Ret(whole, new.ret)

\* The heaps a call may find.
Heaps ==
    LET Pointers == [Items -> Items \cup {NULL}]
    IN  [live : SUBSET Items, ref : SUBSET Items, const : SUBSET Items,
         strings : Int, sound : BOOLEAN, fuel : Nat, ret : {NULL},
         next : Pointers, prev : Pointers, child : Pointers, text : Pointers,
         key : [Items -> Names \cup {NULL}]]

\* The recursion, from CIRCULAR_LIMIT upwards.
Duplicates[levels \in 0..CIRCULAR_LIMIT] ==
    [call \in Heaps \X Items |->
        cJSON_Duplicate_rec(call[1], call[2], TRUE, levels,
                            IF levels = 0 THEN <<>> ELSE Duplicates[levels - 1])]

cJSON_Duplicate(h, item, recurse) ==
    IF recurse THEN Duplicates[CIRCULAR_LIMIT][<<h, item>>]
    ELSE cJSON_Duplicate_rec(h, item, FALSE, 0, <<>>)

-----------------------------------------------------------------------------
(* What a caller may do: add only what it holds, make no cycle, change no  *)
(* list through a reference, and free nothing a remaining reference needs. *)

Members(h) ==
    [i \in Items |-> IF i \in h.live \ h.ref THEN Children(h, i) ELSE <<>>]

Below(i) == Forest!Descendants(i)
Lists == Forest!Used \ heap.ref
MayJoin(item, array) == array \notin Below(item)
NeededBy(h, r) == {h.child[r], h.text[r]} \ {NULL}
MayFree(gone) == \A r \in heap.ref \ gone : NeededBy(heap, r) \cap gone = {}

Fuel(n) == [heap EXCEPT !.fuel = n]

Return(h, held) ==
    /\ heap' = [h EXCEPT !.fuel = 0, !.ret = NULL]
    /\ kids' = Members(h)
    /\ roots' = held
    /\ failed' = (h.ret = NULL)
    /\ copied' = NULL

Gives(h) == Return(h, IF h.ret = NULL THEN roots ELSE roots \cup {h.ret})
Takes(h, item) == Return(h, IF h.ret = NULL THEN roots ELSE roots \ {item})

\* In each call n allocations succeed and the next one fails; a call that
\* needs no more than n succeeds.  With no item left the first one fails.
Allocations(most) == 0..(IF heap.live = Items THEN 0 ELSE most)

CreateItem ==
    \E string \in BOOLEAN, n \in Allocations(2) : Gives(Create(Fuel(n), string))

CreateArrayOf ==
    \E count \in 0..2, string \in BOOLEAN : \E n \in Allocations(1 + 2 * count) :
        Gives(cJSON_CreateArrayOf(Fuel(n), count, string))

CreateReference ==
    \E p \in {q \in Lists : kids[q] # <<>>}, n \in Allocations(1) :
        Gives(cJSON_CreateArrayReference(Fuel(n), heap.child[p]))

AddItemToArray ==
    \E item \in roots, array \in Lists :
        MayJoin(item, array) /\ Takes(add_item_to_array(heap, array, item), item)

AddItemToObject ==
    \E item \in roots, object \in Lists, name \in Names, constant \in BOOLEAN, n \in 0..1 :
        /\ MayJoin(item, object)
        /\ Takes(add_item_to_object(Fuel(n), object, name, item, constant), item)

AddNewToObject ==
    \E object \in Lists, name \in Names, string \in BOOLEAN, n \in Allocations(3) :
        Return(cJSON_AddNewToObject(Fuel(n), object, name, string), roots)

AddReference ==
    \E p \in Lists, item \in Forest!Used \ heap.ref, n \in Allocations(2) :
        \/ Return(cJSON_AddItemReferenceToArray(Fuel(n), p, item), roots)
        \/ \E name \in Names :
              Return(cJSON_AddItemReferenceToObject(Fuel(n), p, name, item), roots)

\* What cJSON_DetachItemFromArray and FromObject, and the calls that delete or
\* replace by index or name, pass on; NULL for an index or name there is not.
Chosen(p) ==
    {get_array_item(heap, p, which) : which \in 0..Cardinality(Items)}
    \cup {get_object_item(heap, p, name, cs) : name \in Names, cs \in BOOLEAN}

DetachItem ==
    \E p \in Lists : \E item \in Chosen(p) : Gives(DetachItemViaPointer(heap, p, item))

DeleteItem ==
    \E p \in Lists : \E item \in Chosen(p) :
        LET detached == DetachItemViaPointer(heap, p, item) IN
        /\ item # NULL => MayFree(Below(item))
        /\ Return(cJSON_Delete(detached, detached.ret), roots)

InsertItemInList ==
    \E p \in Lists, item \in roots : \E which \in 0..Len(kids[p]) :
        MayJoin(item, p) /\ Takes(InsertItemInArray(heap, p, which, item), item)

ReplaceItem ==
    \E p \in Lists, new \in roots : \E item \in Chosen(p) :
        /\ MayJoin(new, p) /\ (item # NULL => MayFree(Below(item)))
        /\ Takes(cJSON_ReplaceItemViaPointer(heap, p, item, new), new)

ReplaceItemInObject ==
    \E p \in Lists, new \in roots, name \in Names, cs \in BOOLEAN, n \in 0..1 :
        LET item == get_object_item(heap, p, name, cs) IN
        /\ MayJoin(new, p) /\ (item # NULL => MayFree(Below(item)))
        /\ Takes(replace_item_in_object(Fuel(n), p, name, new, cs), new)

Duplicate ==
    \E item \in Forest!Used, recurse \in BOOLEAN, n \in Allocations(MaxFuel) :
        LET h == cJSON_Duplicate(Fuel(n), item, recurse) IN
        /\ heap' = [h EXCEPT !.fuel = 0, !.ret = NULL]
        /\ kids' = Members(h)
        /\ failed' = (h.ret = NULL)
        /\ roots' = IF h.ret = NULL THEN roots ELSE roots \cup {h.ret}
        /\ copied' = IF h.ret = NULL \/ ~recurse THEN NULL ELSE <<item, h.ret>>

Delete ==
    \E item \in roots :
        /\ MayFree(Below(item))
        /\ Return(Ret(cJSON_Delete(heap, item), TRUE), roots \ {item})

Init ==
    /\ heap = EmptyHeap /\ roots = {} /\ kids = Members(EmptyHeap)
    /\ failed = FALSE /\ copied = NULL

Next ==
    \/ CreateItem \/ CreateArrayOf \/ CreateReference
    \/ AddItemToArray \/ AddItemToObject \/ AddNewToObject \/ AddReference
    \/ DetachItem \/ DeleteItem \/ InsertItemInList
    \/ ReplaceItem \/ ReplaceItemInObject \/ Duplicate \/ Delete

Spec == Init /\ [][Next]_vars

\* What is explored: states past the bound are checked and not left.
Size(h) == Cardinality(h.live) + Cardinality(h.ref)
           + Cardinality({i \in h.live : h.text[i] # NULL})
           + Cardinality({i \in h.live : h.key[i] # NULL})
Bounded == Size(heap) <= MaxSize

-----------------------------------------------------------------------------
(* Properties *)

TypeOK ==
    /\ heap.live \subseteq Items /\ roots \subseteq heap.live
    /\ heap.ref \subseteq heap.live /\ heap.const \subseteq heap.live
    /\ {heap.next, heap.prev, heap.child, heap.text} \subseteq [Items -> Items \cup {NULL}]
    /\ heap.key \in [Items -> Names \cup {NULL}]
    /\ heap.strings \in Nat

\* Every list of the caller's trees is well linked after every call.
ListsWellLinked == \A p \in Lists : WellLinked(heap, p)

\* Nothing is freed twice, or freed while an item that stays points to it.
NothingDangles ==
    /\ TypeOK /\ heap.sound
    /\ \A i \in heap.live :
          {heap.next[i], heap.prev[i], heap.child[i], heap.text[i]} \subseteq heap.live \cup {NULL}

\* All memory is reached from what the caller holds, except the references
\* that cJSON_AddItemReferenceToObject loses; each allocated string is owned by one item.
NothingLost ==
    /\ \A i \in heap.live \ Forest!Used : i \in heap.ref /\ heap.key[i] = NULL
    /\ heap.strings = Cardinality({i \in heap.live : OwnsKey(heap, i)})
                      + Cardinality({i \in heap.live : OwnsText(heap, i)})

SameTree(h, item, copy) ==
    LET same[n \in 0..Cardinality(Items)] ==
            [pair \in Items \X Items |->
                LET i == pair[1]           j == pair[2]
                    a == Children(h, i)    b == Children(h, j) IN
                /\ h.key[i] = h.key[j] /\ (h.text[i] = NULL <=> h.text[j] = NULL)
                /\ Len(a) = Len(b)
                /\ \A k \in DOMAIN a : n > 0 /\ same[n - 1][<<a[k], b[k]>>]]
    IN  same[Cardinality(Items)][<<item, copy>>]

\* A copy has the shape, the names and the strings of the original, no flag of a
\* reference, and shares no memory with it.
CopiesAreWhole ==
    copied # NULL =>
        LET item == copied[1]  copy == copied[2] IN
        /\ SameTree(heap, item, copy)
        /\ heap.next[copy] = NULL /\ heap.prev[copy] = NULL
        /\ Below(copy) \cap heap.ref = {}
        /\ \A i \in Below(copy) : heap.text[i] \in {NULL, i}

\* The calls change the trees as the abstract forest says, or not at all.
ImplementsForest == Forest!Spec

\* A call that fails leaves the trees as they were.
FailureChangesNothing ==
    [][failed' => UNCHANGED <<kids, roots>>]_vars
=============================================================================
