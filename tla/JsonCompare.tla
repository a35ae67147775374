---------------------------- MODULE JsonCompare ----------------------------
(***************************************************************************)
(* Two comparisons of JSON values: cJSON_Compare, and compare_nodes, with  *)
(* which tests.c compares what an implementation generates to the file the *)
(* test expects; its mismatch ends the test.                               *)
(***************************************************************************)
EXTENDS JsonValue

tolower(c) == IF c \in 65..90 THEN c + 32 ELSE c
SameIgnoringCase(s, t) ==
    s # NULL /\ t # NULL /\ [i \in DOMAIN s |-> tolower(s[i])] = [i \in DOMAIN t |-> tolower(t[i])]

\* The index of the item of that name, or NULL; with case the search ends at
\* the first item that has no name.
get_object_item(object, name, case_sensitive) ==
    LET names == [k \in DOMAIN object.child |-> object.child[k].string]
        Stops(k) == IF case_sensitive THEN names[k] \in {NULL, name}
                    ELSE SameIgnoringCase(names[k], name)
        found == {k \in DOMAIN names : Stops(k)}
    IN  IF name = NULL \/ found = {} THEN NULL
        ELSE IF names[Min(found)] = NULL THEN NULL ELSE Min(found)

\* Of numbers these small, no two differ by less than the rounding of a double;
\* an infinite number differs from itself by NaN.
compare_double(a, b) == a = b /\ a[2] # Infinite

RECURSIVE cJSON_Compare(_, _, _)

Included(a, b, case_sensitive) ==
    \A k \in DOMAIN a.child :
        LET other == get_object_item(b, a.child[k].string, case_sensitive)
        IN  other # NULL /\ cJSON_Compare(a.child[k], b.child[other], case_sensitive)

cJSON_Compare_OneWay(a, b, case_sensitive) ==
    /\ a.type = b.type
    /\ a.type = "Number" => compare_double(a.valuedouble, b.valuedouble)
    /\ a.type = "String" => a.valuestring = b.valuestring
    /\ a.type = "Array" =>
          /\ Len(a.child) = Len(b.child)
          /\ \A k \in DOMAIN a.child : cJSON_Compare(a.child[k], b.child[k], case_sensitive)
    /\ a.type = "Object" => Included(a, b, case_sensitive)

\* Of two different items.
cJSON_Compare(a, b, case_sensitive) ==
    /\ a.type = b.type
    /\ \/ a.type \in {"False", "True", "NULL"}
       \/ a.type = "Number" /\ compare_double(a.valuedouble, b.valuedouble)
       \/ a.type \in {"String", "Raw"} /\ a.valuestring = b.valuestring /\ a.valuestring # NULL
       \/ /\ a.type = "Array" /\ Len(a.child) = Len(b.child)
          /\ \A k \in DOMAIN a.child : cJSON_Compare(a.child[k], b.child[k], case_sensitive)
       \/ /\ a.type = "Object"
          /\ Included(a, b, case_sensitive) /\ Included(b, a, case_sensitive)

\* The test allows a difference of 1e-6; the numbers here differ by more.
NumbersClose(exp, act) == exp = act

RECURSIVE compare_nodes(_, _)
compare_nodes_AnyExtra(exp, act) ==
    /\ exp.type = act.type
    /\ exp.type = "Number" => NumbersClose(exp.valuedouble, act.valuedouble)
    /\ exp.type = "String" => exp.valuestring = act.valuestring
    /\ exp.type = "Array" =>
          /\ Len(exp.child) = Len(act.child)
          /\ \A k \in DOMAIN exp.child : compare_nodes(exp.child[k], act.child[k])
    /\ exp.type = "Object" =>
          \A k \in DOMAIN exp.child :
             LET other == get_object_item(act, exp.child[k].string, TRUE)
             IN  other # NULL /\ compare_nodes(exp.child[k], act.child[other])

compare_nodes(exp, act) ==
    IF {exp.type, act.type} \subseteq {"True", "False"} THEN exp.type = act.type
    ELSE /\ exp.type = act.type
         /\ \/ exp.type = "Number" /\ NumbersClose(exp.valuedouble, act.valuedouble)
            \/ exp.type = "String" /\ exp.valuestring = act.valuestring
            \/ /\ exp.type = "Array" /\ Len(exp.child) = Len(act.child)
               /\ \A k \in DOMAIN exp.child : compare_nodes(exp.child[k], act.child[k])
            \/ /\ exp.type = "Object" /\ Len(exp.child) = Len(act.child)
               /\ \A k \in DOMAIN exp.child :
                     LET other == get_object_item(act, exp.child[k].string, TRUE)
                     IN  other # NULL /\ compare_nodes(exp.child[k], act.child[other])
            \/ exp.type = "NULL"
=============================================================================
