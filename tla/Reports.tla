------------------------------ MODULE Reports ------------------------------
(***************************************************************************)
(* results.json as the bytes that cJSON prints of the result table and     *)
(* reindent_cjson_output rewrites.  ReportedRunner makes it of a run.      *)
(***************************************************************************)
EXTENDS JsonParse, JsonPrint

CONSTANT MAX_TEST_RESULTS

Table == INSTANCE TestResults

\* More memory than any text here asks for.
Plenty == 1000

-----------------------------------------------------------------------------
(* results.json *)

categories_WithoutSchema ==
    <<"err", "err_runtime", "err_spaces", "mod_api_semantics", "ok">>

categories ==
    <<"err", "err_runtime", "err_spaces", "mod_api_schema", "mod_api_semantics", "ok">>

\* The entries of a table, with the names they are kept under.
Entries(table) ==
    {[key |-> key, passed |-> table[key].passed, has_rerun |-> table[key].has_rerun,
      passed_rerun |-> table[key].passed_rerun] : key \in DOMAIN table}

\* Calls a different name greater from both sides, so it is no order, and C
\* leaves open in which of all orders qsort leaves the entries.
compare_test_result_ptrs_by_name(a, b) == IF a.key.name = b.key.name THEN 0 ELSE 1

qsort(entries) ==
    IF \A a, b \in entries : compare_test_result_ptrs_by_name(a, b) = 0
    THEN {SetToSeq(entries)} ELSE SetToSeqs(entries)

AddItemToObject(object, name, item) ==
    [object EXCEPT !.child = Append(@, [item EXCEPT !.string = Bytes(name)])]
AddNumberToObject(object, name, n) ==
    AddItemToObject(object, name, [Item("Number") EXCEPT !.valuedouble = Number(FALSE, n, 0)])
AddBoolToObject(object, name, boolean) ==
    AddItemToObject(object, name, Item(IF boolean THEN "True" ELSE "False"))

summary_json(table) ==
    LET passed == Cardinality(Table!OverallPassed(table))
        total == Cardinality(DOMAIN table)
        percentage == Table!passed_percentage(passed, total)
    IN  AddNumberToObject(
            AddNumberToObject(
                AddNumberToObject(Item("Object"), "passed_percentage", percentage),
                "passed_tests", passed),
            "total_tests", total)

test_json(e) ==
    LET twice == AddBoolToObject(
                     AddBoolToObject(
                         AddBoolToObject(Item("Object"), "passed", e.passed /\ e.passed_rerun),
                         "passed_run_1", e.passed),
                     "passed_run_2", e.has_rerun /\ e.passed_rerun)
    IN  IF e.key.category \in {"ok", "err_runtime"} THEN twice
        ELSE AddBoolToObject(Item("Object"), "passed", e.passed)

\* The members of one category, in an order qsort may make of them.
category_json(sorted) ==
    FoldLeft(LAMBDA object, e : AddItemToObject(object, e.key.name, test_json(e)),
             Item("Object"), sorted)

OfCategory(table, category) == {e \in Entries(table) : e.key.category = category}

\* order gives the entries of each category as sorted.
Root(table, order) ==
    AddItemToObject(
        AddItemToObject(Item("Object"), "summary", summary_json(table)),
        "tests",
        FoldLeft(LAMBDA tests, c : AddItemToObject(tests, c, category_json(order[c])),
                 Item("Object"), categories))

\* The orders that sorting a table of any order of insertion may lead to.
Orders(table) ==
    FoldLeft(LAMBDA orders, c : {order @@ (c :> entries) :
                                    order \in orders, entries \in qsort(OfCategory(table, c))},
             {<<>>}, categories)

Spaces(n) == [i \in 1..n |-> Blank]

\* How many tabs a line begins with.
Leading(line) == CHOOSE n \in 0..Len(line) : line[n + 1] # 9 /\ \A k \in 1..n : line[k] = 9

\* A tab at the start of a line is four blanks, another one is one.
Reindented(line) ==
    LET n == Leading(line)
        text == [k \in 1..Len(line) - n |-> IF line[n + k] = 9 THEN Blank ELSE line[n + k]]
    IN  Spaces(4 * n) \o text

\* Line by line.
RECURSIVE ReindentedFrom(_, _)
ReindentedFrom(input, i) ==
    LET end == CHOOSE k \in i..Len(input) :
                  /\ input[k] = LineFeed \/ k = Len(input)
                  /\ \A j \in i..k - 1 : input[j] # LineFeed
    IN  IF i > Len(input) THEN <<>>
        ELSE Reindented(SubSeq(input, i, end)) \o ReindentedFrom(input, end + 1)

reindent_cjson_output(input) == ReindentedFrom(input, 1)

\* The file write_results_json leaves when each printing has the memory it asks for.
results_file(table, order) ==
    Append(reindent_cjson_output(print(Root(table, order), TRUE, TRUE, Plenty).text), LineFeed)

-----------------------------------------------------------------------------
(* What the file says *)

\* What a reader of results.json finds: the member of an object, NULL if there is none.
Member_(item, name) ==
    LET found == {k \in DOMAIN item.child : item.child[k].string = Bytes(name)}
    IN  IF Cardinality(found) = 1 THEN item.child[CHOOSE k \in found : TRUE] ELSE NULL

\* A number as cJSON reads it.
Whole(n) == Number(FALSE, n, 0)

\* The file is JSON that lists each test of the table once, in its category, and
\* calls it passed as the table does; its summary counts the tests it lists.
Says(text, table) ==
    LET root == cJSON_ParseWithOpts(text, TRUE, Plenty).item
        tests == Member_(root, "tests")
        Count(name) == Member_(Member_(root, "summary"), name).valuedouble
        total == Cardinality(DOMAIN table)
    IN  /\ \A key \in DOMAIN table :
              /\ Member_(tests, key.category) # NULL
              /\ Member_(Member_(tests, key.category), key.name) # NULL
              /\ Member_(Member_(Member_(tests, key.category), key.name), "passed").type
                    = (IF Table!JsonView(table)[key] THEN "True" ELSE "False")
        /\ FoldLeft(LAMBDA n, c : n + Len(c.child), 0, tests.child) = total
        /\ Count("total_tests") = Whole(total)
        /\ Count("passed_tests") = Whole(Cardinality(Table!OverallPassed(table)))
=============================================================================
