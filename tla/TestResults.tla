---------------------------- MODULE TestResults ----------------------------
(***************************************************************************)
(* The result table of tests.c: the array test_results, the operations     *)
(* that record into it, and the two readings made of it when a run ends,   *)
(* the "Tests passed" summary and results.json.                            *)
(*                                                                         *)
(* The array is searched by (category, name) before every write and only   *)
(* ever grows, so it is modelled as a function from test keys to entries.  *)
(*                                                                         *)
(* An operator D_X is a faulty version of D: the mutation with which a run *)
(* of D's properties is seen to fail.                                      *)
(* Nothing here is recursive, so the modules proved about may extend it.   *)
(***************************************************************************)
EXTENDS Integers, FiniteSets

CONSTANT MAX_TEST_RESULTS   \* capacity of the array, 8192 in the code

\* The key find_or_create_test_result searches for.
TestKey(category, name) == [category |-> category, name |-> name]

\* The array is static, so the fields the code does not set start as false.
Entry == [passed : BOOLEAN, has_rerun : BOOLEAN, passed_rerun : BOOLEAN]

FreshEntry == [passed |-> FALSE, has_rerun |-> FALSE, passed_rerun |-> FALSE]

\* A table of entries, whatever tests it has reached so far.
IsTable(table) == table \in [DOMAIN table -> Entry]

NoResults == [key \in {} |-> FreshEntry]

\* The exit() of find_or_create_test_result: a new key, and no room for it.
TooManyResults_OffByOne(table, key) ==
    key \notin DOMAIN table /\ Cardinality(DOMAIN table) > MAX_TEST_RESULTS

TooManyResults(table, key) ==
    key \notin DOMAIN table /\ Cardinality(DOMAIN table) >= MAX_TEST_RESULTS

find_or_create_test_result(table, key) ==
    IF key \in DOMAIN table THEN table[key] ELSE FreshEntry

SetEntry(table, key, entry) ==
    [k \in DOMAIN table \cup {key} |-> IF k = key THEN entry ELSE table[k]]

record_test_result(table, key, passed) ==
    SetEntry(table, key,
             [find_or_create_test_result(table, key) EXCEPT !.passed = passed])

record_test_rerun_result_Unflagged(table, key, passed) ==
    SetEntry(table, key,
             [find_or_create_test_result(table, key) EXCEPT !.passed_rerun = passed])

record_test_rerun_result(table, key, passed) ==
    SetEntry(table, key,
             [find_or_create_test_result(table, key) EXCEPT
                !.has_rerun = TRUE, !.passed_rerun = passed])

test_result_overall_passed(entry) ==
    entry.passed /\ (entry.has_rerun => entry.passed_rerun)

OverallPassed_IgnoresReruns(table) == {key \in DOMAIN table : table[key].passed}

OverallPassed(table) ==
    {key \in DOMAIN table : test_result_overall_passed(table[key])}

passed_percentage_Truncated(passed, total) ==
    IF total = 0 THEN 0 ELSE (passed * 100) \div total

\* What both readings make of the counts: rounded, with no tests 0.
passed_percentage(passed, total) ==
    IF total = 0 THEN 0 ELSE (passed * 100 + total \div 2) \div total

\* The "passed" member write_results_json gives a test.
JsonPassed(key, entry) ==
    IF key.category \in {"ok", "err_runtime"}
    THEN entry.passed /\ entry.passed_rerun
    ELSE entry.passed

\* The "tests" object of results.json, reduced to its "passed" members.
JsonView(table) == [key \in DOMAIN table |-> JsonPassed(key, table[key])]
=============================================================================
