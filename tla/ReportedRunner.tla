--------------------------- MODULE ReportedRunner ---------------------------
(***************************************************************************)
(* The driver with the report it writes: results_json of TestRunner is the *)
(* reading of results.json by a reader of one member; here is its text.    *)
(***************************************************************************)
EXTENDS TestRunner

CONSTANTS NestingLimit, INT_MAX, default_buffer_size   \* of cJSON

Reporting == INSTANCE Reports

\* When the process has exited after a report, the text of results.json, in
\* whichever order qsort has put the tests, parses to what the run has recorded
\* of every test, under the category and name it was recorded by, and counts
\* the tests it lists.
ReportSaysTheTable ==
    pc = "exited" /\ results_json # NULL =>
        \A order \in Reporting!Orders(test_results) :
            Reporting!Says(Reporting!results_file(test_results, order), test_results)
=============================================================================
