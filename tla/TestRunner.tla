---------------------------- MODULE TestRunner ----------------------------
(***************************************************************************)
(* grug_tests_run of tests.c: the phases of a run, the steps of one test   *)
(* of each kind, what a failing assertion does to them, and the handles of *)
(* the implementation under test (files and entities) the driver keeps.    *)
(*                                                                         *)
(* The implementation under test is the environment: every call into its   *)
(* vtable may succeed or fail, as a correct or a faulty grug may.          *)
(*                                                                         *)
(* An operator D_X is a faulty version of D: the mutation with which a run *)
(* of D's properties is seen to fail.                                      *)
(***************************************************************************)
EXTENDS TestResults, Sequences

CONSTANTS
    Tests,           \* registered tests: an array of the driver -> its names
    Whitelist,       \* the test named on the command line, or NoWhitelist
    NoWhitelist,
    ContinueOnFail,  \* --continue-on-fail
    Rounds,          \* SHUFFLES, or 1 when the macro is not defined
    NULL             \* the null pointer

Arrays == {"mod_api_schema", "mod_api_semantics", "err_spaces", "err",
           "ok", "err_runtime", "reloading"}

ASSUME TestsAssumption ==
    /\ DOMAIN Tests = Arrays
    /\ \A array \in Arrays : IsFiniteSet(Tests[array])
    \* Both of these arrays record under the category "ok".
    /\ Tests["ok"] \cap Tests["reloading"] = {}

ASSUME OptionsAssumption ==
    /\ ContinueOnFail \in BOOLEAN
    /\ Rounds \in Nat \ {0}
    /\ MAX_TEST_RESULTS \in Nat

\* is_whitelisted_test, applied by the ADD_TEST macros and by each test
\* function that is called by name.
is_whitelisted_test(name) == Whitelist = NoWhitelist \/ name = Whitelist

Registered(array) == {name \in Tests[array] : is_whitelisted_test(name)}

Category(array) == IF array = "reloading" THEN "ok" ELSE array

\* The calls of grug_tests_run in order: what is done to which array of
\* tests, and with which of its two grug states.
Schedule == <<
    [kind |-> "parse",  array |-> "mod_api_schema",    state |-> "safe"],
    [kind |-> "parse",  array |-> "mod_api_semantics", state |-> "safe"],
    [kind |-> "reject", array |-> "err_spaces",        state |-> "safe"],
    [kind |-> "reject", array |-> "err",               state |-> "safe"],
    [kind |-> "first",  array |-> "ok",                state |-> "safe"],
    [kind |-> "rerun",  array |-> "ok",                state |-> "safe"],
    [kind |-> "first",  array |-> "err_runtime",       state |-> "safe"],
    [kind |-> "rerun",  array |-> "err_runtime",       state |-> "safe"],
    [kind |-> "reload", array |-> "reloading",         state |-> "safe"],
    [kind |-> "reject", array |-> "err_spaces",        state |-> "unsafe"],
    [kind |-> "reject", array |-> "err",               state |-> "unsafe"],
    [kind |-> "first",  array |-> "ok",                state |-> "unsafe"],
    [kind |-> "rerun",  array |-> "ok",                state |-> "unsafe"] >>

\* The tests of this run, by the key they are recorded under.
Keys == UNION {{TestKey(Category(array), name) : name \in Registered(array)} : array \in Arrays}

\* Tests whose grug_file_id is kept between their first run and their rerun.
Rerunnable == {TestKey("ok", name) : name \in Registered("ok")}
                \cup {TestKey("err_runtime", name) : name \in Registered("err_runtime")}

\* What compile_grug_file returns: a handle for each compilation.
FileHandle == [key : Keys, state : {"safe", "unsafe"}, round : 1..Rounds]

\* A compilation without an error returns a file.  One that returned NULL would
\* have its rerun skipped in silence, like a test that does not compile.
ASSUME NullAssumption ==
    /\ NULL \notin FileHandle
    /\ \A array \in Arrays : NULL \notin Tests[array]

\* What create_entity returns: each run of a test creates one on its file.
EntityHandle == [file : FileHandle, run : {"first", "rerun"}]

VARIABLES
    round,          \* 1..Rounds, the loop over SHUFFLES
    phase,          \* index in Schedule
    todo,           \* names of the phase's array the loop has yet to reach
    current,        \* name of the test being run, or NULL
    pc,             \* the driver's next step
    file,           \* fn_data->file of the rerunnable tests
    test_results,
    live_files,     \* files compiled and not destroyed
    live_entities,  \* entities created and not destroyed
    failed_keys,    \* history: tests some run of which has failed
    results_json,   \* NULL until write_results_json
    status          \* of the process

vars == <<round, phase, todo, current, pc, file, test_results, live_files,
          live_entities, failed_keys, results_json, status>>

handles == <<file, live_files, live_entities>>
loop    == <<round, phase, todo, current>>
history == <<failed_keys>>

Kind  == Schedule[phase].kind
Array == Schedule[phase].array
State == Schedule[phase].state

CurrentKey == TestKey(Category(Array), current)

\* The handle a compilation made by the current test returns.
CompiledFile_WrongState == [key |-> CurrentKey, state |-> "safe", round |-> round]

CompiledFile == [key |-> CurrentKey, state |-> State, round |-> round]

\* The file the current test works with: both passes read fn_data->file.
CurrentFile == file[CurrentKey]

CurrentEntity == [file |-> CurrentFile, run |-> Kind]

TypeOK ==
    /\ round \in 1..Rounds
    /\ phase \in 1..Len(Schedule)
    /\ todo \subseteq Registered(Array)
    /\ pc \in {"next", "parse_err", "parse_ok", "compile", "roundtrip", "create",
               "run", "destroy", "reload", "record_passed", "record_failed",
               "destroy_file", "report", "summary", "exited"}
    /\ current \in Registered(Array) \cup {NULL}
    /\ file \in [Rerunnable -> FileHandle \cup {NULL}]
    /\ IsTable(test_results)
    /\ DOMAIN test_results \subseteq Keys
    /\ live_files \subseteq FileHandle
    /\ live_entities \subseteq EntityHandle
    /\ failed_keys \subseteq Keys
    /\ status \in {"running", "success", "failure"}

Init ==
    /\ round = 1
    /\ phase = 1
    /\ todo = Registered("mod_api_schema")
    /\ current = NULL
    /\ pc = "next"
    /\ file = [key \in Rerunnable |-> NULL]
    /\ test_results = NoResults
    /\ live_files = {}
    /\ live_entities = {}
    /\ failed_keys = {}
    /\ results_json = NULL
    /\ status = "running"

---------------------------------------------------------------------------
(* The loops. *)

\* One iteration of the current phase's loop begins. The shuffle makes every
\* order possible; without SHUFFLES the loop follows one of these orders.
StartTest ==
    /\ pc = "next"
    /\ \E name \in todo :
        /\ todo' = todo \ {name}
        /\ current' = name
        /\ Kind = "rerun" => file[TestKey(Array, name)] # NULL
    /\ pc' = CASE Kind = "parse"  -> "parse_err"
               [] Kind = "reload" -> "reload"
               [] Kind = "rerun"  -> "create"
               [] OTHER           -> "compile"
    /\ UNCHANGED <<round, phase, handles, test_results, history, results_json, status>>

\* rerun_ok_tests and rerun_err_runtime_tests: nothing to rerun without a file.
SkipRerun ==
    /\ pc = "next" /\ Kind = "rerun"
    /\ \E name \in todo :
        /\ file[TestKey(Array, name)] = NULL
        /\ todo' = todo \ {name}
    /\ UNCHANGED <<round, phase, current, pc, handles, test_results, history,
                   results_json, status>>

EnterPhase_StartsOver(p) ==
    /\ phase' = 1
    /\ todo' = Registered(Schedule[1].array)

EnterPhase(p) ==
    /\ phase' = p
    /\ todo' = Registered(Schedule[p].array)

NextPhase ==
    /\ pc = "next" /\ todo = {}
    /\ \/ /\ phase < Len(Schedule)
          /\ EnterPhase(phase + 1)
          /\ UNCHANGED <<round, pc>>
       \/ /\ phase = Len(Schedule) /\ round < Rounds
          /\ EnterPhase(1)
          /\ round' = round + 1
          /\ UNCHANGED pc
       \/ /\ phase = Len(Schedule) /\ round = Rounds
          /\ pc' = "report"
          /\ UNCHANGED <<round, phase, todo>>
    /\ UNCHANGED <<current, handles, test_results, history, results_json, status>>

---------------------------------------------------------------------------
(* What ends the body of a test. *)

fail_current_test_ExitsZero ==
    /\ failed_keys' = failed_keys \cup {CurrentKey}
    /\ \/ ContinueOnFail /\ pc' = "record_failed" /\ UNCHANGED status
       \/ ~ContinueOnFail /\ pc' = "exited" /\ status' = "success"

\* A failing check longjmps to the test boundary, or ends the process.
fail_current_test ==
    /\ failed_keys' = failed_keys \cup {CurrentKey}
    /\ \/ ContinueOnFail /\ pc' = "record_failed" /\ UNCHANGED status
       \/ ~ContinueOnFail /\ pc' = "exited" /\ status' = "failure"

EndOfBody ==
    /\ pc' = "record_passed"
    /\ UNCHANGED <<failed_keys, status>>

ContinueAt(step) ==
    /\ pc' = step
    /\ UNCHANGED <<failed_keys, status>>

\* RUN_TRACKED_TEST and RUN_TRACKED_RERUN_TEST after their body: the table is
\* written for either outcome, unless it has no room for the test.
RecordResult ==
    /\ pc \in {"record_passed", "record_failed"}
    /\ LET record(table, key, passed) ==
               IF Kind = "rerun" THEN record_test_rerun_result(table, key, passed)
                                 ELSE record_test_result(table, key, passed)
       IN \/ /\ TooManyResults(test_results, CurrentKey)
             /\ pc' = "exited"
             /\ status' = "failure"
             /\ UNCHANGED <<test_results, current>>
          \/ /\ ~TooManyResults(test_results, CurrentKey)
             /\ test_results' = record(test_results, CurrentKey, pc = "record_passed")
             /\ pc' = IF Kind = "rerun" THEN "destroy_file" ELSE "next"
             /\ current' = IF Kind = "rerun" THEN current ELSE NULL
             /\ UNCHANGED status
    /\ UNCHANGED <<round, phase, todo, handles, history, results_json>>

---------------------------------------------------------------------------
(* The bodies. *)

\* run_mod_api_schema_test and run_mod_api_semantic_test: err_mod_api.json
\* must be refused, then ok_mod_api.json must be accepted.
ParseErrModApi ==
    /\ pc = "parse_err"
    /\ ContinueAt("parse_ok") \/ fail_current_test
    /\ UNCHANGED <<loop, handles, test_results, results_json>>

ParseOkModApi ==
    /\ pc = "parse_ok"
    /\ EndOfBody \/ fail_current_test
    /\ UNCHANGED <<loop, handles, test_results, results_json>>

\* run_err_spaces_test and test_error: the compilation must fail, with the
\* expected message in the case of test_error. The handle of a compilation
\* that succeeds is thrown away.
CompileRejected ==
    /\ pc = "compile" /\ Kind = "reject"
    /\ \/ /\ live_files' = live_files \cup {CompiledFile}
          /\ fail_current_test
       \/ EndOfBody /\ UNCHANGED live_files
       \/ Array = "err" /\ fail_current_test /\ UNCHANGED live_files
    /\ UNCHANGED <<loop, file, live_entities, test_results, results_json>>

\* prologue, and the assignment to fn_data->file that follows it at once.
Compile ==
    /\ pc = "compile" /\ Kind = "first"
    /\ \/ fail_current_test /\ UNCHANGED <<file, live_files>>
       \/ /\ live_files' = live_files \cup {CompiledFile}
          /\ file' = [file EXCEPT ![CurrentKey] = CompiledFile]
          /\ ContinueAt("roundtrip")
    /\ UNCHANGED <<loop, live_entities, test_results, results_json>>

diff_roundtrip ==
    /\ pc = "roundtrip"
    /\ ContinueAt("create") \/ fail_current_test
    /\ UNCHANGED <<loop, handles, test_results, results_json>>

\* create_entity on the file of this test. An error fails an ok test; an
\* err_runtime test ends there, without a call of run().
CreateEntity ==
    /\ pc = "create"
    /\ \/ /\ live_entities' = live_entities \cup {CurrentEntity}
          /\ ContinueAt("run")
       \/ Array = "ok" /\ fail_current_test /\ UNCHANGED live_entities
       \/ Array = "err_runtime" /\ EndOfBody /\ UNCHANGED live_entities
    /\ UNCHANGED <<loop, file, live_files, test_results, results_json>>

\* fn_data->run: the assertions of the test.
Run ==
    /\ pc = "run"
    /\ ContinueAt("destroy") \/ fail_current_test
    /\ UNCHANGED <<loop, handles, test_results, results_json>>

DestroyEntity_Forgotten ==
    /\ pc = "destroy"
    /\ EndOfBody
    /\ UNCHANGED <<loop, handles, test_results, results_json>>

DestroyEntity ==
    /\ pc = "destroy"
    /\ live_entities' = live_entities \ {CurrentEntity}
    /\ EndOfBody
    /\ UNCHANGED <<loop, file, live_files, test_results, results_json>>

DestroyFile_Forgotten ==
    /\ pc = "destroy_file"
    /\ current' = NULL
    /\ pc' = "next"
    /\ UNCHANGED <<round, phase, todo, handles, test_results, history, results_json, status>>

\* destroy_grug_file after a rerun. fn_data->file keeps its value.
DestroyFile ==
    /\ pc = "destroy_file"
    /\ live_files' = live_files \ {CurrentFile}
    /\ current' = NULL
    /\ pc' = "next"
    /\ UNCHANGED <<round, phase, todo, file, live_entities, test_results, history,
                   results_json, status>>

\* The five reloading tests, each with a grug state of its own that is
\* destroyed with everything in it whatever the outcome.
ReloadTest ==
    /\ pc = "reload"
    /\ EndOfBody \/ fail_current_test
    /\ UNCHANGED <<loop, handles, test_results, results_json>>

\* exit() for a reason that is not the test's: a file that cannot be read,
\* a directory that cannot be made, a path that is too long.
InfrastructureFailure ==
    /\ pc \in {"parse_err", "parse_ok", "compile", "roundtrip", "reload", "report"}
    /\ pc' = "exited"
    /\ status' = "failure"
    /\ UNCHANGED <<loop, handles, test_results, history, results_json>>

---------------------------------------------------------------------------
(* The end of a run. *)

write_results_json ==
    /\ pc = "report"
    /\ results_json' = JsonView(test_results)
    /\ pc' = "summary"
    /\ UNCHANGED <<loop, handles, test_results, history, status>>

\* The summary line, the destruction of both states, the exit status.
Finish ==
    /\ pc = "summary"
    /\ status' = IF ContinueOnFail
                      /\ Cardinality(OverallPassed(test_results))
                            < Cardinality(DOMAIN test_results)
                 THEN "failure" ELSE "success"
    /\ live_files' = {}
    /\ live_entities' = {}
    /\ pc' = "exited"
    /\ UNCHANGED <<loop, file, test_results, history, results_json>>

\* The process has exited.
Exited == pc = "exited" /\ UNCHANGED vars

Next ==
    \/ StartTest \/ SkipRerun \/ NextPhase \/ RecordResult
    \/ ParseErrModApi \/ ParseOkModApi
    \/ CompileRejected \/ Compile \/ diff_roundtrip
    \/ CreateEntity \/ Run \/ DestroyEntity \/ DestroyFile
    \/ ReloadTest \/ InfrastructureFailure
    \/ write_results_json \/ Finish
    \/ Exited

\* One thread runs to its end: no step is ever postponed for ever.
Spec == Init /\ [][Next]_vars /\ WF_vars(Next)
---------------------------------------------------------------------------
(* Safety. *)

\* The driver only ever hands the implementation a file that it compiled in
\* the state it passes along and has not destroyed: create_entity, run and
\* destroy_entity work on it, and destroy_grug_file never frees it twice.
FileUsesAreLive ==
    pc \in {"create", "run", "destroy", "destroy_file"} =>
        CurrentFile \in live_files /\ CurrentFile.state = State

\* destroy_grug_file is never called on a file whose entities still live.
NoEntityOutlivesItsFile == \A e \in live_entities : e.file \in live_files

\* rerun_ok_tests and rerun_err_runtime_tests only touch a test that
\* record_test_result has recorded, as record_test_rerun_result assumes.
RerunFollowsRecord ==
    Kind = "rerun" /\ current # NULL => CurrentKey \in DOMAIN test_results

\* The table never outgrows the array it is kept in.
WithinCapacity == Cardinality(DOMAIN test_results) <= MAX_TEST_RESULTS

\* When the results are written, every file is destroyed but those that an
\* err or err_spaces test compiled when it should have been refused, and
\* every entity is destroyed but those of a test that failed on the way.
HandlesReclaimed ==
    pc \in {"report", "summary"} =>
        /\ \A f \in live_files : /\ f.key \in failed_keys
                                 /\ f.key.category \in {"err", "err_spaces"}
        /\ \A e \in live_entities : e.file.key \in failed_keys

\* A run that exits with success has seen no failure of any test.
SuccessIsSound == status = "success" => failed_keys = {}

\* A run that exits with success has run every registered test to a passing
\* result, and has run those of ok and err_runtime a second time.
SuccessIsComplete ==
    status = "success" =>
        \A key \in Keys :
            /\ key \in OverallPassed(test_results)
            /\ key \in Rerunnable => test_results[key].has_rerun

\* results.json calls the same tests passed as the summary line counts.
ReportMatchesSummary ==
    results_json # NULL =>
        OverallPassed(test_results) = {key \in DOMAIN results_json : results_json[key]}

---------------------------------------------------------------------------
(* The run seen by its caller. *)

Verdict(key) ==
    IF key \notin DOMAIN test_results THEN "none"
    ELSE IF test_result_overall_passed(test_results[key]) THEN "passed" ELSE "failed"

Session == INSTANCE TestSession WITH
    Names <- Keys,
    StopAtFailure <- ~ContinueOnFail,
    verdict <- [key \in Keys |-> Verdict(key)],
    exit <- status

\* The driver is a TestSession: every registered test gets its verdict before
\* the run finishes, no failing verdict is recorded without
\* --continue-on-fail, the exit status is the conjunction of the verdicts,
\* and the run ends.
ImplementsSession == Session!Spec
=============================================================================
