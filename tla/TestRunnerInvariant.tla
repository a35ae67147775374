------------------------ MODULE TestRunnerInvariant ------------------------
(***************************************************************************)
(* The inductive invariant behind the safety properties of TestRunner.     *)
(* TLC checks it on the small suites, TestRunnerProofs proves it.          *)
(***************************************************************************)
EXTENDS TestRunner

BodySteps == {"parse_err", "parse_ok", "compile", "roundtrip", "create", "run",
              "destroy", "reload", "record_passed", "record_failed", "destroy_file"}

\* Where the driver can be: a test is current inside a body, whose steps are
\* those of the phase's kind, and none is between tests.
ControlInv ==
    /\ pc \in {"parse_err", "parse_ok"} => Kind = "parse"
    /\ pc = "compile" => Kind \in {"reject", "first"}
    /\ pc = "roundtrip" => Kind = "first"
    /\ pc \in {"create", "run", "destroy"} => Kind \in {"first", "rerun"}
    /\ pc = "reload" => Kind = "reload"
    /\ pc = "destroy_file" => Kind = "rerun"
    /\ pc \in BodySteps => current \in Registered(Array) \ todo
    /\ pc \in {"next", "report", "summary"} => current = NULL
    /\ pc \in {"report", "summary"} =>
           phase = Len(Schedule) /\ round = Rounds /\ todo = {}
    /\ (status = "running") <=> (pc # "exited")
    /\ current # NULL => current \in Registered(Array) \ todo
    /\ pc \in {"roundtrip", "create", "run", "destroy", "destroy_file"} =>
           CurrentFile # NULL
    /\ Kind = "rerun" /\ current # NULL => CurrentFile # NULL

\* A file is owed a destroy_grug_file from its compilation in a first pass to
\* the end of its rerun.
Owed(key) ==
    /\ key.category = Array
    /\ \/ Kind = "first" /\ key.name \notin todo
                         /\ ~(pc = "compile" /\ key.name = current)
       \/ Kind = "rerun" /\ (key.name \in todo \/ key.name = current)

\* Every live file is either discarded by a failed test that expected no file,
\* or the one fn_data->file names, in the window between the two passes.
FileInv ==
    /\ \A key \in Rerunnable : file[key] # NULL => file[key].key = key
    /\ \A f \in live_files :
        \/ f.key \in failed_keys /\ f.key.category \in {"err", "err_spaces"}
        \/ f.key \in Rerunnable /\ f = file[f.key] /\ Owed(f.key)

\* An entity is live while its test runs, or was lost by a failure.
EntityInv ==
    \A e \in live_entities :
        \/ e.file.key \in failed_keys
        \/ pc \in {"run", "destroy"} /\ e = CurrentEntity

\* The tests the finished phases have gone through are in the table.
Recorded(array, name) == TestKey(Category(array), name) \in DOMAIN test_results

ResultInv ==
    /\ \A q \in 1..Len(Schedule) :
        Schedule[q].kind # "rerun" /\ (round > 1 \/ q < phase) =>
            \A name \in Registered(Schedule[q].array) : Recorded(Schedule[q].array, name)
    /\ Kind # "rerun" =>
        \A name \in Registered(Array) : 
            name \notin todo /\ name # current => Recorded(Array, name)

AllPassed(table) == \A key \in DOMAIN table : test_result_overall_passed(table[key])

\* A test whose file is owed its destruction has it still, in this state.
HasFile(name) ==
    Owed(TestKey(Array, name)) =>
        /\ file[TestKey(Array, name)] \in live_files
        /\ file[TestKey(Array, name)].state = State

\* Without --continue-on-fail: no failure precedes a step of the driver, what
\* is recorded is a pass, and the tests to rerun have live files of this state.
FailFastInv ==
    ~ContinueOnFail /\ status = "running" =>
        /\ failed_keys = {}
        /\ pc # "record_failed"
        /\ AllPassed(test_results)
        /\ Kind \in {"first", "rerun"} => \A name \in Registered(Array) : HasFile(name)

\* The rerun of a test of ok or err_runtime is pending as long as the file of
\* its first run is owed its destruction; from then on has_rerun is set. And
\* no first run passes without a file, so that no passing test is skipped.
RerunInv ==
    /\ \A key \in Rerunnable :
        /\ file[key] # NULL =>
              Owed(key) \/ (key \in DOMAIN test_results /\ test_results[key].has_rerun)
        /\ key \in DOMAIN test_results /\ test_results[key].passed => file[key] # NULL
    /\ pc = "record_passed" /\ Kind \in {"first", "rerun"} => CurrentFile # NULL
    /\ pc = "destroy_file" =>
          CurrentKey \in DOMAIN test_results /\ test_results[CurrentKey].has_rerun

Inv == /\ TypeOK
       /\ ControlInv
       /\ FileInv
       /\ EntityInv
       /\ ResultInv
       /\ RerunInv
       /\ FailFastInv
       /\ (~ContinueOnFail => NoEntityOutlivesItsFile /\ SuccessIsSound)
=============================================================================
