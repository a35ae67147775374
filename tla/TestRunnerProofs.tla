------------------------- MODULE TestRunnerProofs -------------------------
(***************************************************************************)
(* Proofs about TestRunner, for every suite of tests, number of rounds,    *)
(* capacity of the table and setting of the options: what the driver keeps *)
(* true, that success means every test has run to a passing result, and    *)
(* that the driver, step by step, is a TestSession.                        *)
(***************************************************************************)
EXTENDS TestRunnerInvariant, FiniteSetTheorems, TLAPS

---------------------------------------------------------------------------
(* Facts about the constants. *)

\* What the proofs need to know of the order of the phases: the passes over
\* ok and err_runtime come in pairs, a first one and its rerun, on one state.
LEMMA ScheduleFacts ==
    /\ Len(Schedule) = 13
    /\ \A p \in 1..13 :
        /\ Schedule[p].kind \in {"parse", "reject", "first", "rerun", "reload"}
        /\ Schedule[p].array \in Arrays
        /\ Schedule[p].state \in {"safe", "unsafe"}
        /\ Schedule[p].kind \in {"first", "rerun"}
             <=> Schedule[p].array \in {"ok", "err_runtime"}
        /\ Schedule[p].kind = "reject" <=> Schedule[p].array \in {"err", "err_spaces"}
        /\ Schedule[p].kind = "reload" <=> Schedule[p].array = "reloading"
<1> DEFINE P(p) ==
        /\ Schedule[p].kind \in {"parse", "reject", "first", "rerun", "reload"}
        /\ Schedule[p].array \in Arrays
        /\ Schedule[p].state \in {"safe", "unsafe"}
        /\ Schedule[p].kind \in {"first", "rerun"}
             <=> Schedule[p].array \in {"ok", "err_runtime"}
        /\ Schedule[p].kind = "reject" <=> Schedule[p].array \in {"err", "err_spaces"}
        /\ Schedule[p].kind = "reload" <=> Schedule[p].array = "reloading"
<1>1. Len(Schedule) = 13
  BY DEF Schedule
<1>2. P(1) /\ P(2) /\ P(3) /\ P(4) /\ P(5) /\ P(6) /\ P(7)
  BY DEF Schedule, Arrays
<1>3. P(8) /\ P(9) /\ P(10) /\ P(11) /\ P(12) /\ P(13)
  BY DEF Schedule, Arrays
<1>4. \A p \in 1..13 : P(p)
  <2> HIDE DEF P
  <2> QED BY <1>2, <1>3
<1> QED BY <1>1, <1>4

\* A rerun phase follows the first pass over the same tests with the same
\* state, and every first pass is followed by one.
LEMMA RerunFollowsFirst ==
    /\ Schedule[1].kind = "parse"
    /\ Schedule[1].array = "mod_api_schema"
    /\ Schedule[13].kind = "rerun"
    /\ \A p \in 1..12 :
        /\ Schedule[p].kind = "first" <=> Schedule[p + 1].kind = "rerun"
        /\ Schedule[p].kind = "first" =>
              /\ Schedule[p + 1].array = Schedule[p].array
              /\ Schedule[p + 1].state = Schedule[p].state
<1> DEFINE P(p) ==
        /\ Schedule[p].kind = "first" <=> Schedule[p + 1].kind = "rerun"
        /\ Schedule[p].kind = "first" =>
              /\ Schedule[p + 1].array = Schedule[p].array
              /\ Schedule[p + 1].state = Schedule[p].state
<1>1. P(1) /\ P(2) /\ P(3) /\ P(4) /\ P(5) /\ P(6)
  BY DEF Schedule
<1>2. P(7) /\ P(8) /\ P(9) /\ P(10) /\ P(11) /\ P(12)
  BY DEF Schedule
<1>3. \A p \in 1..12 : P(p)
  <2> HIDE DEF P
  <2> QED BY <1>1, <1>2
<1>4. Schedule[1].kind = "parse" /\ Schedule[1].array = "mod_api_schema"
      /\ Schedule[13].kind = "rerun"
  BY DEF Schedule
<1> QED BY <1>3, <1>4

\* The keys under which the tests of an array are recorded.
LEMMA KeyFacts ==
  ASSUME NEW array \in Arrays, NEW name \in Registered(array)
  PROVE  /\ TestKey(Category(array), name) \in Keys
         /\ array \in {"ok", "err_runtime"} =>
              TestKey(Category(array), name) \in Rerunnable
         /\ array # "reloading" => Category(array) = array
         /\ NULL \notin Registered(array)
  BY NullAssumption DEF Keys, Rerunnable, Registered, Category, TestKey, Arrays

\* A rerunnable test is given by its category, which is also its array, and
\* by its name in that array.
LEMMA RerunnableFacts ==
  ASSUME NEW key \in Rerunnable
  PROVE  /\ key.category \in {"ok", "err_runtime"}
         /\ key.name \in Registered(key.category)
         /\ key = TestKey(key.category, key.name)
         /\ key.name # NULL
<1>1. /\ key.category \in {"ok", "err_runtime"}
      /\ key.name \in Registered(key.category)
      /\ key = TestKey(key.category, key.name)
  BY DEF Rerunnable, TestKey
<1> QED BY <1>1, NullAssumption DEF Registered, Arrays

---------------------------------------------------------------------------
(* Facts about the result table. *)

\* Writing an entry keeps the table well formed and adds no other key.
LEMMA SetEntryFacts ==
  ASSUME NEW table, NEW key, NEW entry \in Entry,
         IsTable(table)
  PROVE  /\ DOMAIN SetEntry(table, key, entry) = DOMAIN table \cup {key}
         /\ IsTable(SetEntry(table, key, entry))
         /\ SetEntry(table, key, entry)[key] = entry
         /\ \A k \in DOMAIN table : k # key => SetEntry(table, key, entry)[k] = table[k]
  BY DEF SetEntry, IsTable

\* Recording a first run writes one entry, and so does recording a rerun.
LEMMA RecordFacts ==
  ASSUME NEW table, NEW key, NEW passed \in BOOLEAN,
         IsTable(table)
  PROVE  \E entry \in Entry :
            /\ record_test_result(table, key, passed) = SetEntry(table, key, entry)
            /\ entry.passed = passed
            /\ key \in DOMAIN table =>
                  /\ entry.has_rerun = table[key].has_rerun
                  /\ entry.passed_rerun = table[key].passed_rerun
            /\ key \notin DOMAIN table => ~entry.has_rerun
<1>1. find_or_create_test_result(table, key) \in Entry
  BY DEF find_or_create_test_result, Entry, FreshEntry, IsTable
<1> DEFINE old == find_or_create_test_result(table, key)
           first == [old EXCEPT !.passed = passed]
<1>2. /\ key \in DOMAIN table => old = table[key]
      /\ key \notin DOMAIN table => ~old.has_rerun
  BY DEF find_or_create_test_result, FreshEntry
<1>3. /\ first \in Entry /\ first.passed = passed
      /\ first.has_rerun = old.has_rerun /\ first.passed_rerun = old.passed_rerun
  BY <1>1 DEF Entry
<1>4. record_test_result(table, key, passed) = SetEntry(table, key, first)
  BY DEF record_test_result
<1> HIDE DEF old, first
<1> QED BY <1>2, <1>3, <1>4

LEMMA RerunFacts ==
  ASSUME NEW table, NEW key, NEW passed \in BOOLEAN,
         IsTable(table)
  PROVE  \E entry \in Entry :
            /\ record_test_rerun_result(table, key, passed) = SetEntry(table, key, entry)
            /\ entry.has_rerun /\ entry.passed_rerun = passed
            /\ key \in DOMAIN table => entry.passed = table[key].passed
<1>1. find_or_create_test_result(table, key) \in Entry
  BY DEF find_or_create_test_result, Entry, FreshEntry, IsTable
<1> DEFINE old == find_or_create_test_result(table, key)
           rerun == [old EXCEPT !.has_rerun = TRUE, !.passed_rerun = passed]
<1>2. key \in DOMAIN table => old = table[key]
  BY DEF find_or_create_test_result
<1>3. /\ rerun \in Entry /\ rerun.has_rerun /\ rerun.passed_rerun = passed
      /\ rerun.passed = old.passed
  BY <1>1 DEF Entry
<1>4. record_test_rerun_result(table, key, passed) = SetEntry(table, key, rerun)
  BY DEF record_test_rerun_result
<1> HIDE DEF old, rerun
<1> QED BY <1>2, <1>3, <1>4

---------------------------------------------------------------------------
(* Typing, and where the driver can be. *)

\* What TypeOK and ControlInv say of the phase and the test being run.
LEMMA PhaseFacts ==
  ASSUME TypeOK, ControlInv
  PROVE  /\ phase \in 1..13
         /\ Array \in Arrays
         /\ State \in {"safe", "unsafe"}
         /\ Kind \in {"parse", "reject", "first", "rerun", "reload"}
         /\ Kind \in {"first", "rerun"} <=> Array \in {"ok", "err_runtime"}
         /\ Kind = "reject" <=> Array \in {"err", "err_spaces"}
         /\ Kind = "reload" <=> Array = "reloading"
  BY ScheduleFacts DEF TypeOK, Array, State, Kind

LEMMA CurrentFacts ==
  ASSUME TypeOK, ControlInv, current # NULL
  PROVE  /\ current \in Registered(Array) \ todo
         /\ CurrentKey \in Keys
         /\ CurrentKey.name = current
         /\ Kind \in {"first", "rerun"} =>
              /\ CurrentKey \in Rerunnable
              /\ CurrentKey = TestKey(Array, current)
         /\ Array # "reloading" => CurrentKey.category = Array
         /\ CompiledFile \in FileHandle
         /\ CompiledFile.key = CurrentKey
         /\ CompiledFile.state = State
         /\ CompiledFile # NULL
<1>1. current \in Registered(Array) \ todo
  BY DEF ControlInv
<1>2. Array \in Arrays /\ State \in {"safe", "unsafe"}
      /\ (Kind \in {"first", "rerun"} <=> Array \in {"ok", "err_runtime"})
  BY PhaseFacts
<1>3. /\ CurrentKey \in Keys
      /\ Kind \in {"first", "rerun"} => CurrentKey \in Rerunnable
      /\ Array # "reloading" => Category(Array) = Array
  BY <1>1, <1>2, KeyFacts DEF CurrentKey
<1>4. /\ CurrentKey.name = current
      /\ CurrentKey.category = Category(Array)
      /\ Kind \in {"first", "rerun"} => CurrentKey = TestKey(Array, current)
  BY <1>2, <1>3 DEF CurrentKey, TestKey
<1>5. CompiledFile \in FileHandle
  BY <1>2, <1>3 DEF CompiledFile, FileHandle, TypeOK
<1>6. CompiledFile # NULL
  BY <1>5, NullAssumption
<1>7. CompiledFile.key = CurrentKey /\ CompiledFile.state = State
  BY DEF CompiledFile
<1> QED BY <1>1, <1>3, <1>4, <1>5, <1>6, <1>7

LEMMA CurrentFileFacts ==
  ASSUME TypeOK, ControlInv,
         pc \in {"roundtrip", "create", "run", "destroy", "destroy_file"}
  PROVE  /\ current # NULL
         /\ CurrentFile \in FileHandle
         /\ CurrentFile # NULL
         /\ CurrentKey \in Rerunnable
         /\ CurrentEntity.file = CurrentFile
         /\ pc # "destroy_file" => CurrentEntity \in EntityHandle
<1>1. current \in Registered(Array) /\ Kind \in {"first", "rerun"} /\ CurrentFile # NULL
  BY DEF ControlInv, BodySteps
<1>2. current # NULL
  BY <1>1, PhaseFacts, KeyFacts
<1>3. CurrentKey \in Rerunnable
  BY <1>1, <1>2, CurrentFacts
<1>4. CurrentFile \in FileHandle
  BY <1>1, <1>3 DEF CurrentFile, TypeOK
<1> QED BY <1>1, <1>2, <1>3, <1>4 DEF CurrentEntity, EntityHandle

LEMMA TypedInit == Init => TypeOK /\ ControlInv
<1> SUFFICES ASSUME Init PROVE TypeOK /\ ControlInv
  OBVIOUS
<1>1. Kind = "parse" /\ Array = "mod_api_schema"
  BY RerunFollowsFirst DEF Init, Kind, Array
<1>2. TypeOK
  BY <1>1, ScheduleFacts, OptionsAssumption DEF Init, TypeOK, NoResults, IsTable, Entry
<1>3. ControlInv
  BY <1>1 DEF Init, ControlInv, BodySteps
<1> QED BY <1>2, <1>3

\* Starting a test: it leaves todo, and a rerun has a file to work on.
LEMMA TypedStartTest ==
  ASSUME TypeOK, ControlInv, StartTest
  PROVE  TypeOK' /\ ControlInv'
<1>1. PICK name \in todo :
        /\ todo' = todo \ {name}
        /\ current' = name
        /\ Kind = "rerun" => file[TestKey(Array, name)] # NULL
  BY DEF StartTest
<1>2. /\ pc' = CASE Kind = "parse"  -> "parse_err"
                 [] Kind = "reload" -> "reload"
                 [] Kind = "rerun"  -> "create"
                 [] OTHER           -> "compile"
      /\ pc = "next"
      /\ UNCHANGED <<round, phase, file, live_files, live_entities, test_results,
                     failed_keys, results_json, status>>
  BY DEF StartTest, handles, history
<1>3. /\ name \in Registered(Array) /\ name # NULL
      /\ Kind' = Kind /\ Array' = Array
      /\ CurrentKey' = TestKey(Category(Array), name)
      /\ Kind = "rerun" => CurrentFile' # NULL
  <2>1. name \in Registered(Array) /\ Array \in Arrays
    BY PhaseFacts DEF TypeOK
  <2>2. Kind' = Kind /\ Array' = Array
    BY <1>2 DEF Kind, Array
  <2>3. CurrentKey' = TestKey(Category(Array), name)
    BY <1>1, <2>2 DEF CurrentKey
  <2>4. Kind = "rerun" => Category(Array) = Array
    BY <2>1, PhaseFacts, KeyFacts
  <2> QED BY <1>1, <1>2, <2>1, <2>2, <2>3, <2>4, KeyFacts DEF CurrentFile
<1>4. Kind \in {"parse", "reject", "first", "rerun", "reload"}
  BY PhaseFacts
<1>5. TypeOK'
  BY <1>1, <1>2, <1>3, <1>4 DEF TypeOK, Registered
<1>6. ControlInv'
  BY <1>1, <1>2, <1>3, <1>4 DEF TypeOK, ControlInv, BodySteps, Registered
<1> QED BY <1>5, <1>6

\* Moving to another phase: no test is current, its loop has not begun.
LEMMA TypedNextPhase ==
  ASSUME TypeOK, ControlInv, NextPhase
  PROVE  TypeOK' /\ ControlInv'
<1>1. /\ pc = "next" /\ todo = {} /\ current = NULL
      /\ UNCHANGED <<current, file, live_files, live_entities, test_results,
                     failed_keys, results_json, status>>
  BY DEF NextPhase, handles, history, ControlInv
<1>2. /\ phase' \in 1..13 /\ round' \in 1..Rounds
      /\ todo' \subseteq Registered(Schedule[phase'].array)
      /\ pc' \in {"next", "report"}
      /\ pc' = "report" => phase' = 13 /\ round' = Rounds /\ todo' = {}
  BY <1>1, ScheduleFacts, OptionsAssumption DEF NextPhase, EnterPhase, TypeOK
<1>3. TypeOK'
  BY <1>1, <1>2, ScheduleFacts DEF TypeOK, Array
<1>4. ControlInv'
  BY <1>1, <1>2, ScheduleFacts DEF ControlInv, BodySteps
<1> QED BY <1>3, <1>4

\* Recording the outcome of a test.
LEMMA TypedRecordResult ==
  ASSUME TypeOK, ControlInv, RecordResult
  PROVE  /\ TypeOK' /\ ControlInv'
         /\ \/ UNCHANGED <<test_results, current>>
            \/ /\ DOMAIN test_results' = DOMAIN test_results \cup {CurrentKey}
               /\ current' = IF Kind = "rerun" THEN current ELSE NULL
<1>1. /\ pc \in {"record_passed", "record_failed"}
      /\ UNCHANGED <<round, phase, todo, file, live_files, live_entities,
                     failed_keys, results_json>>
  BY DEF RecordResult, handles, history
<1>2. /\ current # NULL /\ current \in Registered(Array) \ todo
      /\ CurrentKey \in Keys /\ status = "running"
  <2>1. current \in Registered(Array) \ todo
    BY <1>1 DEF ControlInv, BodySteps
  <2>2. current # NULL
    BY <2>1, PhaseFacts, KeyFacts
  <2>3. CurrentKey \in Keys
    BY <2>2, CurrentFacts
  <2>4. status = "running"
    BY <1>1 DEF ControlInv
  <2> QED BY <2>1, <2>2, <2>3, <2>4
<1>3. /\ Kind' = Kind /\ Array' = Array
      /\ current' = current => CurrentFile' = CurrentFile
  BY <1>1 DEF Kind, Array, CurrentFile, CurrentKey
<1>4. CASE pc' = "exited" /\ status' = "failure" /\ UNCHANGED <<test_results, current>>
  <2>1. TypeOK'
    BY <1>1, <1>3, <1>4 DEF TypeOK
  <2>2. ControlInv'
    BY <1>1, <1>2, <1>3, <1>4 DEF ControlInv, BodySteps
  <2> QED BY <1>4, <2>1, <2>2
<1>5. CASE /\ \/ test_results' = record_test_result(test_results, CurrentKey, pc = "record_passed")
              \/ test_results' = record_test_rerun_result(test_results, CurrentKey, pc = "record_passed")
           /\ pc' = IF Kind = "rerun" THEN "destroy_file" ELSE "next"
           /\ current' = IF Kind = "rerun" THEN current ELSE NULL
           /\ UNCHANGED status
  <2>1. /\ DOMAIN test_results' = DOMAIN test_results \cup {CurrentKey}
        /\ IsTable(test_results')
    <3> DEFINE passed == pc = "record_passed"
    <3>1. passed \in BOOLEAN /\ IsTable(test_results)
      BY DEF TypeOK
    <3>2. \/ test_results' = record_test_result(test_results, CurrentKey, passed)
          \/ test_results' = record_test_rerun_result(test_results, CurrentKey, passed)
      BY <1>5
    <3> HIDE DEF passed
    <3>3. PICK entry \in Entry : test_results' = SetEntry(test_results, CurrentKey, entry)
      BY <3>1, <3>2, RecordFacts, RerunFacts
    <3> QED BY <3>1, <3>3, SetEntryFacts
  <2>2. TypeOK'
    BY <1>1, <1>2, <1>3, <1>5, <2>1 DEF TypeOK
  <2>3. ControlInv'
    BY <1>1, <1>2, <1>3, <1>5 DEF ControlInv, BodySteps
  <2> QED BY <1>5, <2>1, <2>2, <2>3
<1> QED BY <1>4, <1>5 DEF RecordResult

\* Every step of the driver.
LEMMA TypedNext ==
  ASSUME TypeOK, ControlInv, [Next]_vars
  PROVE  TypeOK' /\ ControlInv'
<1> USE DEF fail_current_test, EndOfBody, ContinueAt
<1> DEFINE SamePhase == Kind' = Kind /\ Array' = Array /\ Schedule[phase]' = Schedule[phase]
<1>1. CASE StartTest
  BY <1>1, TypedStartTest
<1>2. CASE SkipRerun
  <2>1. SamePhase /\ CurrentFile' = CurrentFile
    BY <1>2 DEF SkipRerun, Kind, Array, handles, CurrentFile, CurrentKey
  <2>2. TypeOK'
    BY <1>2, <2>1 DEF SkipRerun, TypeOK, handles, history
  <2>3. ControlInv'
    BY <1>2, <2>1 DEF SkipRerun, ControlInv, BodySteps, handles
  <2> QED BY <2>2, <2>3
<1>3. CASE NextPhase
  BY <1>3, TypedNextPhase
<1>4. CASE RecordResult
  BY <1>4, TypedRecordResult
<1>5. ASSUME pc \in BodySteps \ {"record_passed", "record_failed", "destroy_file"},
             UNCHANGED <<round, phase, todo, current, test_results, results_json>>,
             \/ pc' = "exited" /\ status' = "failure"
             \/ pc' \in {"record_passed", "record_failed"} /\ UNCHANGED status
             \/ pc = "parse_err" /\ pc' = "parse_ok" /\ UNCHANGED status
             \/ pc = "compile" /\ Kind = "first" /\ pc' = "roundtrip"
                  /\ CurrentFile' # NULL /\ UNCHANGED status
             \/ pc = "roundtrip" /\ pc' = "create" /\ UNCHANGED status
             \/ pc = "create" /\ pc' = "run" /\ UNCHANGED status
             \/ pc = "run" /\ pc' = "destroy" /\ UNCHANGED status,
             \/ UNCHANGED file
             \/ pc' = "roundtrip" /\ Kind = "first" /\ file' = [file EXCEPT ![CurrentKey] = CompiledFile],
             failed_keys' \in {failed_keys, failed_keys \cup {CurrentKey}},
             live_files' \subseteq FileHandle, live_entities' \subseteq EntityHandle
      PROVE  TypeOK' /\ ControlInv'
  <2>1. SamePhase
    BY <1>5 DEF Kind, Array
  <2>2. current # NULL /\ current \in Registered(Array) \ todo
    <3>1. current \in Registered(Array) \ todo
      BY <1>5 DEF ControlInv
    <3> QED BY <3>1, PhaseFacts, KeyFacts
  <2>3. /\ CurrentKey \in Keys
        /\ CompiledFile \in FileHandle
        /\ Kind = "first" => CurrentKey \in Rerunnable
        /\ CurrentKey' = CurrentKey
    BY <1>5, <2>1, <2>2, CurrentFacts DEF CurrentKey
  <2>4. TypeOK'
    BY <1>5, <2>1, <2>3 DEF TypeOK, BodySteps
  <2>5. UNCHANGED file => CurrentFile' = CurrentFile
    BY <2>3 DEF CurrentFile
  <2>6. Kind = "rerun" => UNCHANGED file
    BY <1>5
  <2>7. ControlInv'
    BY <1>5, <2>1, <2>2, <2>5, <2>6 DEF ControlInv, BodySteps
  <2> QED BY <2>4, <2>7
<1>6. CASE ParseErrModApi
  BY <1>5, <1>6 DEF ParseErrModApi, loop, handles, BodySteps, TypeOK
<1>7. CASE ParseOkModApi
  BY <1>5, <1>7 DEF ParseOkModApi, loop, handles, BodySteps, TypeOK
<1>8. CASE CompileRejected
  <2>1. current # NULL
    BY <1>8, PhaseFacts, KeyFacts DEF CompileRejected, ControlInv, BodySteps
  <2>2. CompiledFile \in FileHandle
    BY <2>1, CurrentFacts
  <2> QED BY <1>5, <1>8, <2>2 DEF CompileRejected, loop, BodySteps, TypeOK
<1>9. CASE Compile
  <2>1. current # NULL
    BY <1>9, PhaseFacts, KeyFacts DEF Compile, ControlInv, BodySteps
  <2>2. CompiledFile \in FileHandle /\ CompiledFile # NULL /\ CurrentKey \in Rerunnable
    BY <1>9, <2>1, CurrentFacts DEF Compile
  <2>3. file' = [file EXCEPT ![CurrentKey] = CompiledFile] => CurrentFile' # NULL
    BY <1>9, <2>2 DEF Compile, loop, CurrentFile, CurrentKey, TypeOK, Array
  <2> QED BY <1>5, <1>9, <2>2, <2>3 DEF Compile, loop, BodySteps, TypeOK
<1>10. CASE diff_roundtrip
  BY <1>5, <1>10 DEF diff_roundtrip, loop, handles, BodySteps, TypeOK
<1>11. CASE CreateEntity
  <2>1. CurrentEntity \in EntityHandle
    BY <1>11, CurrentFileFacts DEF CreateEntity
  <2> QED BY <1>5, <1>11, <2>1 DEF CreateEntity, loop, BodySteps, TypeOK
<1>12. CASE Run
  BY <1>5, <1>12 DEF Run, loop, handles, BodySteps, TypeOK
<1>13. CASE DestroyEntity
  BY <1>5, <1>13 DEF DestroyEntity, loop, BodySteps, TypeOK
<1>14. CASE DestroyFile
  <2>1. SamePhase
    BY <1>14 DEF DestroyFile, Kind, Array
  <2>2. TypeOK'
    BY <1>14, <2>1 DEF DestroyFile, TypeOK, history
  <2>3. ControlInv'
    BY <1>14, <2>1 DEF DestroyFile, ControlInv, BodySteps
  <2> QED BY <2>2, <2>3
<1>15. CASE ReloadTest
  BY <1>5, <1>15 DEF ReloadTest, loop, handles, BodySteps, TypeOK
<1>16. CASE InfrastructureFailure
  <2>1. SamePhase /\ CurrentFile' = CurrentFile
    BY <1>16 DEF InfrastructureFailure, loop, handles, Kind, Array, CurrentFile, CurrentKey
  <2>2. TypeOK'
    BY <1>16, <2>1 DEF InfrastructureFailure, TypeOK, loop, handles, history
  <2>3. ControlInv'
    BY <1>16, <2>1 DEF InfrastructureFailure, ControlInv, BodySteps, loop, handles
  <2> QED BY <2>2, <2>3
<1>17. CASE write_results_json
  <2>1. SamePhase
    BY <1>17 DEF write_results_json, loop, Kind, Array
  <2>2. TypeOK'
    BY <1>17, <2>1 DEF write_results_json, TypeOK, loop, handles, history
  <2>3. ControlInv'
    BY <1>17, <2>1, PhaseFacts DEF write_results_json, ControlInv, BodySteps, loop
  <2> QED BY <2>2, <2>3
<1>18. CASE Finish
  <2>1. SamePhase
    BY <1>18 DEF Finish, loop, Kind, Array
  <2>2. TypeOK'
    BY <1>18, <2>1 DEF Finish, TypeOK, loop, history
  <2>3. ControlInv'
    BY <1>18, <2>1 DEF Finish, ControlInv, BodySteps, loop
  <2> QED BY <2>2, <2>3
<1>19. CASE Exited \/ UNCHANGED vars
  <2>1. UNCHANGED vars
    BY <1>19 DEF Exited
  <2>2. SamePhase /\ CurrentFile' = CurrentFile
    BY <2>1 DEF vars, Kind, Array, CurrentFile, CurrentKey
  <2>3. TypeOK'
    BY <2>1, <2>2 DEF vars, TypeOK
  <2>4. ControlInv'
    BY <2>1, <2>2 DEF vars, ControlInv
  <2> QED BY <2>3, <2>4
<1> QED
  BY <1>1, <1>2, <1>3, <1>4, <1>6, <1>7, <1>8, <1>9, <1>10, <1>11, <1>12, <1>13,
     <1>14, <1>15, <1>16, <1>17, <1>18, <1>19 DEF Next

\* The driver's state is well typed, and the step it is at fits its phase.
THEOREM TypeCorrect == Spec => [](TypeOK /\ ControlInv)
<1>1. Init => TypeOK /\ ControlInv
  BY TypedInit
<1>2. TypeOK /\ ControlInv /\ [Next]_vars => (TypeOK /\ ControlInv)'
  BY TypedNext
<1> QED BY <1>1, <1>2, PTL DEF Spec

---------------------------------------------------------------------------
(* Files are reclaimed. *)

LEMMA FileNext ==
  ASSUME TypeOK, ControlInv, FileInv, [Next]_vars, ControlInv'
  PROVE  FileInv'
<1> USE DEF fail_current_test, EndOfBody, ContinueAt
<1>0. /\ \A f \in live_files : f \in FileHandle /\ f # NULL
      /\ file \in [Rerunnable -> FileHandle \cup {NULL}]
  BY NullAssumption DEF TypeOK
<1>1. CASE StartTest
  <2>1. PICK name \in todo : todo' = todo \ {name} /\ current' = name
    BY <1>1 DEF StartTest
  <2>2. /\ pc = "next" /\ current = NULL
        /\ UNCHANGED <<file, live_files, failed_keys>>
        /\ Kind' = Kind /\ Array' = Array
    BY <1>1 DEF StartTest, handles, history, ControlInv, Kind, Array
  <2>3. ASSUME NEW key \in Rerunnable, Owed(key)
        PROVE  Owed(key)'
    BY <2>1, <2>2, <2>3, RerunnableFacts DEF Owed
  <2> QED BY <2>2, <2>3 DEF FileInv
<1>2. CASE SkipRerun
  <2>1. PICK name \in todo : /\ todo' = todo \ {name}
                             /\ file[TestKey(Array, name)] = NULL
    BY <1>2 DEF SkipRerun
  <2>2. /\ Kind = "rerun" /\ UNCHANGED <<file, live_files, failed_keys, current, pc>>
        /\ Kind' = Kind /\ Array' = Array
    BY <1>2 DEF SkipRerun, handles, history, Kind, Array
  <2>3. ASSUME NEW key \in Rerunnable, Owed(key), file[key] # NULL
        PROVE  Owed(key)'
    <3>1. key.category = Array /\ key = TestKey(key.category, key.name)
      BY <2>3, RerunnableFacts DEF Owed
    <3>2. key.name # name
      BY <2>1, <2>3, <3>1
    <3> QED BY <2>1, <2>2, <2>3, <3>2 DEF Owed
  <2> QED BY <1>0, <2>2, <2>3 DEF FileInv
<1>3. CASE NextPhase
  <2>1. /\ pc = "next" /\ todo = {} /\ current = NULL /\ current' = NULL
        /\ UNCHANGED <<file, live_files, failed_keys>>
    BY <1>3 DEF NextPhase, handles, history, ControlInv
  <2>2. ASSUME NEW key \in Rerunnable, Owed(key)
        PROVE  Owed(key)'
    <3>1. Kind = "first" /\ key.category = Array /\ key.name \in Registered(Array)
      BY <2>1, <2>2, RerunnableFacts DEF Owed
    <3>2. phase \in 1..12 /\ phase' = phase + 1
          /\ todo' = Registered(Schedule[phase + 1].array)
      BY <1>3, <3>1, ScheduleFacts, RerunFollowsFirst, PhaseFacts
         DEF NextPhase, EnterPhase, Kind
    <3>3. Kind' = "rerun" /\ Array' = Array /\ todo' = Registered(Array)
      BY <3>1, <3>2, RerunFollowsFirst DEF Kind, Array
    <3> QED BY <3>1, <3>3 DEF Owed
  <2> QED BY <2>1, <2>2 DEF FileInv
<1>4. CASE RecordResult
  <2>1. /\ UNCHANGED <<todo, file, live_files, failed_keys>>
        /\ Kind' = Kind /\ Array' = Array
        /\ pc' # "compile" /\ (Kind = "rerun" => current' = current)
    BY <1>4 DEF RecordResult, handles, history, Kind, Array
  <2>2. \A key : Owed(key) => Owed(key)'
    BY <2>1 DEF Owed
  <2> QED BY <2>1, <2>2 DEF FileInv
<1>5. CASE CompileRejected
  <2>1. /\ Kind = "reject" /\ UNCHANGED file
        /\ \/ UNCHANGED live_files
           \/ /\ live_files' = live_files \cup {CompiledFile}
              /\ failed_keys' = failed_keys \cup {CurrentKey}
        /\ failed_keys \subseteq failed_keys'
    BY <1>5 DEF CompileRejected
  <2>2. CompiledFile.key = CurrentKey /\ CurrentKey.category \in {"err", "err_spaces"}
    <3>1. current # NULL
      BY <1>5, PhaseFacts, KeyFacts DEF CompileRejected, ControlInv, BodySteps
    <3> QED BY <2>1, <3>1, PhaseFacts, CurrentFacts
  <2>3. \A key : ~Owed(key)
    BY <2>1 DEF Owed
  <2> QED BY <2>1, <2>2, <2>3 DEF FileInv
<1>6. CASE Compile
  <2>1. /\ pc = "compile" /\ Kind = "first" /\ pc' # "compile"
        /\ UNCHANGED <<todo, current>> /\ Kind' = Kind /\ Array' = Array
        /\ failed_keys \subseteq failed_keys'
    BY <1>6 DEF Compile, loop, Kind, Array
  <2>2. /\ current \in Registered(Array) \ todo
        /\ CurrentKey \in Rerunnable /\ CurrentKey = TestKey(Array, current)
        /\ CurrentKey.category = Array /\ CurrentKey.name = current
        /\ CompiledFile.key = CurrentKey
    <3>1. current # NULL
      BY <2>1, PhaseFacts, KeyFacts DEF ControlInv, BodySteps
    <3> QED BY <2>1, <3>1, PhaseFacts, CurrentFacts
  <2>3. \A key : Owed(key) => Owed(key)' /\ key # CurrentKey
    BY <2>1, <2>2 DEF Owed
  <2>4. \A key : key = CurrentKey => Owed(key)'
    BY <2>1, <2>2 DEF Owed
  <2>5. CASE UNCHANGED <<file, live_files>>
    BY <2>1, <2>3, <2>5 DEF FileInv
  <2>6. CASE /\ live_files' = live_files \cup {CompiledFile}
             /\ file' = [file EXCEPT ![CurrentKey] = CompiledFile]
    <3>1. /\ file'[CurrentKey] = CompiledFile
          /\ \A key \in Rerunnable : key # CurrentKey => file'[key] = file[key]
      BY <1>0, <2>2, <2>6
    <3> QED BY <2>1, <2>2, <2>3, <2>4, <2>6, <3>1 DEF FileInv
  <2> QED BY <1>6, <2>5, <2>6 DEF Compile
<1>7. CASE DestroyFile
  <2>1. /\ pc = "destroy_file" /\ Kind = "rerun" /\ live_files' = live_files \ {CurrentFile}
        /\ UNCHANGED <<todo, file, failed_keys>> /\ Kind' = Kind /\ Array' = Array
    BY <1>7 DEF DestroyFile, ControlInv, history, Kind, Array
  <2>2. CurrentKey = TestKey(Array, current)
    BY <2>1, CurrentFileFacts, CurrentFacts
  <2>3. ASSUME NEW key \in Rerunnable, Owed(key), file[key] # CurrentFile
        PROVE  Owed(key)'
    <3>1. key = TestKey(Array, key.name) /\ key # CurrentKey
      BY <2>3, RerunnableFacts DEF Owed, CurrentFile
    <3>2. key.name # current
      BY <2>2, <3>1
    <3> QED BY <2>1, <2>3, <3>2 DEF Owed
  <2> QED BY <2>1, <2>3 DEF FileInv
<1>8. CASE Finish
  BY <1>8 DEF Finish, FileInv
<1>9. ASSUME UNCHANGED <<round, phase, todo, current, file, live_files>>,
             pc # "compile" \/ Kind # "first" \/ UNCHANGED pc \/ pc' = "exited",
             pc' # "compile" \/ UNCHANGED pc,
             failed_keys \subseteq failed_keys'
      PROVE  FileInv'
  <2>1. Kind' = Kind /\ Array' = Array
    BY <1>9 DEF Kind, Array
  <2>2. \A key : Owed(key) => Owed(key)'
    BY <1>9, <2>1 DEF Owed
  <2> QED BY <1>9, <2>2 DEF FileInv
<1>10. CASE ParseErrModApi
  BY <1>9, <1>10 DEF ParseErrModApi, loop, handles
<1>11. CASE ParseOkModApi
  BY <1>9, <1>11 DEF ParseOkModApi, loop, handles
<1>12. CASE diff_roundtrip
  BY <1>9, <1>12 DEF diff_roundtrip, loop, handles
<1>13. CASE CreateEntity
  BY <1>9, <1>13 DEF CreateEntity, loop
<1>14. CASE Run
  BY <1>9, <1>14 DEF Run, loop, handles
<1>15. CASE DestroyEntity
  BY <1>9, <1>15 DEF DestroyEntity, loop
<1>16. CASE ReloadTest
  BY <1>9, <1>16 DEF ReloadTest, loop, handles
<1>17. CASE InfrastructureFailure
  BY <1>9, <1>17 DEF InfrastructureFailure, loop, handles, history
<1>18. CASE write_results_json
  BY <1>9, <1>18 DEF write_results_json, loop, handles, history
<1>19. CASE Exited \/ UNCHANGED vars
  BY <1>9, <1>19 DEF Exited, vars
<1> QED
  BY <1>1, <1>2, <1>3, <1>4, <1>5, <1>6, <1>7, <1>8, <1>10, <1>11, <1>12, <1>13,
     <1>14, <1>15, <1>16, <1>17, <1>18, <1>19 DEF Next

LEMMA EntityNext ==
  ASSUME TypeOK, ControlInv, FileInv, EntityInv, [Next]_vars
  PROVE  EntityInv'
<1> USE DEF fail_current_test, EndOfBody, ContinueAt
<1>1. pc \in {"create", "run", "destroy"} =>
        CurrentEntity.file = CurrentFile /\ CurrentFile.key = CurrentKey
  BY CurrentFileFacts DEF FileInv, CurrentFile
<1>2. CASE CreateEntity
  <2>1. \/ UNCHANGED live_entities
        \/ live_entities' = live_entities \cup {CurrentEntity} /\ pc' = "run"
    BY <1>2 DEF CreateEntity
  <2>2. /\ pc = "create" /\ CurrentEntity' = CurrentEntity
        /\ failed_keys \subseteq failed_keys'
    BY <1>2 DEF CreateEntity, loop, CurrentEntity, CurrentFile, CurrentKey, Kind, Array
  <2> QED BY <2>1, <2>2 DEF EntityInv
<1>3. CASE Run
  <2>1. /\ pc = "run" /\ UNCHANGED live_entities /\ CurrentEntity' = CurrentEntity
        /\ \/ pc' = "destroy"
           \/ CurrentKey \in failed_keys'
        /\ failed_keys \subseteq failed_keys'
    BY <1>3 DEF Run, loop, handles, CurrentEntity, CurrentFile, CurrentKey, Kind, Array
  <2> QED BY <1>1, <2>1 DEF EntityInv
<1>4. CASE DestroyEntity
  BY <1>4 DEF DestroyEntity, EntityInv
<1>5. CASE Finish
  BY <1>5 DEF Finish, EntityInv
<1>6. CASE Exited \/ UNCHANGED vars
  <2>1. UNCHANGED vars
    BY <1>6 DEF Exited
  <2>2. UNCHANGED <<pc, live_entities, failed_keys>> /\ CurrentEntity' = CurrentEntity
    BY <2>1 DEF vars, CurrentEntity, CurrentFile, CurrentKey, Kind, Array
  <2> QED BY <2>2 DEF EntityInv
<1>7. ASSUME UNCHANGED live_entities, pc \notin {"run", "destroy"},
             failed_keys \subseteq failed_keys'
      PROVE  EntityInv'
  BY <1>7 DEF EntityInv
<1>8. CASE StartTest \/ SkipRerun \/ NextPhase \/ RecordResult
  BY <1>7, <1>8 DEF StartTest, SkipRerun, NextPhase, RecordResult, handles, history
<1>9. CASE ParseErrModApi \/ ParseOkModApi \/ ReloadTest \/ diff_roundtrip
  BY <1>7, <1>9 DEF ParseErrModApi, ParseOkModApi, ReloadTest, diff_roundtrip, handles
<1>10. CASE CompileRejected \/ Compile
  BY <1>7, <1>10 DEF CompileRejected, Compile
<1>11. CASE DestroyFile \/ InfrastructureFailure \/ write_results_json
  BY <1>7, <1>11 DEF DestroyFile, InfrastructureFailure, write_results_json, handles, history
<1> QED
  BY <1>2, <1>3, <1>4, <1>5, <1>6, <1>8, <1>9, <1>10, <1>11 DEF Next

\* Files and entities are always accounted for: each belongs to the test
\* being run or to its coming rerun, or was lost by a failed test.
THEOREM HandlesAccountedFor == Spec => [](FileInv /\ EntityInv)
<1>1. Init => FileInv /\ EntityInv
  BY DEF Init, FileInv, EntityInv
<1>2. TypeOK /\ ControlInv /\ (TypeOK /\ ControlInv)' /\ FileInv /\ EntityInv /\ [Next]_vars
        => (FileInv /\ EntityInv)'
  BY FileNext, EntityNext
<1> QED BY <1>1, <1>2, TypeCorrect, PTL DEF Spec

\* When the results are written, nothing the driver created is left but what
\* a failed test lost (HandlesReclaimed), with or without --continue-on-fail.
THEOREM Reclaimed == Spec => []HandlesReclaimed
<1>1. ASSUME TypeOK, ControlInv, FileInv, EntityInv
      PROVE  HandlesReclaimed
  <2> SUFFICES ASSUME pc \in {"report", "summary"}
               PROVE  /\ \A f \in live_files : /\ f.key \in failed_keys
                                               /\ f.key.category \in {"err", "err_spaces"}
                      /\ \A e \in live_entities : e.file.key \in failed_keys
    BY DEF HandlesReclaimed
  <2>1. Kind = "rerun" /\ todo = {} /\ current = NULL
    BY <1>1, ScheduleFacts, RerunFollowsFirst DEF ControlInv, Kind
  <2>2. \A key \in Rerunnable : ~Owed(key)
    BY <2>1, RerunnableFacts DEF Owed
  <2>3. \A f \in live_files : f.key \in failed_keys /\ f.key.category \in {"err", "err_spaces"}
    BY <1>1, <2>2 DEF FileInv
  <2>4. \A e \in live_entities : e.file.key \in failed_keys
    BY <1>1 DEF EntityInv
  <2> QED BY <2>3, <2>4
<1> QED BY <1>1, TypeCorrect, HandlesAccountedFor, PTL

---------------------------------------------------------------------------
(* Every test is recorded. *)

LEMMA ResultNext ==
  ASSUME TypeOK, ControlInv, ResultInv, [Next]_vars
  PROVE  ResultInv'
<1> USE DEF fail_current_test, EndOfBody, ContinueAt
<1>1. CASE StartTest
  <2>1. PICK name \in todo : todo' = todo \ {name} /\ current' = name
    BY <1>1 DEF StartTest
  <2>2. UNCHANGED <<round, phase, test_results>> /\ current = NULL
        /\ Kind' = Kind /\ Array' = Array
    BY <1>1 DEF StartTest, ControlInv, Kind, Array
  <2>3. NULL \notin Registered(Array)
    BY PhaseFacts, NullAssumption DEF Registered
  <2> QED BY <2>1, <2>2, <2>3 DEF ResultInv, Recorded
<1>2. CASE SkipRerun
  <2>1. Kind = "rerun" /\ UNCHANGED <<round, phase, test_results>>
        /\ Kind' = Kind /\ Array' = Array
    BY <1>2 DEF SkipRerun, Kind, Array
  <2> QED BY <2>1 DEF ResultInv, Recorded
<1>3. CASE NextPhase
  <2>1. /\ todo = {} /\ current = NULL /\ UNCHANGED test_results /\ phase \in 1..13
        /\ NULL \notin Registered(Array)
    BY <1>3, PhaseFacts, NullAssumption DEF NextPhase, ControlInv, Registered
  <2>2. \/ phase' = phase + 1 /\ round' = round /\ todo' = Registered(Array')
        \/ phase = 13 /\ phase' = 1 /\ round' = round + 1 /\ todo' = Registered(Array')
        \/ phase = 13 /\ UNCHANGED <<round, phase, todo>>
    BY <1>3, ScheduleFacts DEF NextPhase, EnterPhase, Array
  <2>3. ASSUME NEW q \in 1..13, Schedule[q].kind # "rerun",
               q < phase \/ q = phase \/ round > 1,
               NEW name \in Registered(Schedule[q].array)
        PROVE  Recorded(Schedule[q].array, name)
    BY <2>1, <2>3, ScheduleFacts DEF ResultInv, Kind, Array
  <2>4. round \in Nat /\ round >= 1
    BY OptionsAssumption DEF TypeOK
  <2>5. ASSUME NEW q \in 1..13, Schedule[q].kind # "rerun", round' > 1 \/ q < phase',
               NEW name \in Registered(Schedule[q].array)
        PROVE  Recorded(Schedule[q].array, name)'
    <3>1. q < phase \/ q = phase \/ round > 1
      BY <2>1, <2>2, <2>4, <2>5
    <3> QED BY <2>1, <2>3, <2>5, <3>1 DEF Recorded
  <2>6. Kind' # "rerun" => todo' = Registered(Array')
    BY <2>2, RerunFollowsFirst DEF Kind
  <2> QED BY <2>5, <2>6, ScheduleFacts DEF ResultInv
<1>4. CASE RecordResult
  <2>1. UNCHANGED <<round, phase, todo>> /\ Kind' = Kind /\ Array' = Array
    BY <1>4 DEF RecordResult, Kind, Array
  <2>2. \/ UNCHANGED <<test_results, current>>
        \/ /\ DOMAIN test_results' = DOMAIN test_results \cup {CurrentKey}
           /\ current' = IF Kind = "rerun" THEN current ELSE NULL
    BY <1>4, TypedRecordResult
  <2>3. \A array, name : Recorded(array, name) => Recorded(array, name)'
    BY <2>2 DEF Recorded
  <2>4. \/ UNCHANGED current
        \/ \A name : name = current => Recorded(Array, name)'
    BY <2>1, <2>2 DEF Recorded, CurrentKey
  <2>5. ASSUME NEW q \in 1..Len(Schedule), Schedule[q].kind # "rerun", round' > 1 \/ q < phase',
               NEW name \in Registered(Schedule[q].array)
        PROVE  Recorded(Schedule[q].array, name)'
    BY <2>1, <2>3, <2>5 DEF ResultInv
  <2>6. ASSUME Kind' # "rerun", NEW name \in Registered(Array),
               name \notin todo', name # current'
        PROVE  Recorded(Array, name)'
    BY <2>1, <2>3, <2>4, <2>6 DEF ResultInv
  <2> QED BY <2>1, <2>5, <2>6 DEF ResultInv
<1>5. CASE DestroyFile
  <2>1. Kind = "rerun" /\ UNCHANGED <<round, phase, test_results>>
        /\ Kind' = Kind /\ Array' = Array
    BY <1>5 DEF DestroyFile, ControlInv, Kind, Array
  <2> QED BY <2>1 DEF ResultInv, Recorded
<1>6. ASSUME UNCHANGED <<round, phase, todo, current, test_results>>
      PROVE  ResultInv'
  <2>1. Kind' = Kind /\ Array' = Array
    BY <1>6 DEF Kind, Array
  <2> QED BY <1>6, <2>1 DEF ResultInv, Recorded
<1>7. CASE ParseErrModApi \/ ParseOkModApi \/ ReloadTest \/ diff_roundtrip
  BY <1>6, <1>7 DEF ParseErrModApi, ParseOkModApi, ReloadTest, diff_roundtrip, loop
<1>8. CASE CompileRejected \/ Compile \/ CreateEntity \/ Run \/ DestroyEntity
  BY <1>6, <1>8 DEF CompileRejected, Compile, CreateEntity, Run, DestroyEntity, loop
<1>9. CASE InfrastructureFailure \/ write_results_json \/ Finish \/ Exited \/ UNCHANGED vars
  BY <1>6, <1>9 DEF InfrastructureFailure, write_results_json, Finish, Exited, vars, loop
<1> QED
  BY <1>1, <1>2, <1>3, <1>4, <1>5, <1>7, <1>8, <1>9 DEF Next

\* The tests of every phase gone through, and of the one that is under way,
\* have their entry in the table.
THEOREM EveryTestRecorded == Spec => []ResultInv
<1>1. Init => ResultInv
  <2> SUFFICES ASSUME Init PROVE ResultInv
    OBVIOUS
  <2>1. phase = 1 /\ round = 1 /\ todo = Registered(Array)
    BY RerunFollowsFirst DEF Init, Array
  <2> QED BY <2>1, ScheduleFacts DEF ResultInv
<1>2. TypeOK /\ ControlInv /\ ResultInv /\ [Next]_vars => ResultInv'
  BY ResultNext
<1> QED BY <1>1, <1>2, TypeCorrect, PTL DEF Spec

\* No rerun is recorded for a test whose first run is not: the entry
\* record_test_rerun_result writes to is there (RerunFollowsRecord).
THEOREM RerunsFollowRecords == Spec => []RerunFollowsRecord
<1>1. ASSUME TypeOK, ControlInv, ResultInv
      PROVE  RerunFollowsRecord
  <2> SUFFICES ASSUME Kind = "rerun", current # NULL
               PROVE  CurrentKey \in DOMAIN test_results
    BY DEF RerunFollowsRecord
  <2>1. phase \in 1..13 /\ current \in Registered(Array)
    BY <1>1, PhaseFacts DEF ControlInv
  <2>2. phase - 1 \in 1..12 /\ (phase - 1) + 1 = phase
    BY <2>1, RerunFollowsFirst DEF Kind
  <2>3. /\ Schedule[phase - 1].kind = "first"
        /\ Schedule[phase - 1].array = Array
    BY <2>2, RerunFollowsFirst DEF Kind, Array
  <2>4. Recorded(Array, current)
    BY <1>1, <2>1, <2>2, <2>3, ScheduleFacts DEF ResultInv
  <2> QED BY <2>4 DEF Recorded, CurrentKey
<1> QED BY <1>1, TypeCorrect, EveryTestRecorded, PTL

---------------------------------------------------------------------------
(* No rerun is left out. *)

\* Only the passes over ok and err_runtime record a rerunnable test: the tests
\* of reloading, which share the category of ok, have names of their own.
LEMMA RerunnableRecorded ==
  ASSUME TypeOK, ControlInv, current # NULL, CurrentKey \in Rerunnable
  PROVE  Kind \in {"first", "rerun"}
<1>1. /\ CurrentKey.category \in {"ok", "err_runtime"}
      /\ CurrentKey.name \in Registered(CurrentKey.category)
  BY RerunnableFacts
<1>2. /\ current \in Registered(Array) /\ CurrentKey.name = current
      /\ Array # "reloading" => CurrentKey.category = Array
  BY CurrentFacts
<1>3. CASE Array = "reloading"
  <2>1. CurrentKey.category = "ok"
    BY <1>3 DEF CurrentKey, TestKey, Category
  <2>2. current \in Tests["ok"] \cap Tests["reloading"]
    BY <1>1, <1>2, <1>3, <2>1 DEF Registered
  <2> QED BY <2>2, TestsAssumption
<1>4. CASE Array # "reloading"
  BY <1>1, <1>2, <1>4, PhaseFacts
<1> QED BY <1>3, <1>4

\* What a step must keep for the rerunnable tests it does not work on.
LEMMA RerunKept ==
  ASSUME RerunInv, UNCHANGED <<file, test_results>>,
         \A key \in Rerunnable : Owed(key) /\ file[key] # NULL => Owed(key)',
         (pc = "record_passed" /\ Kind \in {"first", "rerun"} => CurrentFile # NULL)',
         pc' # "destroy_file"
  PROVE  RerunInv'
  BY DEF RerunInv

LEMMA RerunNext ==
  ASSUME TypeOK, ControlInv, RerunInv, [Next]_vars
  PROVE  RerunInv'
<1> USE DEF fail_current_test, EndOfBody, ContinueAt
<1>1. CASE StartTest
  <2>1. PICK name \in todo : todo' = todo \ {name} /\ current' = name
    BY <1>1 DEF StartTest
  <2>2. /\ pc = "next" /\ current = NULL /\ pc' \notin {"record_passed", "destroy_file"}
        /\ UNCHANGED <<file, test_results>> /\ Kind' = Kind /\ Array' = Array
    BY <1>1, PhaseFacts DEF StartTest, handles, ControlInv, Kind, Array
  <2>3. \A key \in Rerunnable : Owed(key) => Owed(key)'
    BY <2>1, <2>2, RerunnableFacts DEF Owed
  <2> QED BY <2>2, <2>3, RerunKept
<1>2. CASE SkipRerun
  <2>1. PICK name \in todo : /\ todo' = todo \ {name}
                             /\ file[TestKey(Array, name)] = NULL
    BY <1>2 DEF SkipRerun
  <2>2. /\ Kind = "rerun" /\ pc' = "next" /\ UNCHANGED <<file, test_results, current>>
        /\ Kind' = Kind /\ Array' = Array
    BY <1>2 DEF SkipRerun, handles, Kind, Array
  <2>3. ASSUME NEW key \in Rerunnable, Owed(key), file[key] # NULL
        PROVE  Owed(key)'
    <3>1. key.category = Array /\ key = TestKey(key.category, key.name)
      BY <2>3, RerunnableFacts DEF Owed
    <3> QED BY <2>1, <2>2, <2>3, <3>1 DEF Owed
  <2> QED BY <2>2, <2>3, RerunKept
<1>3. CASE NextPhase
  <2>1. /\ pc = "next" /\ todo = {} /\ current = NULL /\ current' = NULL
        /\ pc' \notin {"record_passed", "destroy_file"} /\ UNCHANGED <<file, test_results>>
    BY <1>3 DEF NextPhase, handles, ControlInv
  <2>2. ASSUME NEW key \in Rerunnable, Owed(key)
        PROVE  Owed(key)'
    <3>1. Kind = "first" /\ key.category = Array /\ key.name \in Registered(Array)
      BY <2>1, <2>2, RerunnableFacts DEF Owed
    <3>2. phase \in 1..12 /\ phase' = phase + 1
          /\ todo' = Registered(Schedule[phase + 1].array)
      BY <1>3, <3>1, ScheduleFacts, RerunFollowsFirst, PhaseFacts
         DEF NextPhase, EnterPhase, Kind
    <3>3. Kind' = "rerun" /\ Array' = Array /\ todo' = Registered(Array)
      BY <3>1, <3>2, RerunFollowsFirst DEF Kind, Array
    <3> QED BY <3>1, <3>3 DEF Owed
  <2> QED BY <2>1, <2>2, RerunKept
<1>4. CASE RecordResult
  <2>1. /\ UNCHANGED <<todo, file>> /\ Kind' = Kind /\ Array' = Array
        /\ pc \in {"record_passed", "record_failed"} /\ pc' \notin {"record_passed", "compile"}
        /\ Kind = "rerun" => current' = current
        /\ pc' = "destroy_file" => Kind = "rerun"
    BY <1>4 DEF RecordResult, handles, Kind, Array
  <2>2. \A key : Owed(key) => Owed(key)'
    BY <2>1 DEF Owed
  <2> DEFINE passed == pc = "record_passed"
  <2>3. current # NULL /\ IsTable(test_results) /\ passed \in BOOLEAN
    <3>1. current \in Registered(Array) /\ Array \in Arrays
      BY <2>1, PhaseFacts DEF ControlInv, BodySteps
    <3> QED BY <3>1, KeyFacts DEF TypeOK
  <2>4. CASE UNCHANGED test_results /\ pc' = "exited"
    BY <2>1, <2>2, <2>4, RerunKept
  <2>5. CASE /\ Kind # "rerun"
             /\ test_results' = record_test_result(test_results, CurrentKey, passed)
    <3>1. PICK entry \in Entry :
            /\ test_results' = SetEntry(test_results, CurrentKey, entry)
            /\ entry.passed = passed
            /\ CurrentKey \in DOMAIN test_results =>
                  entry.has_rerun = test_results[CurrentKey].has_rerun
      <4> HIDE DEF passed
      <4> QED BY <2>3, <2>5, RecordFacts
    <3>2. /\ DOMAIN test_results' = DOMAIN test_results \cup {CurrentKey}
          /\ test_results'[CurrentKey] = entry
          /\ \A k \in DOMAIN test_results : k # CurrentKey => test_results'[k] = test_results[k]
      BY <3>1 DEF SetEntry
    <3>3. ASSUME CurrentKey \in Rerunnable, passed
          PROVE  file[CurrentKey] # NULL
      <4>1. Kind \in {"first", "rerun"}
        BY <2>3, <3>3, RerunnableRecorded
      <4> QED BY <3>3, <4>1 DEF RerunInv, CurrentFile
    <3>4. ASSUME NEW key \in Rerunnable, file[key] # NULL
          PROVE  Owed(key)' \/ (key \in DOMAIN test_results' /\ test_results'[key].has_rerun)
      BY <2>2, <3>1, <3>2, <3>4 DEF RerunInv
    <3>5. ASSUME NEW key \in Rerunnable, key \in DOMAIN test_results', test_results'[key].passed
          PROVE  file[key] # NULL
      BY <3>1, <3>2, <3>3, <3>5 DEF RerunInv
    <3> QED BY <2>1, <2>5, <3>4, <3>5 DEF RerunInv
  <2>6. CASE /\ Kind = "rerun"
             /\ test_results' = record_test_rerun_result(test_results, CurrentKey, passed)
    <3>1. PICK entry \in Entry :
            /\ test_results' = SetEntry(test_results, CurrentKey, entry)
            /\ entry.has_rerun
      <4> HIDE DEF passed
      <4> QED BY <2>3, <2>6, RerunFacts
    <3>2. /\ DOMAIN test_results' = DOMAIN test_results \cup {CurrentKey}
          /\ test_results'[CurrentKey] = entry
          /\ \A k \in DOMAIN test_results : k # CurrentKey => test_results'[k] = test_results[k]
      BY <3>1 DEF SetEntry
    <3>3. CurrentKey' = CurrentKey /\ file[CurrentKey] # NULL
      BY <2>1, <2>3, <2>6 DEF CurrentKey, CurrentFile, ControlInv
    <3> QED BY <2>1, <2>2, <3>1, <3>2, <3>3 DEF RerunInv
  <2> QED BY <1>4, <2>4, <2>5, <2>6 DEF RecordResult
<1>5. CASE Compile
  <2>1. /\ pc = "compile" /\ Kind = "first" /\ UNCHANGED <<todo, current, test_results>>
        /\ pc' \notin {"compile", "record_passed", "destroy_file"}
        /\ Kind' = Kind /\ Array' = Array
    BY <1>5 DEF Compile, loop, Kind, Array
  <2>2. /\ current \in Registered(Array) \ todo /\ CurrentKey \in Rerunnable
        /\ CurrentKey.category = Array /\ CurrentKey.name = current
        /\ CompiledFile # NULL
    <3>1. current # NULL
      BY <2>1, PhaseFacts, KeyFacts DEF ControlInv, BodySteps
    <3> QED BY <2>1, <3>1, PhaseFacts, CurrentFacts
  <2>3. \A key : Owed(key) => Owed(key)'
    BY <2>1 DEF Owed
  <2>4. CASE UNCHANGED file
    BY <2>1, <2>3, <2>4, RerunKept
  <2>5. CASE file' = [file EXCEPT ![CurrentKey] = CompiledFile]
    <3>1. /\ file'[CurrentKey] # NULL
          /\ \A key \in Rerunnable : key # CurrentKey => file'[key] = file[key]
      BY <2>2, <2>5 DEF TypeOK
    <3>2. \A key : key = CurrentKey => Owed(key)'
      BY <2>1, <2>2 DEF Owed
    <3>3. ASSUME NEW key \in Rerunnable
          PROVE  /\ file'[key] # NULL => Owed(key)' \/ (/\ key \in DOMAIN test_results
                                                      /\ test_results[key].has_rerun)
                 /\ key \in DOMAIN test_results /\ test_results[key].passed => file'[key] # NULL
      BY <2>3, <3>1, <3>2 DEF RerunInv
    <3> QED BY <2>1, <3>3 DEF RerunInv
  <2> QED BY <1>5, <2>4, <2>5 DEF Compile
<1>6. CASE DestroyFile
  <2>1. /\ pc = "destroy_file" /\ pc' = "next" /\ UNCHANGED <<todo, file, test_results>>
        /\ Kind = "rerun" /\ Kind' = Kind /\ Array' = Array
    BY <1>6 DEF DestroyFile, ControlInv, Kind, Array
  <2>2. CurrentKey = TestKey(Array, current)
    BY <2>1, CurrentFileFacts, CurrentFacts
  <2>3. ASSUME NEW key \in Rerunnable, Owed(key), key # CurrentKey
        PROVE  Owed(key)'
    <3>1. key = TestKey(Array, key.name)
      BY <2>3, RerunnableFacts DEF Owed
    <3> QED BY <2>1, <2>2, <2>3, <3>1 DEF Owed
  <2> QED BY <2>1, <2>3 DEF RerunInv
<1>7. ASSUME UNCHANGED <<phase, todo, current, file, test_results>>,
             pc # "compile" \/ Kind # "first" \/ UNCHANGED pc \/ pc' = "exited",
             pc' # "compile" \/ UNCHANGED pc,
             pc' # "destroy_file",
             pc' = "record_passed" /\ Kind \in {"first", "rerun"} => CurrentFile # NULL
      PROVE  RerunInv'
  <2>1. Kind' = Kind /\ Array' = Array /\ CurrentFile' = CurrentFile
    BY <1>7 DEF Kind, Array, CurrentFile, CurrentKey
  <2>2. \A key : Owed(key) => Owed(key)'
    BY <1>7, <2>1 DEF Owed
  <2> QED BY <1>7, <2>1, <2>2, RerunKept
<1>8. CASE ParseErrModApi
  BY <1>7, <1>8 DEF ParseErrModApi, loop, handles
<1>9. CASE ParseOkModApi
  BY <1>7, <1>9 DEF ParseOkModApi, loop, handles, ControlInv
<1>10. CASE CompileRejected
  BY <1>7, <1>10 DEF CompileRejected, loop
<1>11. CASE diff_roundtrip
  BY <1>7, <1>11 DEF diff_roundtrip, loop, handles
<1>12. CASE CreateEntity
  BY <1>7, <1>12 DEF CreateEntity, loop, ControlInv
<1>13. CASE Run
  BY <1>7, <1>13 DEF Run, loop, handles
<1>14. CASE DestroyEntity
  BY <1>7, <1>14 DEF DestroyEntity, loop, ControlInv
<1>15. CASE ReloadTest
  BY <1>7, <1>15 DEF ReloadTest, loop, handles, ControlInv
<1>16. CASE InfrastructureFailure
  BY <1>7, <1>16 DEF InfrastructureFailure, loop, handles
<1>17. CASE write_results_json
  BY <1>7, <1>17 DEF write_results_json, loop, handles
<1>18. CASE Finish
  BY <1>7, <1>18 DEF Finish, loop
<1>19. CASE Exited \/ UNCHANGED vars
  <2>1. UNCHANGED vars
    BY <1>19 DEF Exited
  <2>2. /\ UNCHANGED <<pc, file, test_results>> /\ CurrentFile' = CurrentFile
        /\ Kind' = Kind /\ CurrentKey' = CurrentKey
        /\ \A key : Owed(key)' <=> Owed(key)
    BY <2>1 DEF vars, CurrentFile, CurrentKey, Kind, Array, Owed
  <2> QED BY <2>2 DEF RerunInv
<1> QED
  BY <1>1, <1>2, <1>3, <1>4, <1>5, <1>6, <1>8, <1>9, <1>10, <1>11, <1>12, <1>13,
     <1>14, <1>15, <1>16, <1>17, <1>18, <1>19 DEF Next

\* Between the two passes over a test with a file its rerun is pending, and
\* afterwards it is recorded (RerunInv), in every round and on every path.
THEOREM NoRerunLeftOut == Spec => []RerunInv
<1>1. Init => RerunInv
  BY DEF Init, RerunInv, NoResults
<1>2. TypeOK /\ ControlInv /\ RerunInv /\ [Next]_vars => RerunInv'
  BY RerunNext
<1> QED BY <1>1, <1>2, TypeCorrect, PTL DEF Spec

---------------------------------------------------------------------------
(* Without --continue-on-fail. *)

\* Recording a pass keeps every entry a pass, unless it is the rerun of a
\* test that has no entry.
LEMMA RecordPassed ==
  ASSUME NEW table, NEW key, IsTable(table), AllPassed(table)
  PROVE  /\ AllPassed(record_test_result(table, key, TRUE))
         /\ key \in DOMAIN table => AllPassed(record_test_rerun_result(table, key, TRUE))
<1>1. ASSUME NEW entry \in Entry, test_result_overall_passed(entry)
      PROVE  AllPassed(SetEntry(table, key, entry))
  <2>1. /\ DOMAIN SetEntry(table, key, entry) = DOMAIN table \cup {key}
        /\ SetEntry(table, key, entry)[key] = entry
        /\ \A k \in DOMAIN table : k # key => SetEntry(table, key, entry)[k] = table[k]
    BY DEF SetEntry
  <2> QED BY <1>1, <2>1 DEF AllPassed
<1>2. PICK first \in Entry :
        /\ record_test_result(table, key, TRUE) = SetEntry(table, key, first)
        /\ first.passed = TRUE
        /\ key \in DOMAIN table =>
              /\ first.has_rerun = table[key].has_rerun
              /\ first.passed_rerun = table[key].passed_rerun
        /\ key \notin DOMAIN table => ~first.has_rerun
  <2> DEFINE passed == TRUE
  <2>1. IsTable(table) /\ passed \in BOOLEAN
    OBVIOUS
  <2>2. passed = TRUE
    OBVIOUS
  <2> HIDE DEF passed
  <2>3. \E entry \in Entry :
          /\ record_test_result(table, key, passed) = SetEntry(table, key, entry)
          /\ entry.passed = passed
          /\ key \in DOMAIN table =>
                /\ entry.has_rerun = table[key].has_rerun
                /\ entry.passed_rerun = table[key].passed_rerun
          /\ key \notin DOMAIN table => ~entry.has_rerun
    BY ONLY <2>1, RecordFacts
  <2> QED BY <2>2, <2>3
<1>3. test_result_overall_passed(first)
  BY <1>2 DEF AllPassed, test_result_overall_passed
<1>4. PICK rerun \in Entry :
        /\ record_test_rerun_result(table, key, TRUE) = SetEntry(table, key, rerun)
        /\ rerun.has_rerun /\ rerun.passed_rerun = TRUE
        /\ key \in DOMAIN table => rerun.passed = table[key].passed
  <2> DEFINE passed == TRUE
  <2>1. IsTable(table) /\ passed \in BOOLEAN
    OBVIOUS
  <2>2. passed = TRUE
    OBVIOUS
  <2> HIDE DEF passed
  <2>3. \E entry \in Entry :
          /\ record_test_rerun_result(table, key, passed) = SetEntry(table, key, entry)
          /\ entry.has_rerun /\ entry.passed_rerun = passed
          /\ key \in DOMAIN table => entry.passed = table[key].passed
    BY ONLY <2>1, RerunFacts
  <2> QED BY <2>2, <2>3
<1>5. key \in DOMAIN table => test_result_overall_passed(rerun)
  BY <1>4 DEF AllPassed, test_result_overall_passed
<1> QED BY <1>1, <1>2, <1>3, <1>4, <1>5

LEMMA FailFastNext ==
  ASSUME ~ContinueOnFail, TypeOK, ControlInv, FileInv, ResultInv, FailFastInv,
         [Next]_vars, ControlInv'
  PROVE  FailFastInv'
<1> USE DEF fail_current_test, EndOfBody, ContinueAt
<1> SUFFICES ASSUME status' = "running"
             PROVE  FailFastInv'
  BY DEF FailFastInv
<1>1. /\ status = "running"
      /\ failed_keys = {} /\ pc # "record_failed"
      /\ AllPassed(test_results)
      /\ Kind \in {"first", "rerun"} => \A name \in Registered(Array) : HasFile(name)
  <2>1. status = "running"
    BY DEF Next, StartTest, SkipRerun, NextPhase, RecordResult, ParseErrModApi,
       ParseOkModApi, CompileRejected, Compile, diff_roundtrip, CreateEntity, Run,
       DestroyEntity, DestroyFile, ReloadTest, InfrastructureFailure,
       write_results_json, Finish, Exited, vars
  <2> QED BY <2>1 DEF FailFastInv
<1>2. ASSUME UNCHANGED <<failed_keys, test_results>>, pc' # "record_failed",
             Kind' \in {"first", "rerun"} => \A name \in Registered(Array') : HasFile(name)'
      PROVE  FailFastInv'
  BY <1>1, <1>2 DEF FailFastInv, AllPassed
<1>3. ASSUME UNCHANGED <<phase, failed_keys, test_results>>, pc' # "record_failed",
             Kind \in {"first", "rerun"} =>
                \A name \in Registered(Array) : HasFile(name) => HasFile(name)'
      PROVE  FailFastInv'
  <2>1. Kind' = Kind /\ Array' = Array
    BY <1>3 DEF Kind, Array
  <2>2. Kind' \in {"first", "rerun"} => \A name \in Registered(Array') : HasFile(name)'
    BY <1>1, <1>3, <2>1
  <2> QED BY <1>2, <1>3, <2>2
<1>0. ASSUME UNCHANGED <<phase, failed_keys, test_results, file, live_files>>,
             pc' # "record_failed", \A key : Owed(key)' => Owed(key)
      PROVE  FailFastInv'
  <2>1. Array' = Array /\ State' = State
    BY <1>0 DEF Array, State
  <2>2. \A name : HasFile(name) => HasFile(name)'
    BY <1>0, <2>1 DEF HasFile
  <2> QED BY <1>0, <1>3, <2>2
<1>4. CASE StartTest
  <2>1. PICK name \in todo : todo' = todo \ {name} /\ current' = name
    BY <1>4 DEF StartTest
  <2>2. /\ UNCHANGED <<phase, failed_keys, test_results, file, live_files>>
        /\ pc = "next" /\ current = NULL /\ Kind' = Kind /\ Array' = Array
        /\ pc' # "record_failed" /\ (Kind = "first" => pc' = "compile")
    BY <1>4, PhaseFacts DEF StartTest, handles, history, ControlInv, Kind, Array
  <2>3. \A key : Owed(key)' => Owed(key)
    BY <2>1, <2>2 DEF Owed
  <2> QED BY <1>0, <2>2, <2>3
<1>5. CASE SkipRerun
  <2>1. /\ UNCHANGED <<phase, failed_keys, test_results, file, live_files, current, pc>>
        /\ pc = "next" /\ Kind = "rerun" /\ Kind' = Kind /\ Array' = Array /\ todo' \subseteq todo
    BY <1>5 DEF SkipRerun, handles, history, Kind, Array
  <2>2. \A key : Owed(key)' => Owed(key)
    BY <2>1 DEF Owed
  <2> QED BY <1>0, <2>1, <2>2
<1>6. CASE NextPhase
  <2>1. /\ UNCHANGED <<failed_keys, test_results, file, live_files, current>>
        /\ pc = "next" /\ current = NULL /\ todo = {} /\ pc' \in {"next", "report"}
    BY <1>6 DEF NextPhase, handles, history, ControlInv
  <2>2. CASE Kind' = "first"
    <3>1. todo' = Registered(Array')
      BY <1>6, <2>2, RerunFollowsFirst, ScheduleFacts
         DEF NextPhase, EnterPhase, Kind, Array
    <3>2. \A name \in Registered(Array') : name \in todo'
      BY <3>1
    <3>3. \A name \in Registered(Array') : HasFile(name)'
      BY <2>2, <3>2 DEF Owed, HasFile, TestKey
    <3> QED BY <1>2, <2>1, <3>3
  <2>3. CASE Kind' = "rerun" /\ UNCHANGED phase
    <3>1. /\ Array' = Array /\ State' = State /\ Kind' = Kind /\ UNCHANGED todo
      BY <1>6, <2>3, ScheduleFacts, PhaseFacts DEF NextPhase, EnterPhase, Kind, Array, State, TypeOK
    <3>2. \A key : Owed(key)' => Owed(key)
      BY <2>1, <2>3, <3>1 DEF Owed
    <3> QED BY <1>0, <2>1, <2>3, <3>2
  <2>4. CASE Kind' = "rerun" /\ phase' # phase
    <3>1. phase \in 1..12 /\ phase' = phase + 1
      BY <1>6, <2>4, PhaseFacts, ScheduleFacts, RerunFollowsFirst
         DEF NextPhase, EnterPhase, Kind
    <3>2. Kind = "first" /\ Array' = Array /\ State' = State
      BY <2>4, <3>1, RerunFollowsFirst DEF Kind, Array, State
    <3>3. \A name \in Registered(Array) : Owed(TestKey(Array, name))
      BY <2>1, <3>2 DEF Owed, TestKey
    <3>4. \A name \in Registered(Array') : HasFile(name)'
      BY <1>1, <2>1, <3>2, <3>3 DEF HasFile
    <3> QED BY <1>2, <2>1, <3>4
  <2>5. CASE Kind' \notin {"first", "rerun"}
    BY <1>2, <2>1, <2>5
  <2> QED BY <2>2, <2>3, <2>4, <2>5
<1>7. CASE RecordResult
  <2>1. /\ UNCHANGED <<phase, todo, failed_keys, file, live_files>>
        /\ pc = "record_passed" /\ pc' \in {"next", "destroy_file"}
        /\ Kind' = Kind /\ Array' = Array /\ State' = State
        /\ current' = IF Kind = "rerun" THEN current ELSE NULL
    BY <1>1, <1>7 DEF RecordResult, handles, history, Kind, Array, State
  <2>2. CurrentKey \in DOMAIN test_results \/ Kind # "rerun"
    <3> SUFFICES ASSUME Kind = "rerun" PROVE CurrentKey \in DOMAIN test_results
      OBVIOUS
    <3>1. phase \in 1..13 /\ current \in Registered(Array)
      BY <2>1, PhaseFacts DEF ControlInv, BodySteps
    <3>2. phase - 1 \in 1..12 /\ (phase - 1) + 1 = phase
      BY <3>1, RerunFollowsFirst DEF Kind
    <3>3. Schedule[phase - 1].kind = "first" /\ Schedule[phase - 1].array = Array
      BY <3>2, RerunFollowsFirst DEF Kind, Array
    <3>4. Recorded(Array, current)
      BY <3>1, <3>2, <3>3, ScheduleFacts DEF ResultInv
    <3> QED BY <3>4 DEF Recorded, CurrentKey
  <2>3. AllPassed(test_results)'
    <3>1. IsTable(test_results)
      BY DEF TypeOK
    <3>2. \/ UNCHANGED test_results
          \/ test_results' = record_test_result(test_results, CurrentKey, TRUE)
          \/ /\ CurrentKey \in DOMAIN test_results
             /\ test_results' = record_test_rerun_result(test_results, CurrentKey, TRUE)
      <4>1. (pc = "record_passed") = TRUE
        BY <2>1
      <4> QED BY <1>7, <2>2, <4>1 DEF RecordResult
    <3>3. AllPassed(test_results')
      BY <1>1, <3>1, <3>2, RecordPassed
    <3> QED BY <3>3 DEF AllPassed
  <2>4. \A key : Owed(key)' => Owed(key)
    BY <2>1 DEF Owed
  <2>5. Kind' \in {"first", "rerun"} => \A name \in Registered(Array') : HasFile(name)'
    BY <1>1, <2>1, <2>4 DEF HasFile
  <2> QED BY <1>1, <2>1, <2>3, <2>5 DEF FailFastInv
<1>8. CASE Compile
  <2>1. /\ UNCHANGED <<phase, todo, current, failed_keys, test_results>>
        /\ Kind = "first" /\ Kind' = Kind /\ Array' = Array /\ pc' = "roundtrip"
        /\ live_files' = live_files \cup {CompiledFile}
        /\ file' = [file EXCEPT ![CurrentKey] = CompiledFile]
    BY <1>8 DEF Compile, loop, Kind, Array
  <2>2. /\ CurrentKey \in Rerunnable /\ CurrentKey = TestKey(Array, current)
        /\ CompiledFile.state = State
    BY <1>8, <2>1, PhaseFacts, KeyFacts, CurrentFacts DEF Compile, ControlInv, BodySteps
  <2>0. State' = State
    BY <2>1 DEF State
  <2>3. ASSUME NEW name \in Registered(Array), HasFile(name), Owed(TestKey(Array, name))'
        PROVE  /\ file'[TestKey(Array, name)] \in live_files'
               /\ file'[TestKey(Array, name)].state = State
    <3>1. CASE name = current
      BY <2>1, <2>2, <3>1 DEF TypeOK
    <3>2. CASE name # current
      <4>1. TestKey(Array, name) # CurrentKey
        BY <2>2, <3>2 DEF TestKey
      <4>2. Owed(TestKey(Array, name))
        BY <2>1, <2>3, <3>2 DEF Owed, TestKey
      <4>3. file'[TestKey(Array, name)] = file[TestKey(Array, name)]
        <5>1. TestKey(Array, name) \in Rerunnable
          BY <2>1, PhaseFacts, KeyFacts
        <5> QED BY <2>1, <4>1, <5>1 DEF TypeOK
      <4> QED BY <2>1, <2>3, <4>2, <4>3 DEF HasFile
    <3> QED BY <3>1, <3>2
  <2>4. \A name \in Registered(Array) : HasFile(name) => HasFile(name)'
    BY <2>0, <2>1, <2>3 DEF HasFile
  <2> QED BY <1>3, <2>1, <2>4
<1>9. CASE DestroyFile
  <2>1. /\ UNCHANGED <<phase, todo, failed_keys, test_results, file>>
        /\ pc = "destroy_file" /\ Kind = "rerun" /\ Kind' = Kind /\ Array' = Array
        /\ pc' = "next" /\ current' = NULL
        /\ live_files' = live_files \ {CurrentFile}
    BY <1>9 DEF DestroyFile, ControlInv, history, Kind, Array
  <2>2. /\ CurrentKey \in Rerunnable /\ CurrentKey = TestKey(Array, current)
        /\ CurrentFile = file[CurrentKey] /\ CurrentFile.key = CurrentKey
        /\ current \notin todo
    BY <2>1, CurrentFacts, CurrentFileFacts DEF FileInv, CurrentFile, ControlInv, BodySteps
  <2>0. State' = State
    BY <2>1 DEF State
  <2>3. ASSUME NEW name \in Registered(Array), HasFile(name), Owed(TestKey(Array, name))'
        PROVE  /\ file'[TestKey(Array, name)] \in live_files'
               /\ file'[TestKey(Array, name)].state = State
    <3>1. name \in todo
      <4>1. NULL \notin Registered(Array)
        BY PhaseFacts, NullAssumption DEF Registered
      <4> QED BY <2>1, <2>3, <4>1 DEF Owed, TestKey
    <3>2. TestKey(Array, name) # CurrentKey /\ Owed(TestKey(Array, name))
      BY <2>1, <2>2, <3>1 DEF Owed, TestKey
    <3>3. file[TestKey(Array, name)] \in live_files /\ file[TestKey(Array, name)] # NULL
      BY <2>3, <3>2, NullAssumption DEF TypeOK, HasFile
    <3>4. TestKey(Array, name) \in Rerunnable
      BY <2>1, PhaseFacts, KeyFacts
    <3>5. file[TestKey(Array, name)].key # CurrentFile.key
      BY <2>2, <3>2, <3>3, <3>4 DEF FileInv
    <3> QED BY <2>1, <2>3, <3>2, <3>3, <3>5 DEF HasFile
  <2>4. \A name \in Registered(Array) : HasFile(name) => HasFile(name)'
    BY <2>0, <2>1, <2>3 DEF HasFile
  <2> QED BY <1>3, <2>1, <2>4
<1>10. CASE CompileRejected
  <2>1. /\ Kind = "reject" /\ UNCHANGED <<phase, failed_keys, test_results>>
        /\ pc' # "record_failed"
    BY <1>10 DEF CompileRejected, loop
  <2> QED BY <1>3, <2>1
<1>11. ASSUME UNCHANGED <<phase, todo, current, failed_keys, test_results, file, live_files>>,
              pc # "compile" \/ UNCHANGED pc, pc' # "record_failed"
       PROVE  FailFastInv'
  <2>1. Kind' = Kind /\ Array' = Array
    BY <1>11 DEF Kind, Array
  <2>2. \A key : Owed(key)' => Owed(key)
    BY <1>11, <2>1 DEF Owed
  <2> QED BY <1>0, <1>11, <2>2
<1>12. CASE ParseErrModApi \/ ParseOkModApi \/ diff_roundtrip \/ ReloadTest
  BY <1>11, <1>12 DEF ParseErrModApi, ParseOkModApi, diff_roundtrip, ReloadTest, loop, handles
<1>13. CASE CreateEntity \/ Run \/ DestroyEntity
  BY <1>11, <1>13 DEF CreateEntity, Run, DestroyEntity, loop, handles
<1>14. CASE write_results_json
  BY <1>11, <1>14 DEF write_results_json, loop, handles, history
<1>15. CASE Exited \/ UNCHANGED vars
  BY <1>1, <1>11, <1>15 DEF Exited, vars
<1> QED
  BY <1>4, <1>5, <1>6, <1>7, <1>8, <1>9, <1>10, <1>12, <1>13, <1>14, <1>15
     DEF Next, InfrastructureFailure, Finish

\* What the four theorems below share: the invariant of a run that stops at
\* the first failure.
LEMMA FailFast ==
  ASSUME ~ContinueOnFail
  PROVE  Spec => [](TypeOK /\ ControlInv /\ FileInv /\ EntityInv /\ FailFastInv)
<1>1. Init => FailFastInv
  BY RerunFollowsFirst DEF Init, FailFastInv, AllPassed, NoResults, Kind
<1>2. TypeOK /\ ControlInv /\ FileInv /\ ResultInv /\ FailFastInv /\ [Next]_vars /\ ControlInv'
        => FailFastInv'
  BY FailFastNext
<1> QED
  BY <1>1, <1>2, TypeCorrect, HandlesAccountedFor, EveryTestRecorded, PTL DEF Spec

\* A run that stops at the first failure only hands the implementation files
\* that are compiled in the state it passes and not destroyed.
THEOREM FileUsesLive ==
  ASSUME ~ContinueOnFail
  PROVE  Spec => []FileUsesAreLive
<1>1. ASSUME TypeOK, ControlInv, FailFastInv
      PROVE  FileUsesAreLive
  <2> SUFFICES ASSUME pc \in {"create", "run", "destroy", "destroy_file"}
               PROVE  CurrentFile \in live_files /\ CurrentFile.state = State
    BY DEF FileUsesAreLive
  <2>1. /\ status = "running" /\ Kind \in {"first", "rerun"}
        /\ current \in Registered(Array) \ todo
    BY <1>1 DEF ControlInv, BodySteps
  <2>2. CurrentKey = TestKey(Array, current)
    BY <1>1, <2>1, CurrentFacts, CurrentFileFacts
  <2>3. Owed(TestKey(Array, current))
    BY <2>1 DEF Owed, TestKey
  <2> QED BY <1>1, <2>1, <2>2, <2>3 DEF FailFastInv, HasFile, CurrentFile
<1> QED BY <1>1, FailFast, PTL

\* A run that stops at the first failure never frees a file under an entity.
THEOREM EntitiesDieFirst ==
  ASSUME ~ContinueOnFail
  PROVE  Spec => []NoEntityOutlivesItsFile
<1>1. Init => NoEntityOutlivesItsFile
  BY DEF Init, NoEntityOutlivesItsFile
<1>2. ASSUME TypeOK, ControlInv, EntityInv, FailFastInv, FileUsesAreLive,
             status = "running"
      PROVE  NoEntityOutlivesItsFile
  <2> SUFFICES ASSUME NEW e \in live_entities PROVE e.file \in live_files
    BY DEF NoEntityOutlivesItsFile
  <2>1. pc \in {"run", "destroy"} /\ e = CurrentEntity
    BY <1>2 DEF EntityInv, FailFastInv
  <2> QED BY <1>2, <2>1, CurrentFileFacts DEF FileUsesAreLive
<1>3. ControlInv /\ NoEntityOutlivesItsFile /\ [Next]_vars
        => NoEntityOutlivesItsFile' \/ (status = "running")'
  <2> SUFFICES ASSUME ControlInv, NoEntityOutlivesItsFile, [Next]_vars, ~(status = "running")'
               PROVE  NoEntityOutlivesItsFile'
    OBVIOUS
  <2> USE DEF fail_current_test, EndOfBody, ContinueAt, NoEntityOutlivesItsFile
  <2>1. CASE UNCHANGED <<live_files, live_entities>>
    BY <2>1
  <2>2. CASE Finish
    BY <2>2 DEF Finish
  <2>3. CASE CompileRejected \/ Compile
    BY <2>3 DEF CompileRejected, Compile
  <2>4. CASE StartTest \/ SkipRerun \/ NextPhase \/ RecordResult \/ Exited \/ UNCHANGED vars
    BY <2>1, <2>4 DEF StartTest, SkipRerun, NextPhase, RecordResult, Exited, vars, handles
  <2>5. CASE ParseErrModApi \/ ParseOkModApi \/ diff_roundtrip \/ Run \/ ReloadTest
    BY <2>1, <2>5 DEF ParseErrModApi, ParseOkModApi, diff_roundtrip, Run, ReloadTest, handles
  <2>6. CASE InfrastructureFailure \/ write_results_json
    BY <2>1, <2>6 DEF InfrastructureFailure, write_results_json, handles
  <2>7. CASE CreateEntity
    BY <2>1, <2>7 DEF CreateEntity, ControlInv
  <2>8. CASE DestroyEntity \/ DestroyFile
    BY <2>8 DEF DestroyEntity, DestroyFile, ControlInv
  <2> QED BY <2>2, <2>3, <2>4, <2>5, <2>6, <2>7, <2>8 DEF Next
<1>4. Spec => []FileUsesAreLive
  BY FileUsesLive
<1>5. Spec => [](TypeOK /\ ControlInv /\ FileInv /\ EntityInv /\ FailFastInv)
  BY FailFast
<1> QED
  BY <1>1, <1>2, <1>3, <1>4, <1>5, PTL DEF Spec

\* A run that stops at the first failure exits with success only if no test
\* has failed.
THEOREM SuccessSound ==
  ASSUME ~ContinueOnFail
  PROVE  Spec => []SuccessIsSound
<1>1. Init => SuccessIsSound
  BY DEF Init, SuccessIsSound
<1>2. SuccessIsSound /\ FailFastInv /\ ControlInv /\ [Next]_vars => SuccessIsSound'
  <2> SUFFICES ASSUME SuccessIsSound, FailFastInv, ControlInv, [Next]_vars,
                      status' = "success"
               PROVE  failed_keys' = {}
    BY DEF SuccessIsSound
  <2> USE DEF fail_current_test, EndOfBody, ContinueAt
  <2>1. CASE Finish
    BY <2>1 DEF Finish, ControlInv, FailFastInv, history
  <2>2. CASE UNCHANGED <<status, failed_keys>>
    BY <2>2 DEF SuccessIsSound
  <2>3. CASE pc # "exited" /\ UNCHANGED status
    BY <2>3 DEF ControlInv
  <2>4. CASE StartTest \/ SkipRerun \/ NextPhase \/ RecordResult \/ DestroyFile
    BY <2>2, <2>4 DEF StartTest, SkipRerun, NextPhase, RecordResult, DestroyFile, history
  <2>5. CASE ParseErrModApi \/ ParseOkModApi \/ diff_roundtrip \/ Run \/ ReloadTest
    BY <2>3, <2>5 DEF ParseErrModApi, ParseOkModApi, diff_roundtrip, Run, ReloadTest
  <2>6. CASE CompileRejected \/ Compile \/ CreateEntity \/ DestroyEntity
    BY <2>3, <2>6 DEF CompileRejected, Compile, CreateEntity, DestroyEntity
  <2>7. CASE InfrastructureFailure \/ write_results_json \/ Exited \/ UNCHANGED vars
    BY <2>2, <2>7 DEF InfrastructureFailure, write_results_json, Exited, vars, history
  <2> QED BY <2>1, <2>4, <2>5, <2>6, <2>7 DEF Next
<1> QED BY <1>1, <1>2, FailFast, PTL DEF Spec

\* The inductive invariant that the runs check, with either setting of
\* --continue-on-fail.
THEOREM Invariant == Spec => []Inv
<1>1. CASE ContinueOnFail
  <2>1. TypeOK /\ ControlInv /\ FileInv /\ EntityInv /\ ResultInv /\ RerunInv => Inv
    BY <1>1 DEF Inv, FailFastInv
  <2> QED
    BY <2>1, TypeCorrect, HandlesAccountedFor, EveryTestRecorded, NoRerunLeftOut, PTL
<1>2. CASE ~ContinueOnFail
  <2>1. Spec => [](TypeOK /\ ControlInv /\ FileInv /\ EntityInv /\ FailFastInv)
    BY <1>2, FailFast
  <2>2. Spec => []NoEntityOutlivesItsFile
    BY <1>2, EntitiesDieFirst
  <2>3. Spec => []SuccessIsSound
    BY <1>2, SuccessSound
  <2>4. (TypeOK /\ ControlInv /\ FileInv /\ EntityInv /\ FailFastInv) /\ ResultInv
          /\ RerunInv /\ NoEntityOutlivesItsFile /\ SuccessIsSound => Inv
    BY DEF Inv
  <2> QED BY <2>1, <2>2, <2>3, <2>4, EveryTestRecorded, NoRerunLeftOut, PTL
<1> QED BY <1>1, <1>2

---------------------------------------------------------------------------
(* The table and its capacity. *)

FiniteTable == IsFiniteSet(DOMAIN test_results)

\* The table never outgrows its array: record_test_result and
\* record_test_rerun_result add at most the key they were given room for.
THEOREM TableFits == Spec => [](FiniteTable /\ WithinCapacity)
<1>1. Init => FiniteTable /\ WithinCapacity
  BY FS_EmptySet, OptionsAssumption DEF Init, FiniteTable, WithinCapacity, NoResults
<1>2. ASSUME TypeOK, ControlInv, FiniteTable, WithinCapacity, [Next]_vars
      PROVE  FiniteTable' /\ WithinCapacity'
  <2>1. CASE RecordResult
    <3>1. CASE UNCHANGED test_results
      BY <1>2, <3>1 DEF FiniteTable, WithinCapacity
    <3>2. CASE /\ DOMAIN test_results' = DOMAIN test_results \cup {CurrentKey}
               /\ ~TooManyResults(test_results, CurrentKey)
      <4> DEFINE D == DOMAIN test_results
      <4>1. /\ IsFiniteSet(D) /\ Cardinality(D) \in Nat
            /\ Cardinality(D) <= MAX_TEST_RESULTS
            /\ IsFiniteSet(D \cup {CurrentKey})
            /\ Cardinality(D \cup {CurrentKey}) =
                 IF CurrentKey \in D THEN Cardinality(D) ELSE Cardinality(D) + 1
        BY <1>2, FS_AddElement, FS_CardinalityType DEF FiniteTable, WithinCapacity
      <4>2. CurrentKey \in D \/ ~(Cardinality(D) >= MAX_TEST_RESULTS)
        BY <3>2 DEF TooManyResults
      <4>3. DOMAIN test_results' = D \cup {CurrentKey}
        BY <3>2
      <4> HIDE DEF D
      <4> QED BY <4>1, <4>2, <4>3, OptionsAssumption DEF FiniteTable, WithinCapacity
    <3> QED BY <1>2, <2>1, <3>1, <3>2, TypedRecordResult DEF RecordResult
  <2>2. CASE UNCHANGED test_results
    BY <1>2, <2>2 DEF FiniteTable, WithinCapacity
  <2> QED
    BY <1>2, <2>1, <2>2 DEF Next, StartTest, SkipRerun, NextPhase, ParseErrModApi,
       ParseOkModApi, CompileRejected, Compile, diff_roundtrip, CreateEntity, Run,
       DestroyEntity, DestroyFile, ReloadTest, InfrastructureFailure,
       write_results_json, Finish, Exited, vars
<1> QED BY <1>1, <1>2, TypeCorrect, PTL DEF Spec

---------------------------------------------------------------------------
(* The end of the schedule. *)

\* Some pass that is not a rerun goes over each array of tests.
LEMMA EveryArrayScheduled ==
  \A array \in Arrays : \E q \in 1..12 :
      Schedule[q].array = array /\ Schedule[q].kind # "rerun"
<1> DEFINE Pass(q, array) == Schedule[q].array = array /\ Schedule[q].kind # "rerun"
<1>1. /\ Pass(1, "mod_api_schema") /\ Pass(2, "mod_api_semantics")
      /\ Pass(3, "err_spaces") /\ Pass(4, "err") /\ Pass(5, "ok")
      /\ Pass(7, "err_runtime") /\ Pass(9, "reloading")
  BY DEF Schedule
<1>2. \A array \in Arrays : \E q \in 1..12 : Pass(q, array)
  <2> HIDE DEF Pass
  <2> QED BY <1>1 DEF Arrays
<1> QED BY <1>2

\* At the end of the schedule the table holds exactly the tests of the run,
\* and no rerun is pending.
LEMMA AllRecorded ==
  ASSUME TypeOK, ControlInv, ResultInv, pc \in {"report", "summary"}
  PROVE  /\ DOMAIN test_results = Keys
         /\ \A key \in Rerunnable : ~Owed(key)
<1>1. phase = 13 /\ Kind = "rerun" /\ todo = {} /\ current = NULL
  BY ScheduleFacts, RerunFollowsFirst DEF ControlInv, Kind
<1>2. ASSUME NEW key \in Keys
      PROVE  key \in DOMAIN test_results
  <2>1. PICK array \in Arrays :
            \E name \in Registered(array) : key = TestKey(Category(array), name)
    BY DEF Keys
  <2>2. PICK name \in Registered(array) : key = TestKey(Category(array), name)
    BY <2>1
  <2>3. PICK q \in 1..12 : Schedule[q].array = array /\ Schedule[q].kind # "rerun"
    BY EveryArrayScheduled
  <2>4. Recorded(array, name)
    BY <1>1, <2>3, ScheduleFacts DEF ResultInv
  <2> QED BY <2>2, <2>4 DEF Recorded
<1>3. \A key \in Rerunnable : ~Owed(key)
  BY <1>1, RerunnableFacts DEF Owed
<1> QED BY <1>2, <1>3 DEF TypeOK

\* The comparison of counts that decides the exit status: as many passed as
\* there are tests exactly when all of them did.
LEMMA CountsTellAllPassed ==
  ASSUME FiniteTable
  PROVE  Cardinality(OverallPassed(test_results)) < Cardinality(DOMAIN test_results)
            <=> ~AllPassed(test_results)
<1> DEFINE D == DOMAIN test_results
           P == OverallPassed(test_results)
<1>1. P \subseteq D /\ IsFiniteSet(D)
  BY DEF OverallPassed, FiniteTable
<1>2. /\ IsFiniteSet(P) /\ Cardinality(P) <= Cardinality(D)
      /\ Cardinality(P) = Cardinality(D) => P = D
      /\ Cardinality(P) \in Nat /\ Cardinality(D) \in Nat
  <2> HIDE DEF D, P
  <2> QED BY <1>1, FS_Subset, FS_CardinalityType
<1>3. P = D <=> AllPassed(test_results)
  BY DEF OverallPassed, AllPassed
<1> HIDE DEF D, P
<1>4. Cardinality(P) < Cardinality(D) <=> ~AllPassed(test_results)
  BY <1>2, <1>3
<1> QED BY <1>4 DEF D, P

\* Every test has a verdict when the run finishes, and the exit status is
\* success exactly when all verdicts are passes.
LEMMA FinishFacts ==
  ASSUME TypeOK, ControlInv, ResultInv, FailFastInv, FiniteTable, Finish
  PROVE  /\ DOMAIN test_results = Keys
         /\ \A key \in Rerunnable : ~Owed(key)
         /\ status = "running"
         /\ status' = IF AllPassed(test_results) THEN "success" ELSE "failure"
         /\ UNCHANGED <<file, test_results>>
<1>1. pc = "summary" /\ status = "running" /\ UNCHANGED <<file, test_results>>
  BY DEF Finish, ControlInv
<1>2. ~ContinueOnFail => AllPassed(test_results)
  BY <1>1 DEF FailFastInv
<1>3. status' = IF ContinueOnFail /\ ~AllPassed(test_results) THEN "failure" ELSE "success"
  BY CountsTellAllPassed DEF Finish
<1> QED BY <1>1, <1>2, <1>3, AllRecorded

\* The steps that are not the last one never make the exit status a success.
LEMMA SuccessOnlyAtFinish ==
  ASSUME ControlInv, [Next]_vars, ~Finish, status' = "success"
  PROVE  UNCHANGED vars
<1> USE DEF fail_current_test, EndOfBody, ContinueAt
<1>1. pc # "exited" => status # "success"
  BY DEF ControlInv
<1>2. CASE StartTest \/ SkipRerun \/ NextPhase \/ RecordResult \/ DestroyFile
  BY <1>1, <1>2 DEF StartTest, SkipRerun, NextPhase, RecordResult, DestroyFile
<1>3. CASE ParseErrModApi \/ ParseOkModApi \/ diff_roundtrip \/ Run \/ ReloadTest
  BY <1>1, <1>3 DEF ParseErrModApi, ParseOkModApi, diff_roundtrip, Run, ReloadTest
<1>4. CASE CompileRejected \/ Compile \/ CreateEntity \/ DestroyEntity
  BY <1>1, <1>4 DEF CompileRejected, Compile, CreateEntity, DestroyEntity
<1>5. CASE InfrastructureFailure \/ write_results_json
  BY <1>1, <1>5 DEF InfrastructureFailure, write_results_json
<1>6. CASE Exited \/ UNCHANGED vars
  BY <1>6 DEF Exited
<1> QED BY <1>2, <1>3, <1>4, <1>5, <1>6 DEF Next

\* What the theorems of this module need of a step and of its two states.
RunInv == /\ TypeOK /\ ControlInv /\ ResultInv /\ RerunInv /\ FailFastInv
          /\ FiniteTable

LEMMA RunInvHolds == Spec => []RunInv
<1>1. Inv /\ FiniteTable /\ WithinCapacity => RunInv
  BY DEF Inv, RunInv
<1> QED BY <1>1, Invariant, TableFits, PTL

---------------------------------------------------------------------------
(* Success. *)

\* A run that exits with success has run every registered test to a passing
\* result, and those of ok and err_runtime a second time (SuccessIsComplete):
\* no loop, skipped rerun or overwritten entry leaves one out.
THEOREM SuccessComplete == Spec => []SuccessIsComplete
<1>1. Init => SuccessIsComplete
  BY DEF Init, SuccessIsComplete
<1>2. RunInv /\ SuccessIsComplete /\ [Next]_vars => SuccessIsComplete'
  <2> SUFFICES ASSUME RunInv, SuccessIsComplete, [Next]_vars, status' = "success"
               PROVE  SuccessIsComplete'
    BY DEF SuccessIsComplete
  <2> USE DEF RunInv
  <2>1. CASE Finish
    <3>1. /\ DOMAIN test_results = Keys /\ AllPassed(test_results)
          /\ \A key \in Rerunnable : ~Owed(key)
          /\ UNCHANGED test_results
      BY <2>1, FinishFacts
    <3>2. ASSUME NEW key \in Keys
          PROVE  key \in DOMAIN test_results /\ test_result_overall_passed(test_results[key])
      BY <3>1 DEF AllPassed
    <3>3. ASSUME NEW key \in Rerunnable, key \in Keys
          PROVE  test_results[key].has_rerun
      BY <3>1, <3>2, <3>3 DEF RerunInv, test_result_overall_passed
    <3> QED BY <3>1, <3>2, <3>3 DEF SuccessIsComplete, OverallPassed
  <2>2. CASE ~Finish
    <3>1. UNCHANGED <<status, test_results>>
      BY <2>2, SuccessOnlyAtFinish DEF vars
    <3> QED BY <3>1 DEF SuccessIsComplete, OverallPassed
  <2> QED BY <2>1, <2>2
<1> QED BY <1>1, <1>2, RunInvHolds, PTL DEF Spec

---------------------------------------------------------------------------
(* The driver is a TestSession. *)

Verdicts == [key \in Keys |-> Verdict(key)]

\* Recording a result changes the verdict of the current test alone, and
\* never to a failure without --continue-on-fail.
LEMMA RecordReports ==
  ASSUME RunInv, RunInv', RecordResult, status' # "failure"
  PROVE  Session!Report
<1> USE DEF RunInv
<1>1. /\ pc \in {"record_passed", "record_failed"} /\ status = "running"
      /\ UNCHANGED status
      /\ \/ test_results' = record_test_result(test_results, CurrentKey, pc = "record_passed")
         \/ test_results' = record_test_rerun_result(test_results, CurrentKey, pc = "record_passed")
  BY DEF RecordResult, ControlInv
<1>2. CurrentKey \in Keys
  <2>1. current # NULL
    BY <1>1, PhaseFacts, KeyFacts DEF ControlInv, BodySteps
  <2> QED BY <2>1, CurrentFacts
<1>3. PICK entry : test_results' = SetEntry(test_results, CurrentKey, entry)
  BY <1>1 DEF record_test_result, record_test_rerun_result
<1>4. /\ DOMAIN test_results' = DOMAIN test_results \cup {CurrentKey}
      /\ \A k \in DOMAIN test_results : k # CurrentKey => test_results'[k] = test_results[k]
  BY <1>3 DEF SetEntry
<1> DEFINE v == IF test_result_overall_passed(test_results'[CurrentKey])
                THEN "passed" ELSE "failed"
<1>5. ~ContinueOnFail => v = "passed"
  BY <1>1, <1>4 DEF FailFastInv, AllPassed
<1>6. /\ \A key \in Keys : key = CurrentKey => Verdict(key)' = v
      /\ \A key \in Keys : key # CurrentKey => Verdict(key)' = Verdict(key)
  BY <1>4 DEF Verdict
<1>7. Verdicts' = [Verdicts EXCEPT ![CurrentKey] = v]
  <2> HIDE DEF v
  <2> QED BY <1>2, <1>6 DEF Verdicts
<1> QED BY <1>1, <1>2, <1>5, <1>7 DEF Session!Report, Verdicts

\* The last step is that of the session.
LEMMA FinishFinishes ==
  ASSUME RunInv, Finish
  PROVE  Session!Finish
<1> USE DEF RunInv
<1>1. /\ DOMAIN test_results = Keys /\ status = "running"
      /\ status' = IF AllPassed(test_results) THEN "success" ELSE "failure"
      /\ UNCHANGED test_results
  BY FinishFacts
<1>2. \A key \in Keys : Verdict(key) # "none"
  BY <1>1 DEF Verdict
<1>3. AllPassed(test_results) <=> \A key \in Keys : Verdict(key) = "passed"
  BY <1>1 DEF AllPassed, Verdict
<1>4. Verdicts' = Verdicts
  BY <1>1 DEF Verdicts, Verdict
<1> QED BY <1>1, <1>2, <1>3, <1>4 DEF Session!Finish, Verdicts

\* A step that ends the process early aborts the session, and any other step
\* that is not yet accounted for is invisible to the caller.
LEMMA OthersAbortOrStutter ==
  ASSUME ControlInv, UNCHANGED test_results,
         UNCHANGED status \/ (pc # "exited" /\ status' = "failure")
  PROVE  [Session!Abort]_(Session!vars)
<1>1. Verdicts' = Verdicts
  BY DEF Verdicts, Verdict
<1>2. pc # "exited" => status = "running"
  BY DEF ControlInv
<1> QED BY <1>1, <1>2 DEF Session!Abort, Session!vars, Verdicts

\* Every step of the driver is a step of the session or invisible to it.
LEMMA StepSimulation ==
  ASSUME RunInv, RunInv', [Next]_vars
  PROVE  [Session!Next]_(Session!vars)
<1> USE DEF fail_current_test, EndOfBody, ContinueAt, RunInv
<1> DEFINE Quiet == /\ UNCHANGED test_results
                    /\ UNCHANGED status \/ (pc # "exited" /\ status' = "failure")
<1>1. CASE RecordResult
  <2>1. CASE status' # "failure"
    BY <1>1, <2>1, RecordReports DEF Session!Next
  <2>2. CASE status' = "failure"
    <3>1. pc # "exited" /\ status = "running"
      BY <1>1 DEF RecordResult, ControlInv
    <3>2. UNCHANGED test_results
      BY <1>1, <2>2, <3>1 DEF RecordResult
    <3> QED BY <2>2, <3>1, <3>2, OthersAbortOrStutter DEF Session!Next
  <2> QED BY <2>1, <2>2
<1>2. CASE Finish
  BY <1>2, FinishFinishes DEF Session!Next
<1>3. ASSUME Quiet
      PROVE  [Session!Next]_(Session!vars)
  BY <1>3, OthersAbortOrStutter DEF Session!Next
<1>4. CASE StartTest \/ SkipRerun \/ NextPhase \/ DestroyFile
  BY <1>3, <1>4 DEF StartTest, SkipRerun, NextPhase, DestroyFile
<1>5. CASE ParseErrModApi \/ ParseOkModApi \/ diff_roundtrip \/ Run \/ ReloadTest
  BY <1>3, <1>5 DEF ParseErrModApi, ParseOkModApi, diff_roundtrip, Run, ReloadTest
<1>6. CASE CompileRejected \/ Compile \/ CreateEntity \/ DestroyEntity
  BY <1>3, <1>6 DEF CompileRejected, Compile, CreateEntity, DestroyEntity
<1>7. CASE InfrastructureFailure \/ write_results_json \/ Exited \/ UNCHANGED vars
  BY <1>3, <1>7 DEF InfrastructureFailure, write_results_json, Exited, vars
<1> QED BY <1>1, <1>2, <1>4, <1>5, <1>6, <1>7 DEF Next

\* The driver implements the safety of TestSession: verdicts appear one at a
\* time and only while the process runs, no failing verdict is reported
\* without --continue-on-fail, and the process finishes on its own only with
\* a verdict for every registered test and their conjunction as its status.
THEOREM DriverIsASession == Spec => Session!Safety
<1>1. Init => Session!Init
  <2> SUFFICES ASSUME Init PROVE Session!Init
    OBVIOUS
  <2>1. \A key \in Keys : Verdict(key) = "none"
    BY DEF Init, NoResults, Verdict
  <2> QED BY <2>1 DEF Init, Session!Init
<1>2. RunInv /\ RunInv' /\ [Next]_vars => [Session!Next]_(Session!vars)
  BY StepSimulation
<1> QED BY <1>1, <1>2, RunInvHolds, PTL DEF Spec, Session!Safety

---------------------------------------------------------------------------
(* What the percentage of the summary and of results.json says, for any    *)
(* number of tests.                                                        *)

\* What \div is: the quotient q with q * t <= n < q * t + t.
LEMMA Quotient ==
    ASSUME NEW n \in Nat, NEW t \in Nat \ {0}
    PROVE  /\ n \div t \in Nat
           /\ (n \div t) * t <= n
           /\ n < (n \div t) * t + t
BY SMT

\* The percentage times the tests is within half of the tests from a hundred
\* times those that passed: it is the nearest whole percentage.
THEOREM PercentageIsNearest ==
    ASSUME NEW total \in Nat \ {0}, NEW passed \in 0..total
    PROVE  LET percentage == passed_percentage(passed, total) IN
           /\ percentage \in Nat
           /\ 2 * (100 * passed - percentage * total) <= total
           /\ 2 * (percentage * total - 100 * passed) <= total
<1> DEFINE n == passed * 100 + total \div 2
           p == n \div total
<1>1. /\ total \div 2 \in Nat
      /\ 2 * (total \div 2) <= total
      /\ total < 2 * (total \div 2) + 2
  BY SMT
<1>2. n \in Nat
  BY <1>1
<1>3. /\ p \in Nat
      /\ p * total <= n
      /\ n < p * total + total
  <2> HIDE DEF n
  <2> QED  BY <1>2, Quotient
<1>4. passed_percentage(passed, total) = p
  BY DEF passed_percentage
<1>5. /\ 2 * (100 * passed - p * total) <= total
      /\ 2 * (p * total - 100 * passed) <= total
  <2>1. p * total \in Nat
    BY <1>3
  <2> DEFINE product == p * total
  <2>2. product \in Nat /\ product <= n /\ n < product + total
    BY <1>3, <2>1
  <2> HIDE DEF product, p
  <2>3. /\ 2 * (100 * passed - product) <= total
        /\ 2 * (product - 100 * passed) <= total
    BY <1>1, <2>2 DEF n
  <2> QED  BY <2>3 DEF product
<1> QED  BY <1>3, <1>4, <1>5

\* It is 100 exactly when at most one test in two hundred failed: with more
\* than 199 tests, also when not all passed.
THEOREM FullMarks ==
    ASSUME NEW total \in Nat \ {0}, NEW passed \in 0..total
    PROVE  passed_percentage(passed, total) = 100 <=> 200 * (total - passed) <= total
<1> DEFINE n == passed * 100 + total \div 2
           p == n \div total
<1>1. /\ total \div 2 \in Nat
      /\ 2 * (total \div 2) <= total
      /\ total < 2 * (total \div 2) + 2
  BY SMT
<1>2. n \in Nat /\ n < 101 * total
  BY <1>1
<1>3. /\ p \in Nat
      /\ p * total <= n
      /\ n < p * total + total
  <2> HIDE DEF n
  <2> QED  BY <1>2, Quotient
<1>4. passed_percentage(passed, total) = p
  BY DEF passed_percentage
<1>5. ASSUME p = 100 PROVE 200 * (total - passed) <= total
  <2> HIDE DEF p
  <2>1. 100 * total <= n
    BY <1>3, <1>5
  <2> QED  BY <1>1, <2>1 DEF n
<1>6. ASSUME 200 * (total - passed) <= total PROVE p = 100
  <2>1. 100 * total <= n
    BY <1>1, <1>6
  <2>2. p < 101
    <3> HIDE DEF p, n
    <3> SUFFICES ASSUME 101 <= p PROVE FALSE
      BY <1>3
    <3>1. 101 * total <= p * total
      BY <1>3, SMT
    <3> QED  BY <1>2, <1>3, <3>1
  <2>3. p > 99
    <3> HIDE DEF p, n
    <3> SUFFICES ASSUME p + 1 <= 100 PROVE FALSE
      BY <1>3
    <3>1. (p + 1) * total <= 100 * total
      BY <1>3, SMT
    <3>2. (p + 1) * total = p * total + total
      BY <1>3, SMT
    <3> QED  BY <1>2, <1>3, <2>1, <3>1, <3>2
  <2> QED  BY <1>3, <2>2, <2>3
<1> QED  BY <1>4, <1>5, <1>6
===========================================================================
