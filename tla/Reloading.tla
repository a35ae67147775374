----------------------------- MODULE Reloading -----------------------------
(***************************************************************************)
(* Hot reloading: the five test_*_reloading* functions of tests.c, each    *)
(* with a mods directory and a grug state of its own, against what the     *)
(* implementation under test makes of the files they write: one of         *)
(*   "mock"  update() of smoketest.c, which replays the right answers from *)
(*           static variables that outlive the tests;                      *)
(*   "grug"  what the tests ask of a watcher that compares each file's     *)
(*           time of writing with the one it has noted;                    *)
(*   one of Faults, "grug" with one mistake, most of them named by the     *)
(*           comments of the tests.                                        *)
(* A run may be killed at any point and started again: the directories     *)
(* stay, the rest is lost.  Every write gets a time of its own.            *)
(*                                                                         *)
(* An operator D_X is a faulty version of D: the mutation with which a run *)
(* of D's properties is seen to fail.                                      *)
(***************************************************************************)
EXTENDS Naturals, Sequences, FiniteSets

CONSTANTS
    Implementations,  \* those to consider
    Rounds,           \* SHUFFLES
    MaxRestarts,      \* how often a run is started again
    NULL

Order == <<"code_reloading", "code_reloading_destroyed_entity", "code_reloading_empty_file",
           "code_reloading_new_file", "resource_reloading">>

Tests == {Order[i] : i \in DOMAIN Order}

\* A watcher that does not: reload a script, find a new script, report an empty
\* one, keep the program an empty one would replace, untrack a destroyed entity,
\* note what is there at first, note a new resource, note a changed one.
Faults == {"no_reload", "no_discovery", "silent_on_empty", "empty_replaces",
           "keeps_destroyed", "reports_existing", "forgets_new", "forgets_changed"}

ASSUME ReloadingAssumption ==
    /\ Implementations \subseteq {"mock", "grug"} \cup Faults
    /\ Rounds \in Nat \ {0} /\ MaxRestarts \in Nat
    /\ NULL \notin Tests

Resources == {"existing", "new"}
Paths == {"script"} \cup Resources

\* Contents of a script: the number it is about, or Empty.
Empty == 0

---------------------------------------------------------------------------
(* The tests, as sequences of steps. *)

Do(step)             == [do |-> step]
Write(path, content) == [do |-> "write", path |-> path, content |-> content]
CreateEntity(id)     == [do |-> "create", id |-> id]
DestroyEntity(id)    == [do |-> "destroy", id |-> id]

\* assert_number(game_fn_initialize_x), assert_size_t(game_fn_identity_call_count).
ExpectNumber(n)   == [do |-> "expect_number", n |-> n]
ExpectIdentity(n) == [do |-> "expect_identity", n |-> n]
\* What update() reports, and then get_updated_resources().
ExpectMsg(of)     == [do |-> "expect_msg", of |-> of]
ExpectNoResources_AnyCount == [do |-> "expect_resources", some |-> {}, none |-> {}]

ExpectNoResources == [do |-> "expect_resources", some |-> {}, none |-> Resources]
ExpectResources(some, none) == [do |-> "expect_resources", some |-> some, none |-> none]

\* Before RUN_TRACKED_TEST.
Setup(test) ==
    CASE test = "code_reloading_new_file" -> <<Do("temp_dir"), Do("state"), Do("mod_dir")>>
      [] test = "resource_reloading" ->
            <<Do("temp_dir"), Do("mod_dir"), Write("existing", 1), Do("state")>>
      [] OTHER -> <<Do("temp_dir"), Do("mod_dir"), Do("state")>>

Body(test) ==
    CASE test = "code_reloading" ->
            <<Write("script", 1), Do("compile"), CreateEntity(1), Do("call"), ExpectNumber(1),
              Write("script", 2), Do("update"), ExpectMsg(NULL), Do("call"), ExpectNumber(2),
              DestroyEntity(1), Do("destroy_file")>>
      [] test = "code_reloading_destroyed_entity" ->
            <<Write("script", 1), Do("compile"), CreateEntity(1), CreateEntity(2),
              ExpectIdentity(2), DestroyEntity(2), Write("script", 2), Do("update"),
              ExpectMsg(NULL), ExpectIdentity(3), DestroyEntity(1), Do("destroy_file")>>
      [] test = "code_reloading_empty_file" ->
            <<Write("script", 1), Do("compile"), CreateEntity(1), Write("script", Empty),
              Do("update"), ExpectMsg(test), Do("call"), ExpectNumber(1), DestroyEntity(1),
              Do("destroy_file")>>
      [] test = "code_reloading_new_file" ->
            <<Write("script", Empty), Do("update"), ExpectMsg(test)>>
      [] test = "resource_reloading" ->
            <<Do("update"), ExpectMsg(NULL), ExpectNoResources,
              Write("new", 1), Do("update"), ExpectMsg(NULL),
              ExpectResources({"new"}, {"existing"}),
              Write("existing", 2), Do("update"), ExpectMsg(NULL),
              ExpectResources({"existing"}, {"new"}),
              Do("update"), ExpectMsg(NULL), ExpectNoResources>>

\* After RUN_TRACKED_TEST, whatever its outcome.
Cleanup == <<Do("destroy_state"), Do("remove_dir")>>

---------------------------------------------------------------------------
VARIABLES
    implementation,
    continue_on_fail,
    selected,   \* the tests of this run: all of them, or the one that is named
    round,
    left,       \* tests left in this round, the current one first
    code,       \* steps left of the current test
    disk,       \* of each test: the files in its directory, NULL if there is none
    clock,      \* time of the last write
    program,    \* of grug: what the compiled script is about, or NULL
    baseline,   \* of grug: the time it has noted for each file
    entities,   \* of grug: the entities it tracks, and their member
    updated,    \* what get_updated_resources() returns
    msg,        \* test whose script the last update() reports as empty, or NULL
    mock,       \* static variables of the mock
    game_fn_initialize_x,
    game_fn_identity_call_count,
    rejected,   \* tests that failed
    status,     \* of the process
    restarts

state == <<program, baseline, entities, updated, msg, mock>>
game  == <<game_fn_initialize_x, game_fn_identity_call_count>>
options == <<implementation, continue_on_fail, selected>>
suite == <<options, round, left, rejected, status, restarts>>
files == <<disk, clock>>

vars == <<suite, code, files, state, game>>

NoFiles == [path \in {} |-> 0]
NoEntities == [id \in {} |-> 0]

\* f with the value of x set to v.
Put(f, x, v) == [y \in DOMAIN f \cup {x} |-> IF y = x THEN v ELSE f[y]]

MockStart == [update_called |-> FALSE, update_count |-> 0, path |-> NULL, mods |-> NULL]

TestsOf(name) == IF name = NULL THEN Order ELSE <<name>>

IsMock == implementation = "mock"
Test == Head(left)

\* The ok tests come first, if they are run at all, and leave some value in
\* game_fn_initialize_x.
LeftBehind == IF selected = NULL THEN 0..2 ELSE {0}

Init ==
    /\ implementation \in Implementations
    /\ continue_on_fail \in BOOLEAN
    /\ selected \in Tests \cup {NULL}
    /\ round = 1 /\ left = TestsOf(selected) /\ code = <<>>
    /\ disk = [test \in Tests |-> NULL] /\ clock = 0
    /\ program = NULL /\ baseline = NoFiles /\ entities = NoEntities
    /\ updated = {} /\ msg = NULL /\ mock = MockStart
    /\ game_fn_initialize_x \in LeftBehind /\ game_fn_identity_call_count = 0
    /\ rejected = {} /\ status = "running" /\ restarts = 0

---------------------------------------------------------------------------
At(step) == status = "running" /\ code # <<>> /\ Head(code).do = step

Advance == code' = Tail(code)

\* reset() clears the call counts, and leaves the recorded arguments.
BeginTest ==
    /\ status = "running" /\ code = <<>> /\ left # <<>>
    /\ code' = Setup(Test) \o Body(Test) \o Cleanup
    /\ game_fn_identity_call_count' = 0
    /\ UNCHANGED <<suite, files, state, game_fn_initialize_x>>

\* In the next round other tests come first again.
NextRound ==
    /\ status = "running" /\ code = <<>> /\ left = <<>> /\ round < Rounds
    /\ round' = round + 1
    /\ left' = TestsOf(selected)
    /\ IF selected = NULL
       THEN /\ game_fn_initialize_x' \in LeftBehind
            /\ mock' = [mock EXCEPT !.path = "other"]
       ELSE UNCHANGED <<game_fn_initialize_x, mock>>
    /\ UNCHANGED <<options, rejected, status, restarts, code, files, program,
                   baseline, entities, updated, msg, game_fn_identity_call_count>>

Finish ==
    /\ status = "running" /\ code = <<>> /\ left = <<>> /\ round = Rounds
    /\ status' = "finished"
    /\ UNCHANGED <<options, round, left, rejected, restarts, code, files,
                   state, game>>

\* exit(), whatever is on the disk.
Exit ==
    /\ status' = "exited"
    /\ UNCHANGED code

---------------------------------------------------------------------------
(* Files and directories. *)

create_local_temp_dir_OverOld ==
    /\ At("temp_dir")
    /\ disk' = [disk EXCEPT ![Test] = IF @ = NULL THEN NoFiles ELSE @]
    /\ Advance
    /\ UNCHANGED <<suite, clock, state, game>>

\* What a run that was killed has left is removed first.
create_local_temp_dir ==
    /\ At("temp_dir")
    /\ disk' = [disk EXCEPT ![Test] = NoFiles]
    /\ Advance
    /\ UNCHANGED <<suite, clock, state, game>>

\* The mkdir() of the mod's directory fails if it is there already.
MakeModDir ==
    /\ At("mod_dir")
    /\ IF "mod" \in DOMAIN disk[Test] THEN Exit /\ UNCHANGED disk
       ELSE /\ disk' = [disk EXCEPT ![Test] = Put(@, "mod", [content |-> Empty, time |-> 0])]
            /\ Advance
            /\ UNCHANGED status
    /\ UNCHANGED <<options, round, left, rejected, restarts, clock, state, game>>

WriteFile ==
    /\ At("write")
    /\ clock' = clock + 1
    /\ disk' = [disk EXCEPT ![Test] =
                  Put(@, Head(code).path, [content |-> Head(code).content, time |-> clock + 1])]
    /\ Advance
    /\ UNCHANGED <<suite, state, game>>

remove_dir_recursive_FailedOnly ==
    /\ At("remove_dir")
    /\ disk' = IF Test \in rejected THEN [disk EXCEPT ![Test] = NULL] ELSE disk
    /\ Advance
    /\ left' = Tail(left)
    /\ UNCHANGED <<options, round, rejected, status, restarts, clock, state, game>>

\* The last step of a test.
remove_dir_recursive ==
    /\ At("remove_dir")
    /\ disk' = [disk EXCEPT ![Test] = NULL]
    /\ Advance
    /\ left' = Tail(left)
    /\ UNCHANGED <<options, round, rejected, status, restarts, clock, state, game>>

---------------------------------------------------------------------------
(* The implementation. *)

Present == DOMAIN disk[Test] \cap Paths

Times == [path \in Present |-> disk[Test][path].time]

Keep(f, domain) == [x \in DOMAIN f \cap domain |-> f[x]]

create_grug_state ==
    /\ At("state")
    /\ baseline' = IF implementation = "reports_existing" THEN NoFiles ELSE Times
    /\ mock' = [mock EXCEPT !.mods = Test,
                            !.update_count = IF Test = "resource_reloading" THEN 0 ELSE @]
    /\ updated' = IF IsMock /\ Test # "resource_reloading" THEN updated ELSE {}
    /\ Advance
    /\ UNCHANGED <<suite, files, program, entities, msg, game>>

destroy_grug_state ==
    /\ At("destroy_state")
    /\ program' = NULL /\ baseline' = NoFiles /\ entities' = NoEntities
    /\ Advance
    /\ UNCHANGED <<suite, files, updated, msg, mock, game>>

compile_grug_file ==
    /\ At("compile")
    /\ program' = disk[Test]["script"].content
    /\ baseline' = Put(baseline, "script", Times["script"])
    /\ mock' = [mock EXCEPT !.path = Test]
    /\ Advance
    /\ UNCHANGED <<suite, files, entities, updated, msg, game>>

destroy_grug_file ==
    /\ At("destroy_file")
    /\ program' = NULL
    /\ baseline' = Keep(baseline, Paths \ {"script"})
    /\ Advance
    /\ UNCHANGED <<suite, files, entities, updated, msg, mock, game>>

\* Initializing n entities calls identity() in one of the tests.
CountIdentity(n) ==
    game_fn_identity_call_count' = game_fn_identity_call_count
        + IF Test = "code_reloading_destroyed_entity" THEN n ELSE 0

create_entity ==
    /\ At("create")
    /\ entities' = Put(entities, Head(code).id, program)
    /\ mock' = [mock EXCEPT !.path = Test]
    /\ CountIdentity(1)
    /\ Advance
    /\ UNCHANGED <<suite, files, program, baseline, updated, msg, game_fn_initialize_x>>

destroy_entity ==
    /\ At("destroy")
    /\ entities' = IF implementation = "keeps_destroyed" THEN entities
                   ELSE Keep(entities, 1..2 \ {Head(code).id})
    /\ Advance
    /\ UNCHANGED <<suite, files, program, baseline, updated, msg, mock, game>>

\* a() passes the member to initialize(). Its last value stays when the
\* script is not there to run.
call_export_fn ==
    /\ At("call")
    /\ game_fn_initialize_x' =
          IF ~IsMock THEN IF entities[1] = Empty THEN game_fn_initialize_x ELSE entities[1]
          ELSE IF mock.path = "code_reloading" /\ mock.update_called THEN 2 ELSE 1
    /\ mock' = [mock EXCEPT !.update_called = FALSE]
    /\ Advance
    /\ UNCHANGED <<suite, files, program, baseline, entities, updated, msg,
                   game_fn_identity_call_count>>

\* update() of the mock: the directory of the state created last, then the
\* file compiled or instantiated last, tell it which test is running.
MockUpdate ==
    /\ At("update") /\ IsMock
    /\ \/ /\ mock.mods = "resource_reloading"
          /\ updated' = CASE mock.update_count = 1 -> {"new"}
                          [] mock.update_count = 2 -> {"existing"}
                          [] OTHER                 -> {}
          /\ mock' = [mock EXCEPT !.update_count = @ + 1]
          /\ msg' = NULL
          /\ UNCHANGED game
       \/ /\ mock.mods = "code_reloading_new_file"
          /\ msg' = "code_reloading_new_file"
          /\ UNCHANGED <<mock, updated, game>>
       \/ /\ mock.mods \notin {"resource_reloading", "code_reloading_new_file"}
          /\ IF mock.path = "code_reloading_empty_file"
             THEN msg' = "code_reloading_empty_file" /\ UNCHANGED <<mock, game>>
             ELSE /\ msg' = NULL
                  /\ IF mock.mods = "code_reloading_destroyed_entity"
                     THEN CountIdentity(1) /\ UNCHANGED <<mock, game_fn_initialize_x>>
                     ELSE mock' = [mock EXCEPT !.update_called = TRUE] /\ UNCHANGED game
          /\ UNCHANGED updated
    /\ Advance
    /\ UNCHANGED <<suite, files, program, baseline, entities>>

\* The files the watcher sees as new or written again.
Changed ==
    LET changed == {path \in Present : path \notin DOMAIN baseline \/ baseline[path] # Times[path]}
    IN CASE implementation = "no_reload"    -> changed \ {"script"}
         [] implementation = "no_discovery" -> changed \ ({"script"} \ DOMAIN baseline)
         [] OTHER                           -> changed

\* The times it has noted when it is done.
Noted ==
    CASE implementation = "forgets_new"     -> Keep(Times, DOMAIN baseline)
      [] implementation = "forgets_changed" ->
            [path \in DOMAIN baseline \cup Present |->
                IF path \in DOMAIN baseline THEN baseline[path] ELSE Times[path]]
      [] OTHER                              -> Times

\* A script that compiles replaces the program, and the entities that are
\* tracked start again from it. An empty one does not compile.
Update ==
    /\ At("update") /\ ~IsMock
    /\ LET content == disk[Test]["script"].content
           compiles == "script" \in Changed /\ \/ content # Empty
                                               \/ implementation = "empty_replaces"
       IN /\ msg' = IF /\ "script" \in Changed /\ content = Empty
                       /\ implementation # "silent_on_empty"
                    THEN Test ELSE NULL
          /\ IF compiles
             THEN /\ program' = content
                  /\ entities' = [id \in DOMAIN entities |-> content]
                  /\ CountIdentity(Cardinality(DOMAIN entities))
                  /\ UNCHANGED game_fn_initialize_x
             ELSE UNCHANGED <<program, entities, game>>
    /\ updated' = Changed \cap Resources
    /\ baseline' = Noted
    /\ Advance
    /\ UNCHANGED <<suite, files, mock>>

---------------------------------------------------------------------------
(* The assertions. *)

Holds(step) ==
    CASE step.do = "expect_number"    -> game_fn_initialize_x = step.n
      [] step.do = "expect_identity"  -> game_fn_identity_call_count = step.n
      [] step.do = "expect_msg"       -> msg = step.of
      [] step.do = "expect_resources" -> step.some \subseteq updated /\ updated \cap step.none = {}

TestAsserts ==
    /\ \E step \in {"expect_number", "expect_identity", "expect_msg", "expect_resources"} : At(step)
    /\ IF Holds(Head(code)) THEN Advance /\ UNCHANGED <<rejected, status>>
       ELSE /\ rejected' = rejected \cup {Test}
            /\ IF continue_on_fail THEN code' = Cleanup /\ UNCHANGED status ELSE Exit
    /\ UNCHANGED <<options, round, left, restarts, files, state, game>>

---------------------------------------------------------------------------
\* The process is killed, or has failed, and is started again.
Restart ==
    /\ status \in {"running", "exited"} /\ restarts < MaxRestarts
    /\ restarts' = restarts + 1
    /\ round' = 1 /\ left' = TestsOf(selected) /\ code' = <<>>
    /\ program' = NULL /\ baseline' = NoFiles /\ entities' = NoEntities
    /\ updated' = {} /\ msg' = NULL /\ mock' = MockStart
    /\ game_fn_initialize_x' \in LeftBehind /\ game_fn_identity_call_count' = 0
    /\ rejected' = {} /\ status' = "running"
    /\ UNCHANGED <<options, files>>

Ended == status # "running" /\ UNCHANGED vars

Next ==
    \/ BeginTest \/ NextRound \/ Finish
    \/ create_local_temp_dir \/ MakeModDir \/ WriteFile \/ remove_dir_recursive
    \/ create_grug_state \/ destroy_grug_state \/ compile_grug_file \/ destroy_grug_file
    \/ create_entity \/ destroy_entity \/ call_export_fn \/ MockUpdate \/ Update
    \/ TestAsserts \/ Restart \/ Ended

Spec == Init /\ [][Next]_vars
---------------------------------------------------------------------------
(* Properties. *)

\* The tests accept what they ask for and what the mock replays, alone or
\* together, in every round, and after a run that was killed at any point.
CorrectAccepted == implementation \in {"mock", "grug"} => rejected = {} /\ status # "exited"

\* What each test is there to reject, as its comments say.
Targets ==
    [code_reloading                  |-> {"no_reload"},
     code_reloading_destroyed_entity |-> {"keeps_destroyed", "no_reload"},
     code_reloading_empty_file       |-> {"silent_on_empty", "empty_replaces"},
     code_reloading_new_file         |-> {"no_discovery"},
     resource_reloading              |-> {"reports_existing", "forgets_new", "forgets_changed"}]

\* A run to the end has seen every test reject the faulty implementations it
\* is there for, whether it runs alone or after the others.
FaultsRejected ==
    status = "finished" =>
        \A test \in Tests :
            /\ selected \in {test, NULL}
            /\ implementation \in Targets[test]
            => test \in rejected

\* A run that ends has removed its directories, and those of the run that was
\* killed before it.
DirsRemoved == status = "finished" => \A test \in Tests : disk[test] = NULL
=============================================================================
