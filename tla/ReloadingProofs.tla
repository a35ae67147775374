-------------------------- MODULE ReloadingProofs --------------------------
(***************************************************************************)
(* For every set of implementations, number of rounds and number of times  *)
(* a run is killed and started again: the hot reloading tests leave        *)
(* nothing on the disk, pass what does as they ask, and fail what each of  *)
(* them is there to reject.                                                *)
(***************************************************************************)
EXTENDS Reloading, FiniteSetTheorems, TLAPS

---------------------------------------------------------------------------
(* The tests as programs. *)

Step ==
    [do : {"temp_dir", "mod_dir", "state", "compile", "call", "update", "destroy_file",
           "destroy_state", "remove_dir"}]
      \cup [do : {"write"}, path : Paths, content : 0..2]
      \cup [do : {"create", "destroy"}, id : 1..2]
      \cup [do : {"expect_number", "expect_identity"}, n : 0..3]
      \cup [do : {"expect_msg"}, of : Tests \cup {NULL}]
      \cup [do : {"expect_resources"}, some : SUBSET Resources, none : SUBSET Resources]

\* A step of the set-up or of the body: the directory is removed at the end only.
Before == {step \in Step : step.do # "remove_dir"}

LEMMA OrderFacts ==
  /\ Order \in Seq(Tests)
  /\ Tests = {"code_reloading", "code_reloading_destroyed_entity",
              "code_reloading_empty_file", "code_reloading_new_file", "resource_reloading"}
  /\ \A test \in Tests : \E k \in 1..Len(Order) : Order[k] = test
<1>1. Len(Order) = 5 /\ DOMAIN Order = 1..5
  BY DEF Order
<1>2. /\ Order[1] = "code_reloading" /\ Order[2] = "code_reloading_destroyed_entity"
      /\ Order[3] = "code_reloading_empty_file" /\ Order[4] = "code_reloading_new_file"
      /\ Order[5] = "resource_reloading"
  BY DEF Order
<1>3. 1..5 = {1, 2, 3, 4, 5}
  OBVIOUS
<1>4. Tests = {"code_reloading", "code_reloading_destroyed_entity",
               "code_reloading_empty_file", "code_reloading_new_file", "resource_reloading"}
  BY <1>1, <1>2, <1>3 DEF Tests
<1>5. Order \in Seq(Tests)
  BY <1>4 DEF Order
<1>6. \A test \in Tests : \E k \in 1..Len(Order) : Order[k] = test
  BY <1>1 DEF Tests
<1> QED BY <1>4, <1>5, <1>6

\* The steps the tests are written with.
LEMMA StepFacts ==
  /\ \A step \in {"temp_dir", "mod_dir", "state", "compile", "call", "update",
                  "destroy_file", "destroy_state"} : Do(step) \in Before
  /\ \A path \in Paths, content \in 0..2 : Write(path, content) \in Before
  /\ \A id \in 1..2 : CreateEntity(id) \in Before /\ DestroyEntity(id) \in Before
  /\ \A n \in 0..3 : ExpectNumber(n) \in Before /\ ExpectIdentity(n) \in Before
  /\ \A of \in Tests \cup {NULL} : ExpectMsg(of) \in Before
  /\ ExpectNoResources \in Before
  /\ \A some, none \in SUBSET Resources : ExpectResources(some, none) \in Before
  /\ Do("remove_dir") \in Step /\ Do("remove_dir").do = "remove_dir"
BY DEF Before, Step, Do, Write, CreateEntity, DestroyEntity, ExpectNumber,
       ExpectIdentity, ExpectMsg, ExpectNoResources, ExpectResources

\* The set-up and the body of a test do not remove its directory.
LEMMA BodyFacts ==
  ASSUME NEW test \in Tests
  PROVE  Setup(test) \in Seq(Before) /\ Body(test) \in Seq(Before)
<1>1. Setup(test) \in Seq(Before)
  BY StepFacts DEF Setup, Paths, Resources
<1>2. Body(test) \in Seq(Before)
  BY StepFacts, OrderFacts DEF Body, Paths, Resources, Empty
<1> QED BY <1>1, <1>2

LEMMA ConcatFacts ==
  ASSUME NEW S, NEW p \in Seq(S), NEW q \in Seq(S)
  PROVE  /\ p \o q \in Seq(S) /\ Len(p \o q) = Len(p) + Len(q)
         /\ \A k \in 1..Len(p) : (p \o q)[k] = p[k]
         /\ \A k \in 1..Len(q) : (p \o q)[Len(p) + k] = q[k]
OBVIOUS

LEMMA TailFacts ==
  ASSUME NEW S, NEW p \in Seq(S), p # <<>>
  PROVE  /\ Len(p) \in Nat /\ Len(p) > 0 /\ Head(p) = p[1] /\ Head(p) \in S
         /\ Tail(p) \in Seq(S) /\ Len(Tail(p)) = Len(p) - 1
         /\ \A k \in 1..Len(Tail(p)) : Tail(p)[k] = p[k + 1]
OBVIOUS

\* Programs that remove the directory in their last step, if at all.
Programs == {p \in Seq(Step) : \A k \in 1..Len(p) : p[k].do = "remove_dir" => k = Len(p)}

LEMMA ProgramFacts ==
  /\ <<>> \in Programs /\ Cleanup \in Programs
  /\ \A p \in Programs : p # <<>> =>
       /\ Tail(p) \in Programs
       /\ Head(p).do = "remove_dir" => Tail(p) = <<>>
  /\ \A test \in Tests : Setup(test) \o Body(test) \o Cleanup \in Programs
<1>1. <<>> \in Programs
  BY DEF Programs
<1>2. /\ Cleanup \in Seq(Step) /\ Len(Cleanup) = 2
      /\ Cleanup[1].do # "remove_dir" /\ Cleanup[2].do = "remove_dir"
  <2>1. Do("destroy_state") \in Step /\ Do("destroy_state").do = "destroy_state"
    BY StepFacts DEF Before, Do
  <2>2. Do("remove_dir") \in Step /\ Do("remove_dir").do = "remove_dir"
    BY StepFacts
  <2> DEFINE first == Do("destroy_state")
             second == Do("remove_dir")
  <2> HIDE DEF first, second
  <2>3. Cleanup = <<first, second>>
    BY DEF Cleanup, first, second
  <2>4. first \in Step /\ second \in Step
    BY <2>1, <2>2 DEF first, second
  <2>5. Cleanup \in Seq(Step) /\ Len(Cleanup) = 2 /\ Cleanup[1] = first /\ Cleanup[2] = second
    BY <2>3, <2>4
  <2> QED BY <2>1, <2>2, <2>5 DEF first, second
<1>3. Cleanup \in Programs
  <2>1. \A k \in 1..2 : k = 1 \/ k = 2
    OBVIOUS
  <2> QED BY <1>2, <2>1 DEF Programs
<1>4. ASSUME NEW p \in Programs, p # <<>>
      PROVE  Tail(p) \in Programs /\ (Head(p).do = "remove_dir" => Tail(p) = <<>>)
  <2> DEFINE n == Len(p)
             rest == Tail(p)
             m == Len(rest)
  <2>1. /\ p \in Seq(Step) /\ n \in Nat /\ n > 0 /\ Head(p) = p[1]
        /\ rest \in Seq(Step) /\ m = n - 1
        /\ \A k \in 1..m : rest[k] = p[k + 1]
    BY <1>4, TailFacts DEF Programs
  <2>2. \A k \in 1..n : p[k].do = "remove_dir" => k = n
    BY DEF Programs
  <2> HIDE DEF n, rest
  <2>5. m = 0 => rest = <<>>
    BY <2>1
  <2> HIDE DEF m
  <2>3. \A k \in 1..m : rest[k].do = "remove_dir" => k = m
    <3> SUFFICES ASSUME NEW k \in 1..m, rest[k].do = "remove_dir"
                 PROVE  k = m
      OBVIOUS
    <3>1. k + 1 \in 1..n /\ rest[k] = p[k + 1]
      BY <2>1
    <3> QED BY <2>1, <2>2, <3>1
  <2>4. Head(p).do = "remove_dir" => rest = <<>>
    <3>1. 1 \in 1..n
      BY <2>1
    <3> QED BY <2>1, <2>2, <2>5, <3>1
  <2> USE DEF n, m, rest
  <2> QED BY <2>1, <2>3, <2>4 DEF Programs
<1>5. ASSUME NEW test \in Tests
      PROVE  Setup(test) \o Body(test) \o Cleanup \in Programs
  <2> DEFINE work == Setup(test) \o Body(test)
  <2>1. work \in Seq(Before) /\ work \in Seq(Step)
    <3>1. Before \subseteq Step
      BY DEF Before
    <3> QED BY <3>1, BodyFacts
  <2> HIDE DEF work
  <2>2. \A k \in 1..Len(work) : work[k].do # "remove_dir"
    BY <2>1 DEF Before
  <2> DEFINE all == work \o Cleanup
             n == Len(work)
             m == Len(all)
  <2>3. /\ all \in Seq(Step) /\ n \in Nat /\ m = n + 2
        /\ \A k \in 1..n : all[k] = work[k]
        /\ all[n + 1] = Cleanup[1]
    <3>1. 1 \in 1..2 /\ Len(Cleanup) = 2 /\ Cleanup \in Seq(Step)
      BY <1>2
    <3>2. /\ all \in Seq(Step) /\ Len(all) = Len(work) + Len(Cleanup)
          /\ \A k \in 1..Len(work) : all[k] = work[k]
          /\ \A k \in 1..Len(Cleanup) : all[Len(work) + k] = Cleanup[k]
      BY ONLY <2>1, <3>1, ConcatFacts
    <3>3. Len(work) \in Nat
      BY <2>1
    <3> HIDE DEF all
    <3> QED BY <3>1, <3>2, <3>3
  <2> HIDE DEF n, m
  <2>4. ASSUME NEW k \in 1..m, all[k].do = "remove_dir"
        PROVE  k = m
    <3>1. k # n + 1
      BY <1>2, <2>3, <2>4
    <3>2. k \notin 1..n
      BY <2>2, <2>3, <2>4 DEF n
    <3> QED BY <2>3, <3>1, <3>2
  <2>5. all \in Programs
    BY <2>3, <2>4 DEF Programs, m
  <2> QED BY <2>5 DEF work
<1> QED BY <1>1, <1>3, <1>4, <1>5

---------------------------------------------------------------------------
(* What is on the disk. *)

\* What a test still has to do ends with the removal of its directory, and the
\* tests that are left are some of those of the run.
ProgramInv ==
    /\ selected \in Tests \cup {NULL}
    /\ left \in Seq(Tests)
    /\ \A i \in 1..Len(left) : \E k \in 1..Len(TestsOf(selected)) : TestsOf(selected)[k] = left[i]
    /\ code \in Programs /\ (code # <<>> => left # <<>>)
    /\ status = "finished" => left = <<>>

\* Only the tests that are left have a directory, whatever a run that was
\* killed has left: the run that is started again runs those tests once more.
DirInv ==
    /\ DOMAIN disk = Tests
    /\ \A test \in Tests : disk[test] # NULL => \E i \in 1..Len(left) : left[i] = test

LEMMA TestsOfFacts ==
  ASSUME NEW name \in Tests \cup {NULL}
  PROVE  TestsOf(name) \in Seq(Tests)
<1>1. CASE name = NULL
  BY <1>1, OrderFacts DEF TestsOf
<1>2. CASE name # NULL
  <2>1. name \in Tests /\ TestsOf(name) = <<name>>
    BY <1>2 DEF TestsOf
  <2>2. <<name>> \in Seq(Tests)
    <3> HIDE DEF Tests
    <3> QED BY <2>1
  <2> QED BY <2>1, <2>2
<1> QED BY <1>1, <1>2

\* Every step but these three goes on with the program of the current
\* test, or gives its rest up, and changes no directory but that of the test.
LEMMA OrdinaryStep ==
  ASSUME ProgramInv, Next
  PROVE  \/ Restart \/ NextRound \/ remove_dir_recursive
         \/ /\ UNCHANGED <<selected, left>>
            /\ code' \in Programs /\ (code' # <<>> => left # <<>>)
            /\ status' = "finished" => left = <<>>
            /\ disk' = disk \/ /\ left # <<>>
                               /\ \E files_ : disk' = [disk EXCEPT ![Head(left)] = files_]
<1> USE DEF ProgramInv
<1>1. CASE BeginTest
  <2>1. left # <<>> /\ Head(left) \in Tests
    BY <1>1 DEF BeginTest
  <2> QED BY <1>1, <2>1, ProgramFacts DEF BeginTest, suite, options, files, Test
<1>2. CASE Finish
  BY <1>2, ProgramFacts DEF Finish, options, files
<1>3. code # <<>> => Tail(code) \in Programs /\ left # <<>>
  BY ProgramFacts
<1>4. CASE create_local_temp_dir \/ MakeModDir \/ WriteFile
  BY <1>3, <1>4 DEF create_local_temp_dir, MakeModDir, WriteFile, At, Advance, Exit,
                    suite, options, Test
<1>5. CASE create_grug_state \/ destroy_grug_state \/ compile_grug_file \/ destroy_grug_file
  BY <1>3, <1>5 DEF create_grug_state, destroy_grug_state, compile_grug_file,
                    destroy_grug_file, At, Advance, suite, options, files
<1>6. CASE create_entity \/ destroy_entity \/ call_export_fn
  BY <1>3, <1>6 DEF create_entity, destroy_entity, call_export_fn, At, Advance, suite,
                    options, files
<1>7. CASE MockUpdate
  BY <1>3, <1>7 DEF MockUpdate, At, Advance, suite, options, files
<1>8. CASE Update
  BY <1>3, <1>8 DEF Update, At, Advance, suite, options, files
<1>9. CASE TestAsserts
  <2>1. code # <<>> /\ status = "running"
    BY <1>9 DEF TestAsserts, At
  <2> QED BY <1>3, <1>9, <2>1, ProgramFacts DEF TestAsserts, Advance, Exit, options, files
<1>10. CASE Ended
  BY <1>10 DEF Ended, vars, suite, options, files
<1> QED BY <1>1, <1>2, <1>4, <1>5, <1>6, <1>7, <1>8, <1>9, <1>10 DEF Next

LEMMA ProgramInvNext ==
  ASSUME ProgramInv, [Next]_vars
  PROVE  ProgramInv'
<1> USE DEF ProgramInv
<1>1. CASE Next /\ ~(Restart \/ NextRound \/ remove_dir_recursive)
  BY <1>1, OrdinaryStep
<1>2. CASE Restart \/ NextRound
  <2>1. /\ left' = TestsOf(selected) /\ selected' = selected
        /\ code' = <<>> /\ status' # "finished"
    BY <1>2 DEF Restart, NextRound, options
  <2> QED BY <2>1, TestsOfFacts, ProgramFacts
<1>3. CASE remove_dir_recursive
  <2>1. /\ code # <<>> /\ Head(code).do = "remove_dir" /\ status = "running"
        /\ code' = Tail(code) /\ left' = Tail(left)
        /\ selected' = selected /\ status' = status
    BY <1>3 DEF remove_dir_recursive, At, Advance, options
  <2>2. code' = <<>>
    BY <2>1, ProgramFacts
  <2>3. /\ left' \in Seq(Tests)
        /\ \A i \in 1..Len(left') : i + 1 \in 1..Len(left) /\ left'[i] = left[i + 1]
    BY <2>1, TailFacts
  <2> QED BY <2>1, <2>2, <2>3, ProgramFacts
<1>4. CASE UNCHANGED vars
  BY <1>4 DEF vars, suite, options
<1> QED BY <1>1, <1>2, <1>3, <1>4

LEMMA DirInvNext ==
  ASSUME ProgramInv, DirInv, [Next]_vars
  PROVE  DirInv'
<1> USE DEF DirInv
<1>1. CASE Next /\ ~(Restart \/ NextRound \/ remove_dir_recursive)
  <2>1. CASE UNCHANGED <<left, disk>>
    BY <2>1
  <2>2. ASSUME left' = left, left # <<>>,
               NEW new, disk' = [disk EXCEPT ![Head(left)] = new]
        PROVE  DirInv'
    <3>1. 1 \in 1..Len(left) /\ Head(left) = left[1]
      BY <2>2, TailFacts DEF ProgramInv
    <3> QED BY <2>2, <3>1
  <2> QED BY <1>1, <2>1, <2>2, OrdinaryStep
<1>2. CASE Restart
  <2>1. left' = TestsOf(selected) /\ disk' = disk
    BY <1>2 DEF Restart, files
  <2> QED BY <2>1 DEF ProgramInv
<1>3. CASE NextRound
  <2>1. left = <<>> /\ disk' = disk
    BY <1>3 DEF NextRound, files
  <2>2. \A test \in Tests : disk[test] = NULL
    BY <2>1
  <2> QED BY <2>1, <2>2
<1>4. CASE remove_dir_recursive
  <2>1. /\ code # <<>> /\ left' = Tail(left)
        /\ disk' = [disk EXCEPT ![Head(left)] = NULL]
    BY <1>4 DEF remove_dir_recursive, At, Test
  <2>2. left \in Seq(Tests) /\ left # <<>>
    BY <2>1 DEF ProgramInv
  <2> DEFINE n == Len(left)
             m == Len(left')
  <2>3. /\ n \in Nat /\ n > 0 /\ Head(left) = left[1] /\ m = n - 1
        /\ \A k \in 1..m : left'[k] = left[k + 1]
    BY <2>1, <2>2, TailFacts
  <2> HIDE DEF m
  <2>4. ASSUME NEW test \in Tests, disk'[test] # NULL
        PROVE  \E i \in 1..m : left'[i] = test
    <3>1. test # left[1] /\ disk[test] # NULL
      BY <2>1, <2>3, <2>4
    <3>2. PICK i \in 1..n : left[i] = test
      BY <3>1
    <3> HIDE DEF n
    <3>3. i # 1 /\ i - 1 \in 1..m
      BY <2>3, <3>1, <3>2
    <3>4. left'[i - 1] = left[i]
      BY <2>3, <3>2, <3>3
    <3> QED BY <3>2, <3>3, <3>4
  <2> QED BY <2>1, <2>4 DEF m
<1>5. CASE UNCHANGED vars
  BY <1>5 DEF vars, suite, files
<1> QED BY <1>1, <1>2, <1>3, <1>4, <1>5

---------------------------------------------------------------------------
\* No run that gets to its end leaves a directory of a hot reloading test behind,
\* neither one of its own nor one of a run that was killed before it
\* (create_local_temp_dir and remove_dir_recursive in tests.c).
THEOREM NothingLeftBehind == Spec => []DirsRemoved
<1>1. Init => ProgramInv /\ DirInv
  <2> SUFFICES ASSUME Init
               PROVE  ProgramInv /\ DirInv
    OBVIOUS
  <2>1. ProgramInv
    BY TestsOfFacts, ProgramFacts DEF Init, ProgramInv
  <2>2. DirInv
    BY DEF Init, DirInv
  <2> QED BY <2>1, <2>2
<1>2. ProgramInv /\ DirInv /\ [Next]_vars => (ProgramInv /\ DirInv)'
  BY ProgramInvNext, DirInvNext
<1>3. ProgramInv /\ DirInv => DirsRemoved
  BY DEF ProgramInv, DirInv, DirsRemoved
<1> QED BY <1>1, <1>2, <1>3, PTL DEF Spec
---------------------------------------------------------------------------
(* The tests step by step. *)

Steps(test) == Setup(test) \o Body(test) \o Cleanup

\* q is what is left of p from its step k on.
IsRest(p, q, k) ==
    /\ k \in 1..Len(p) /\ Len(q) = Len(p) - k + 1
    /\ \A i \in 1..Len(q) : q[i] = p[k + i - 1]

LEMMA CodeReloadingSteps ==
  ASSUME NEW p, p = Steps("code_reloading")
  PROVE  /\ Len(p) = 17
         /\ p[1] = Do("temp_dir") /\ p[2] = Do("mod_dir") /\ p[3] = Do("state")
         /\ p[4] = Write("script", 1) /\ p[5] = Do("compile") /\ p[6] = CreateEntity(1)
         /\ p[7] = Do("call") /\ p[8] = ExpectNumber(1)
         /\ p[9] = Write("script", 2) /\ p[10] = Do("update")
         /\ p[11] = ExpectMsg(NULL) /\ p[12] = Do("call") /\ p[13] = ExpectNumber(2)
         /\ p[14] = DestroyEntity(1) /\ p[15] = Do("destroy_file")
         /\ p[16] = Do("destroy_state") /\ p[17] = Do("remove_dir")
<1>1. p = <<Do("temp_dir"), Do("mod_dir"), Do("state")>> \o
          <<Write("script", 1), Do("compile"), CreateEntity(1), Do("call"), ExpectNumber(1),
            Write("script", 2), Do("update"), ExpectMsg(NULL), Do("call"), ExpectNumber(2),
            DestroyEntity(1), Do("destroy_file")>> \o <<Do("destroy_state"), Do("remove_dir")>>
  BY DEF Steps, Setup, Body, Cleanup
<1> QED BY ONLY <1>1

LEMMA DestroyedEntitySteps ==
  ASSUME NEW p, p = Steps("code_reloading_destroyed_entity")
  PROVE  /\ Len(p) = 17
         /\ p[1] = Do("temp_dir") /\ p[2] = Do("mod_dir") /\ p[3] = Do("state")
         /\ p[4] = Write("script", 1) /\ p[5] = Do("compile")
         /\ p[6] = CreateEntity(1) /\ p[7] = CreateEntity(2)
         /\ p[8] = ExpectIdentity(2) /\ p[9] = DestroyEntity(2)
         /\ p[10] = Write("script", 2) /\ p[11] = Do("update")
         /\ p[12] = ExpectMsg(NULL) /\ p[13] = ExpectIdentity(3)
         /\ p[14] = DestroyEntity(1) /\ p[15] = Do("destroy_file")
         /\ p[16] = Do("destroy_state") /\ p[17] = Do("remove_dir")
<1>1. p = <<Do("temp_dir"), Do("mod_dir"), Do("state")>> \o
          <<Write("script", 1), Do("compile"), CreateEntity(1), CreateEntity(2),
            ExpectIdentity(2), DestroyEntity(2), Write("script", 2), Do("update"),
            ExpectMsg(NULL), ExpectIdentity(3), DestroyEntity(1), Do("destroy_file")>> \o
          <<Do("destroy_state"), Do("remove_dir")>>
  BY DEF Steps, Setup, Body, Cleanup
<1> QED BY ONLY <1>1

LEMMA EmptyFileSteps ==
  ASSUME NEW p, p = Steps("code_reloading_empty_file")
  PROVE  /\ Len(p) = 15
         /\ p[1] = Do("temp_dir") /\ p[2] = Do("mod_dir") /\ p[3] = Do("state")
         /\ p[4] = Write("script", 1) /\ p[5] = Do("compile") /\ p[6] = CreateEntity(1)
         /\ p[7] = Write("script", Empty) /\ p[8] = Do("update")
         /\ p[9] = ExpectMsg("code_reloading_empty_file")
         /\ p[10] = Do("call") /\ p[11] = ExpectNumber(1)
         /\ p[12] = DestroyEntity(1) /\ p[13] = Do("destroy_file")
         /\ p[14] = Do("destroy_state") /\ p[15] = Do("remove_dir")
<1>1. p = <<Do("temp_dir"), Do("mod_dir"), Do("state")>> \o
          <<Write("script", 1), Do("compile"), CreateEntity(1), Write("script", Empty),
            Do("update"), ExpectMsg("code_reloading_empty_file"), Do("call"), ExpectNumber(1),
            DestroyEntity(1), Do("destroy_file")>> \o
          <<Do("destroy_state"), Do("remove_dir")>>
  BY DEF Steps, Setup, Body, Cleanup
<1> QED BY ONLY <1>1

LEMMA NewFileSteps ==
  ASSUME NEW p, p = Steps("code_reloading_new_file")
  PROVE  /\ Len(p) = 8
         /\ p[1] = Do("temp_dir") /\ p[2] = Do("state") /\ p[3] = Do("mod_dir")
         /\ p[4] = Write("script", Empty) /\ p[5] = Do("update")
         /\ p[6] = ExpectMsg("code_reloading_new_file")
         /\ p[7] = Do("destroy_state") /\ p[8] = Do("remove_dir")
<1>1. p = <<Do("temp_dir"), Do("state"), Do("mod_dir")>> \o
          <<Write("script", Empty), Do("update"), ExpectMsg("code_reloading_new_file")>> \o
          <<Do("destroy_state"), Do("remove_dir")>>
  BY DEF Steps, Setup, Body, Cleanup
<1> QED BY ONLY <1>1

LEMMA ResourceSteps ==
  ASSUME NEW p, p = Steps("resource_reloading")
  PROVE  /\ Len(p) = 20
         /\ p[1] = Do("temp_dir") /\ p[2] = Do("mod_dir") /\ p[3] = Write("existing", 1)
         /\ p[4] = Do("state") /\ p[5] = Do("update") /\ p[6] = ExpectMsg(NULL)
         /\ p[7] = ExpectNoResources /\ p[8] = Write("new", 1) /\ p[9] = Do("update")
         /\ p[10] = ExpectMsg(NULL) /\ p[11] = ExpectResources({"new"}, {"existing"})
         /\ p[12] = Write("existing", 2) /\ p[13] = Do("update")
         /\ p[14] = ExpectMsg(NULL) /\ p[15] = ExpectResources({"existing"}, {"new"})
         /\ p[16] = Do("update") /\ p[17] = ExpectMsg(NULL) /\ p[18] = ExpectNoResources
         /\ p[19] = Do("destroy_state") /\ p[20] = Do("remove_dir")
<1>1. p = <<Do("temp_dir"), Do("mod_dir"), Write("existing", 1), Do("state")>> \o
          <<Do("update"), ExpectMsg(NULL), ExpectNoResources,
            Write("new", 1), Do("update"), ExpectMsg(NULL),
            ExpectResources({"new"}, {"existing"}),
            Write("existing", 2), Do("update"), ExpectMsg(NULL),
            ExpectResources({"existing"}, {"new"}),
            Do("update"), ExpectMsg(NULL), ExpectNoResources>> \o
          <<Do("destroy_state"), Do("remove_dir")>>
  BY DEF Steps, Setup, Body, Cleanup
<1> QED BY ONLY <1>1
---------------------------------------------------------------------------
(* What holds before each step of a test.  k counts the steps of the test. *)

\* The files of the test, and what a watcher has noted of them.
Is(path, content) ==
    /\ path \in DOMAIN disk[Test] /\ disk[Test][path].content = content
    /\ disk[Test][path].time \in 0..clock
IsNoted(path) == path \in DOMAIN baseline /\ baseline[path] = disk[Test][path].time
IsStale(path) == path \in DOMAIN baseline /\ baseline[path] # disk[Test][path].time

Tracks(ids, content) == DOMAIN entities = ids /\ \A id \in ids : entities[id] = content

Rejects(faults) == implementation \in faults => Test \in rejected

Starts(first, last, k) ==
    /\ k \in 1..first \cup {last} => entities = NoEntities
    /\ k \in 1..first => game_fn_identity_call_count = 0

GrugCodeReloading(k) ==
    /\ Starts(6, 17, k)
    /\ k \in 5..9 => Is("script", 1)
    /\ k \in 6..9 => IsNoted("script")
    /\ k = 6 => program = 1
    /\ k \in 7..10 => Tracks({1}, 1)
    /\ k = 8 => game_fn_initialize_x = 1
    /\ k = 10 => Is("script", 2) /\ IsStale("script")
    /\ k = 11 => msg = NULL
    /\ IF implementation = "no_reload"
       THEN /\ k \in 11..12 => Tracks({1}, 1)
            /\ k = 13 => game_fn_initialize_x = 1
       ELSE /\ k \in 11..12 => Tracks({1}, 2)
            /\ k >= 13 => game_fn_initialize_x = 2
    /\ k >= 14 => Rejects({"no_reload"})

GrugDestroyedEntity(k) ==
    /\ Starts(6, 17, k)
    /\ k \in 5..10 => Is("script", 1)
    /\ k \in 6..10 => IsNoted("script")
    /\ k = 7 => DOMAIN entities = {1} /\ game_fn_identity_call_count = 1
    /\ k \in 8..9 => DOMAIN entities = {1, 2}
    /\ k \in 8..11 => game_fn_identity_call_count = 2
    /\ k \in 10..11 =>
          DOMAIN entities = IF implementation = "keeps_destroyed" THEN {1, 2} ELSE {1}
    /\ k = 11 => Is("script", 2) /\ IsStale("script")
    /\ k = 12 => msg = NULL
    /\ k \in 12..13 =>
          game_fn_identity_call_count = CASE implementation = "no_reload"       -> 2
                                          [] implementation = "keeps_destroyed" -> 4
                                          [] OTHER                              -> 3
    /\ k >= 14 => Rejects({"no_reload", "keeps_destroyed"})

GrugEmptyFile(k) ==
    /\ Starts(6, 15, k)
    /\ k \in 5..7 => Is("script", 1)
    /\ k \in 6..7 => IsNoted("script")
    /\ k = 6 => program = 1
    /\ k \in 7..8 => Tracks({1}, 1)
    /\ k = 8 => Is("script", Empty) /\ IsStale("script")
    /\ k = 9 => CASE implementation = "grug"            -> msg = Test
                  [] implementation = "silent_on_empty" -> msg = NULL
                  [] OTHER                              -> TRUE
    /\ k \in 9..10 => Tracks({1}, IF implementation = "empty_replaces" THEN Empty ELSE 1)
    /\ k = 11 /\ implementation # "empty_replaces" => game_fn_initialize_x = 1
    /\ k >= 10 => Rejects({"silent_on_empty"})
    /\ k >= 12 => Rejects({"empty_replaces"})

GrugNewFile(k) ==
    /\ k = 8 => entities = NoEntities
    /\ k \in 3..5 => "script" \notin DOMAIN baseline
    /\ k = 5 => Is("script", Empty)
    /\ k = 6 => CASE implementation = "grug"         -> msg = Test
                  [] implementation = "no_discovery" -> msg = NULL
                  [] OTHER                           -> TRUE
    /\ k >= 7 => Rejects({"no_discovery"})

\* Those that note what is there at first, and those of them that note a new file.
NotesExisting == implementation \in {"grug", "forgets_new", "forgets_changed"}
NotesNew == implementation \in {"grug", "forgets_changed"}

GrugResources(k) ==
    /\ k = 20 => entities = NoEntities
    /\ k = 3 => Present = {}
    /\ k \in 4..8 => Present = {"existing"}
    /\ k \in 4..12 => Is("existing", 1)
    /\ k \in 9..18 => Present = Resources
    /\ k = 5 /\ implementation = "reports_existing" => baseline = NoFiles
    /\ k \in 5..12 /\ NotesExisting => IsNoted("existing")
    /\ k \in 5..9 /\ NotesExisting => DOMAIN baseline = {"existing"}
    /\ k \in 10..13 /\ implementation = "forgets_new" => DOMAIN baseline = {"existing"}
    /\ k \in 10..16 /\ NotesNew => DOMAIN baseline = Resources /\ IsNoted("new")
    /\ k = 13 /\ NotesExisting => IsStale("existing")
    /\ k \in 14..16 /\ implementation = "grug" => IsNoted("existing")
    /\ k \in 14..16 /\ implementation = "forgets_changed" => IsStale("existing")
    /\ k \in {6, 10, 14, 17} => msg = NULL
    /\ k \in 6..7 => /\ NotesExisting => updated = {}
                     /\ implementation = "reports_existing" => updated = {"existing"}
    /\ k \in 10..11 /\ NotesExisting => updated = {"new"}
    /\ k \in 14..15 /\ implementation = "forgets_new" => updated = Resources
    /\ k \in 14..15 /\ NotesNew => updated = {"existing"}
    /\ k \in 17..18 /\ implementation = "grug" => updated = {}
    /\ k \in 17..18 /\ implementation = "forgets_changed" => updated = {"existing"}
    /\ k >= 8 => Rejects({"reports_existing"})
    /\ k >= 16 => Rejects({"forgets_new"})
    /\ k >= 19 => Rejects({"forgets_changed"})

GrugInv(k) ==
    /\ Test = "code_reloading" => GrugCodeReloading(k)
    /\ Test = "code_reloading_destroyed_entity" => GrugDestroyedEntity(k)
    /\ Test = "code_reloading_empty_file" => GrugEmptyFile(k)
    /\ Test = "code_reloading_new_file" => GrugNewFile(k)
    /\ Test = "resource_reloading" => GrugResources(k)

MockCodeReloading(k) ==
    /\ k >= 4 => mock.mods = Test
    /\ k >= 6 => mock.path = Test
    /\ mock.update_called <=> k \in 11..12
    /\ k = 8 => game_fn_initialize_x = 1
    /\ k = 11 => msg = NULL
    /\ k = 13 => game_fn_initialize_x = 2

MockDestroyedEntity(k) ==
    /\ k >= 4 => mock.mods = Test
    /\ k >= 6 => mock.path = Test
    /\ k <= 6 => game_fn_identity_call_count = 0
    /\ k = 7 => game_fn_identity_call_count = 1
    /\ k \in 8..11 => game_fn_identity_call_count = 2
    /\ k = 12 => msg = NULL
    /\ k \in 12..13 => game_fn_identity_call_count = 3

MockEmptyFile(k) ==
    /\ k >= 4 => mock.mods = Test
    /\ k >= 6 => mock.path = Test
    /\ k = 9 => msg = Test
    /\ k = 11 => game_fn_initialize_x = 1

MockNewFile(k) ==
    /\ k >= 3 => mock.mods = Test
    /\ k = 6 => msg = Test

MockResources(k) ==
    /\ k >= 5 => mock.mods = Test
    /\ k = 5 => mock.update_count = 0
    /\ k \in 6..9 => mock.update_count = 1
    /\ k \in 10..13 => mock.update_count = 2
    /\ k \in 14..16 => mock.update_count = 3
    /\ k \in {6, 10, 14, 17} => msg = NULL
    /\ k \in 6..7 \cup 17..18 => updated = {}
    /\ k \in 10..11 => updated = {"new"}
    /\ k \in 14..15 => updated = {"existing"}

MockInv(k) ==
    /\ Test # "code_reloading" => ~mock.update_called
    /\ Test = "code_reloading" => MockCodeReloading(k)
    /\ Test = "code_reloading_destroyed_entity" => MockDestroyedEntity(k)
    /\ Test = "code_reloading_empty_file" => MockEmptyFile(k)
    /\ Test = "code_reloading_new_file" => MockNewFile(k)
    /\ Test = "resource_reloading" => MockResources(k)

\* Between two tests.
Between ==
    /\ ~IsMock => entities = NoEntities
    /\ IsMock => ~mock.update_called

\* The directory of the test is new when the mod's directory is made in it.
MakesDir(k) ==
    k = 2 \/ (k = 3 /\ Test = "code_reloading_new_file") => disk[Test] = NoFiles

StepInv(k) ==
    /\ MakesDir(k)
    /\ IF IsMock THEN MockInv(k) ELSE GrugInv(k)

PlaceInv == status = "running" =>
        IF code = <<>> THEN Between
        ELSE \E k \in 1..Len(Steps(Test)) : IsRest(Steps(Test), code, k) /\ StepInv(k)

\* A call that does not set game_fn_initialize_x leaves what the test expects of
\* the call to no earlier one.
LeftBehindInv ==
    /\ implementation = "empty_replaces"
    /\ \/ selected = NULL /\ left # <<>> /\ Test # "code_reloading"
       \/ selected = "code_reloading_empty_file"
    => game_fn_initialize_x # 1

\* A test that has still to reject a faulty implementation is left.
TargetsInv ==
    \A test \in Tests :
        selected \in {test, NULL} /\ implementation \in Targets[test]
            => test \in rejected \/ \E i \in 1..Len(left) : left[i] = test

KindInv ==
    /\ implementation \in {"mock", "grug"} \cup Faults
    /\ clock \in Nat
    /\ mock \in [update_called : BOOLEAN, update_count : Nat,
                 path : Tests \cup {NULL, "other"}, mods : Tests \cup {NULL}]

RunInv == KindInv /\ PlaceInv /\ LeftBehindInv /\ TargetsInv /\ CorrectAccepted

LEMMA FieldFacts ==
  /\ \A step : Do(step).do = step
  /\ \A path, content : LET step == Write(path, content) IN
        step.do = "write" /\ step.path = path /\ step.content = content
  /\ \A id : CreateEntity(id).do = "create" /\ CreateEntity(id).id = id
  /\ \A id : DestroyEntity(id).do = "destroy" /\ DestroyEntity(id).id = id
  /\ \A n : ExpectNumber(n).do = "expect_number" /\ ExpectNumber(n).n = n
  /\ \A n : ExpectIdentity(n).do = "expect_identity" /\ ExpectIdentity(n).n = n
  /\ \A of : ExpectMsg(of).do = "expect_msg" /\ ExpectMsg(of).of = of
  /\ \A some, none : LET step == ExpectResources(some, none) IN
        step.do = "expect_resources" /\ step.some = some /\ step.none = none
  /\ LET step == ExpectNoResources IN
        step.do = "expect_resources" /\ step.some = {} /\ step.none = Resources
BY DEF Do, Write, CreateEntity, DestroyEntity, ExpectNumber, ExpectIdentity, ExpectMsg,
       ExpectResources, ExpectNoResources

\* The next step, and what is left after it.
LEMMA RestFacts ==
  ASSUME NEW p, NEW q \in Seq(Step), NEW k, IsRest(p, q, k), Len(p) \in Nat
  PROVE  /\ q # <<>> /\ k \in 1..Len(p) /\ Head(q) = p[k]
         /\ k < Len(p) => Tail(q) # <<>> /\ IsRest(p, Tail(q), k + 1)
         /\ k = Len(p) => Tail(q) = <<>>
<1> HIDE DEF Step
<1>1. Len(q) = Len(p) - k + 1 /\ k \in 1..Len(p) /\ \A i \in 1..Len(q) : q[i] = p[k + i - 1]
  BY DEF IsRest
<1>2. Len(q) > 0 /\ q # <<>>
  BY <1>1
<1> DEFINE rest == Tail(q)
<1>3. /\ Head(q) = q[1] /\ rest \in Seq(Step) /\ Len(rest) = Len(q) - 1
      /\ \A i \in 1..Len(rest) : rest[i] = q[i + 1]
  BY <1>2, TailFacts
<1> HIDE DEF rest
<1>4. Head(q) = p[k]
  <2>1. 1 \in 1..Len(q) /\ k + 1 - 1 = k
    BY <1>1, <1>2
  <2> QED BY <1>1, <1>3, <2>1
<1>5. k = Len(p) => rest = <<>>
  BY <1>1, <1>3
<1>6. ASSUME k < Len(p)
      PROVE  rest # <<>> /\ IsRest(p, rest, k + 1)
  <2>1. Len(rest) = Len(p) - (k + 1) + 1 /\ k + 1 \in 1..Len(p) /\ Len(rest) > 0
    BY <1>1, <1>3, <1>6
  <2>2. ASSUME NEW i \in 1..Len(rest)
        PROVE  rest[i] = p[(k + 1) + i - 1]
    <3>1. i + 1 \in 1..Len(q) /\ k + (i + 1) - 1 = (k + 1) + i - 1
      BY <1>1, <1>3, <2>1
    <3> QED BY <1>1, <1>3, <3>1
  <2>3. rest # <<>>
    BY <2>1
  <2> QED BY <2>1, <2>2, <2>3 DEF IsRest
<1> QED BY <1>1, <1>2, <1>4, <1>5, <1>6 DEF rest

---------------------------------------------------------------------------
(* What each step does. *)

\* A step of a test is about to be made.
InTest ==
    /\ status = "running" /\ code # <<>> /\ left # <<>>
    /\ Test \in Tests /\ DOMAIN disk = Tests /\ clock \in Nat

\* The test goes on with its next step.
GoesOn ==
    /\ code' = Tail(code) /\ status' = status /\ rejected' = rejected
    /\ left' = left /\ selected' = selected /\ implementation' = implementation

LEMMA TheAction ==
  ASSUME InTest, Next, ~Restart
  PROVE  LET do == Head(code).do IN
         /\ do = "temp_dir" => create_local_temp_dir
         /\ do = "mod_dir" => MakeModDir
         /\ do = "write" => WriteFile
         /\ do = "remove_dir" => remove_dir_recursive
         /\ do = "state" => create_grug_state
         /\ do = "destroy_state" => destroy_grug_state
         /\ do = "compile" => compile_grug_file
         /\ do = "destroy_file" => destroy_grug_file
         /\ do = "create" => create_entity
         /\ do = "destroy" => destroy_entity
         /\ do = "call" => call_export_fn
         /\ do = "update" => IF IsMock THEN MockUpdate ELSE Update
         /\ do \in {"expect_number", "expect_identity", "expect_msg", "expect_resources"}
               => TestAsserts
<1> DEFINE do == Head(code).do
<1>1. ~BeginTest /\ ~NextRound /\ ~Finish /\ ~Ended
  BY DEF BeginTest, NextRound, Finish, Ended, InTest
<1>2. /\ create_local_temp_dir => do = "temp_dir"
      /\ MakeModDir => do = "mod_dir"
      /\ WriteFile => do = "write"
      /\ remove_dir_recursive => do = "remove_dir"
  BY DEF create_local_temp_dir, MakeModDir, WriteFile, remove_dir_recursive, At
<1>3. /\ create_grug_state => do = "state"
      /\ destroy_grug_state => do = "destroy_state"
      /\ compile_grug_file => do = "compile"
      /\ destroy_grug_file => do = "destroy_file"
  BY DEF create_grug_state, destroy_grug_state, compile_grug_file, destroy_grug_file, At
<1>4. /\ create_entity => do = "create"
      /\ destroy_entity => do = "destroy"
      /\ call_export_fn => do = "call"
      /\ MockUpdate => do = "update" /\ IsMock
      /\ Update => do = "update" /\ ~IsMock
  BY DEF create_entity, destroy_entity, call_export_fn, MockUpdate, Update, At
<1>5. TestAsserts => do \in {"expect_number", "expect_identity", "expect_msg", "expect_resources"}
  BY DEF TestAsserts, At
<1> HIDE DEF do
<1>6. \/ create_local_temp_dir \/ MakeModDir \/ WriteFile \/ remove_dir_recursive
      \/ create_grug_state \/ destroy_grug_state \/ compile_grug_file \/ destroy_grug_file
      \/ create_entity \/ destroy_entity \/ call_export_fn \/ MockUpdate \/ Update
      \/ TestAsserts
  BY <1>1 DEF Next
<1>7. /\ do = "temp_dir" => create_local_temp_dir
      /\ do = "mod_dir" => MakeModDir
      /\ do = "write" => WriteFile
      /\ do = "remove_dir" => remove_dir_recursive
      /\ do = "state" => create_grug_state
      /\ do = "destroy_state" => destroy_grug_state
      /\ do = "compile" => compile_grug_file
  BY <1>2, <1>3, <1>4, <1>5, <1>6
<1>8. /\ do = "destroy_file" => destroy_grug_file
      /\ do = "create" => create_entity
      /\ do = "destroy" => destroy_entity
      /\ do = "call" => call_export_fn
      /\ do = "update" => IF IsMock THEN MockUpdate ELSE Update
      /\ do \in {"expect_number", "expect_identity", "expect_msg", "expect_resources"}
            => TestAsserts
  BY <1>2, <1>3, <1>4, <1>5, <1>6
<1> QED BY <1>7, <1>8 DEF do

LEMMA DoTempDir ==
  ASSUME InTest, Next, ~Restart, Head(code).do = "temp_dir"
  PROVE  /\ GoesOn /\ disk'[Test] = NoFiles
         /\ clock' = clock /\ program' = program /\ baseline' = baseline
         /\ entities' = entities /\ updated' = updated /\ msg' = msg /\ mock' = mock
         /\ game_fn_initialize_x' = game_fn_initialize_x
         /\ game_fn_identity_call_count' = game_fn_identity_call_count
<1>1. create_local_temp_dir
  BY TheAction
<1> QED BY <1>1 DEF InTest, create_local_temp_dir, GoesOn, Advance, suite, options, state, game

LEMMA DoModDir ==
  ASSUME InTest, Next, ~Restart, Head(code).do = "mod_dir", disk[Test] = NoFiles
  PROVE  /\ GoesOn /\ DOMAIN disk'[Test] = {"mod"}
         /\ clock' = clock /\ program' = program /\ baseline' = baseline
         /\ entities' = entities /\ updated' = updated /\ msg' = msg /\ mock' = mock
         /\ game_fn_initialize_x' = game_fn_initialize_x
         /\ game_fn_identity_call_count' = game_fn_identity_call_count
<1>1. MakeModDir
  BY TheAction
<1>2. "mod" \notin DOMAIN disk[Test]
  BY DEF NoFiles
<1> QED BY <1>1, <1>2 DEF InTest, MakeModDir, GoesOn, Advance, Put, NoFiles, options, state, game

LEMMA DoWrite ==
  ASSUME InTest, Next, ~Restart, Head(code).do = "write", NEW path, path = Head(code).path
  PROVE  /\ GoesOn /\ clock' = clock + 1
         /\ disk'[Test] = Put(disk[Test], path,
                              [content |-> Head(code).content, time |-> clock + 1])
         /\ program' = program /\ baseline' = baseline
         /\ entities' = entities /\ updated' = updated /\ msg' = msg /\ mock' = mock
         /\ game_fn_initialize_x' = game_fn_initialize_x
         /\ game_fn_identity_call_count' = game_fn_identity_call_count
<1>1. WriteFile
  BY TheAction
<1> QED BY <1>1 DEF InTest, WriteFile, GoesOn, Advance, suite, options, state, game

LEMMA DoState ==
  ASSUME InTest, Next, ~Restart, Head(code).do = "state"
  PROVE  /\ GoesOn
         /\ baseline' = IF implementation = "reports_existing" THEN NoFiles ELSE Times
         /\ mock' = [mock EXCEPT !.mods = Test,
                            !.update_count = IF Test = "resource_reloading" THEN 0 ELSE @]
         /\ disk' = disk /\ clock' = clock /\ program' = program
         /\ entities' = entities /\ msg' = msg
         /\ game_fn_initialize_x' = game_fn_initialize_x
         /\ game_fn_identity_call_count' = game_fn_identity_call_count
<1>1. create_grug_state
  BY TheAction
<1> QED BY <1>1 DEF create_grug_state, GoesOn, Advance, suite, options, files, game

LEMMA DoDestroyState ==
  ASSUME InTest, Next, ~Restart, Head(code).do = "destroy_state"
  PROVE  /\ GoesOn /\ entities' = NoEntities
         /\ clock' = clock /\ mock' = mock
         /\ game_fn_initialize_x' = game_fn_initialize_x
<1>1. destroy_grug_state
  BY TheAction
<1> QED BY <1>1 DEF destroy_grug_state, GoesOn, Advance, suite, options, files, game

LEMMA DoCompile ==
  ASSUME InTest, Next, ~Restart, Head(code).do = "compile"
  PROVE  /\ GoesOn /\ program' = disk[Test]["script"].content
         /\ baseline' = Put(baseline, "script", Times["script"])
         /\ mock' = [mock EXCEPT !.path = Test]
         /\ disk' = disk /\ clock' = clock
         /\ entities' = entities /\ updated' = updated /\ msg' = msg
         /\ game_fn_initialize_x' = game_fn_initialize_x
         /\ game_fn_identity_call_count' = game_fn_identity_call_count
<1>1. compile_grug_file
  BY TheAction
<1> QED BY <1>1 DEF compile_grug_file, GoesOn, Advance, suite, options, files, game

LEMMA DoDestroyFile ==
  ASSUME InTest, Next, ~Restart, Head(code).do = "destroy_file"
  PROVE  /\ GoesOn /\ clock' = clock /\ mock' = mock
         /\ game_fn_initialize_x' = game_fn_initialize_x
<1>1. destroy_grug_file
  BY TheAction
<1> QED BY <1>1 DEF destroy_grug_file, GoesOn, Advance, suite, options, files, game

LEMMA DoCreate ==
  ASSUME InTest, Next, ~Restart, Head(code).do = "create"
  PROVE  /\ GoesOn /\ entities' = Put(entities, Head(code).id, program)
         /\ mock' = [mock EXCEPT !.path = Test]
         /\ game_fn_identity_call_count' = game_fn_identity_call_count
               + IF Test = "code_reloading_destroyed_entity" THEN 1 ELSE 0
         /\ disk' = disk /\ clock' = clock /\ program' = program /\ baseline' = baseline
         /\ updated' = updated /\ msg' = msg
         /\ game_fn_initialize_x' = game_fn_initialize_x
<1>1. create_entity
  BY TheAction
<1> QED BY <1>1 DEF create_entity, CountIdentity, GoesOn, Advance, suite, options, files

LEMMA DoDestroy ==
  ASSUME InTest, Next, ~Restart, Head(code).do = "destroy"
  PROVE  /\ GoesOn
         /\ entities' = IF implementation = "keeps_destroyed" THEN entities
                        ELSE Keep(entities, 1..2 \ {Head(code).id})
         /\ disk' = disk /\ clock' = clock /\ program' = program /\ baseline' = baseline
         /\ updated' = updated /\ msg' = msg /\ mock' = mock
         /\ game_fn_initialize_x' = game_fn_initialize_x
         /\ game_fn_identity_call_count' = game_fn_identity_call_count
<1>1. destroy_entity
  BY TheAction
<1> QED BY <1>1 DEF destroy_entity, GoesOn, Advance, suite, options, files, game

LEMMA DoCall ==
  ASSUME InTest, Next, ~Restart, Head(code).do = "call"
  PROVE  /\ GoesOn
         /\ game_fn_initialize_x' =
               IF ~IsMock THEN IF entities[1] = Empty THEN game_fn_initialize_x ELSE entities[1]
               ELSE IF mock.path = "code_reloading" /\ mock.update_called THEN 2 ELSE 1
         /\ mock' = [mock EXCEPT !.update_called = FALSE]
         /\ disk' = disk /\ clock' = clock /\ program' = program /\ baseline' = baseline
         /\ entities' = entities /\ updated' = updated /\ msg' = msg
         /\ game_fn_identity_call_count' = game_fn_identity_call_count
<1>1. call_export_fn
  BY TheAction
<1> QED BY <1>1 DEF call_export_fn, GoesOn, Advance, suite, options, files

\* An assertion changes only the outcome.  One that fails goes on with the
\* clean-up, or ends the process.
LEMMA DoAssert ==
  ASSUME InTest, Next, ~Restart,
         Head(code).do \in {"expect_number", "expect_identity", "expect_msg", "expect_resources"}
  PROVE  /\ left' = left /\ selected' = selected /\ implementation' = implementation
         /\ IF Holds(Head(code)) THEN GoesOn
            ELSE /\ rejected' = rejected \cup {Test}
                 /\ status' = "exited" \/ (status' = "running" /\ code' = Cleanup)
         /\ disk' = disk /\ clock' = clock /\ program' = program /\ baseline' = baseline
         /\ entities' = entities /\ updated' = updated /\ msg' = msg /\ mock' = mock
         /\ game_fn_initialize_x' = game_fn_initialize_x
         /\ game_fn_identity_call_count' = game_fn_identity_call_count
<1>1. TestAsserts
  BY TheAction
<1>2. /\ left' = left /\ selected' = selected /\ implementation' = implementation
      /\ disk' = disk /\ clock' = clock /\ program' = program /\ baseline' = baseline
      /\ entities' = entities /\ updated' = updated /\ msg' = msg /\ mock' = mock
      /\ game_fn_initialize_x' = game_fn_initialize_x
      /\ game_fn_identity_call_count' = game_fn_identity_call_count
  BY <1>1 DEF TestAsserts, options, files, state, game
<1>3. IF Holds(Head(code)) THEN GoesOn
      ELSE /\ rejected' = rejected \cup {Test}
           /\ status' = "exited" \/ (status' = "running" /\ code' = Cleanup)
  BY <1>1, <1>2 DEF TestAsserts, GoesOn, Advance, Exit, InTest
<1> QED BY <1>2, <1>3

LEMMA DoMockUpdate ==
  ASSUME InTest, Next, ~Restart, Head(code).do = "update", IsMock
  PROVE  /\ GoesOn /\ disk' = disk /\ clock' = clock
         /\ mock.mods = "resource_reloading" =>
              /\ updated' = CASE mock.update_count = 1 -> {"new"}
                              [] mock.update_count = 2 -> {"existing"}
                              [] OTHER                 -> {}
              /\ mock' = [mock EXCEPT !.update_count = @ + 1] /\ msg' = NULL
         /\ mock.mods = "code_reloading_new_file" =>
              msg' = "code_reloading_new_file" /\ mock' = mock
         /\ mock.mods \notin {"resource_reloading", "code_reloading_new_file"} =>
              IF mock.path = "code_reloading_empty_file"
              THEN msg' = "code_reloading_empty_file" /\ mock' = mock
              ELSE /\ msg' = NULL
                   /\ IF mock.mods = "code_reloading_destroyed_entity"
                      THEN /\ mock' = mock
                           /\ game_fn_identity_call_count' = game_fn_identity_call_count
                                + IF Test = "code_reloading_destroyed_entity" THEN 1 ELSE 0
                      ELSE mock' = [mock EXCEPT !.update_called = TRUE]
         /\ game_fn_initialize_x' = game_fn_initialize_x
<1>1. MockUpdate
  BY TheAction
<1>2. GoesOn /\ disk' = disk /\ clock' = clock
  BY <1>1 DEF MockUpdate, GoesOn, Advance, suite, options, files
<1> QED BY <1>1, <1>2 DEF MockUpdate, CountIdentity, game

LEMMA DoUpdate ==
  ASSUME InTest, Next, ~Restart, Head(code).do = "update", ~IsMock,
         NEW content, content = disk[Test]["script"].content,
         NEW compiles,
         compiles = ("script" \in Changed /\
                     (content # Empty \/ implementation = "empty_replaces"))
  PROVE  /\ GoesOn /\ disk' = disk /\ clock' = clock /\ mock' = mock
         /\ msg' = IF /\ "script" \in Changed /\ content = Empty
                      /\ implementation # "silent_on_empty"
                   THEN Test ELSE NULL
         /\ updated' = Changed \cap Resources
         /\ baseline' = Noted
         /\ game_fn_initialize_x' = game_fn_initialize_x
         /\ compiles => /\ entities' = [id \in DOMAIN entities |-> content]
                        /\ game_fn_identity_call_count' = game_fn_identity_call_count
                             + IF Test = "code_reloading_destroyed_entity"
                               THEN Cardinality(DOMAIN entities) ELSE 0
         /\ ~compiles => /\ entities' = entities
                         /\ game_fn_identity_call_count' = game_fn_identity_call_count
<1>1. Update
  BY TheAction
<1>2. /\ GoesOn /\ disk' = disk /\ clock' = clock /\ mock' = mock
      /\ updated' = Changed \cap Resources
      /\ baseline' = Noted
  BY <1>1 DEF Update, GoesOn, Advance, suite, options, files
<1>3. msg' = IF /\ "script" \in Changed /\ content = Empty
                /\ implementation # "silent_on_empty"
             THEN Test ELSE NULL
  BY <1>1 DEF Update
<1>4. compiles => /\ entities' = [id \in DOMAIN entities |-> content]
                  /\ game_fn_identity_call_count' = game_fn_identity_call_count
                       + IF Test = "code_reloading_destroyed_entity"
                         THEN Cardinality(DOMAIN entities) ELSE 0
                  /\ game_fn_initialize_x' = game_fn_initialize_x
  BY <1>1 DEF Update, CountIdentity
<1>5. ~compiles => /\ entities' = entities
                   /\ game_fn_identity_call_count' = game_fn_identity_call_count
                   /\ game_fn_initialize_x' = game_fn_initialize_x
  BY <1>1 DEF Update, game
<1> QED BY <1>2, <1>3, <1>4, <1>5

---------------------------------------------------------------------------
(* What each step of a test does to what is known before it, when the      *)
(* implementation is grug or a faulty one.                                 *)

\* A failed assertion.
Fails ==
    /\ left' = left /\ selected' = selected /\ implementation' = implementation
    /\ rejected' = rejected \cup {Test}
    /\ status' = "exited" \/ (status' = "running" /\ code' = Cleanup)

GrugStep(step) == InTest /\ KindInv /\ ~IsMock /\ Next /\ ~Restart /\ Head(code) = step

\* What is known of the files is known after the step.
KeepsFiles ==
    /\ Present' = Present /\ baseline' = baseline
    /\ \A path, content : Is(path, content) => Is(path, content)'
    /\ \A path : IsNoted(path) => IsNoted(path)'
    /\ \A path : IsStale(path) => IsStale(path)'

KeepsEntities ==
    /\ entities' = entities
    /\ \A ids, content : Tracks(ids, content) => Tracks(ids, content)'

LEMMA KeptFiles ==
  ASSUME left' = left, disk' = disk, clock' = clock, baseline' = baseline
  PROVE  KeepsFiles
<1>1. Test' = Test
  BY DEF Test
<1>2. \A path, content : Is(path, content) => Is(path, content)'
  BY <1>1 DEF Is
<1>3. Present' = Present
  BY <1>1 DEF Present
<1>4. \A path : (IsNoted(path) => IsNoted(path)') /\ (IsStale(path) => IsStale(path)')
  BY <1>1 DEF IsNoted, IsStale
<1> QED BY <1>2, <1>3, <1>4 DEF KeepsFiles

LEMMA KeptEntities ==
  ASSUME entities' = entities
  PROVE  KeepsEntities
BY DEF KeepsEntities, Tracks

LEMMA SameTest ==
  ASSUME GoesOn \/ Fails
  PROVE  Test' = Test
BY DEF GoesOn, Fails, Test

LEMMA GrugTempDir ==
  ASSUME GrugStep(Do("temp_dir"))
  PROVE  /\ GoesOn /\ KeepsEntities
         /\ disk'[Test] = NoFiles
         /\ game_fn_initialize_x' = game_fn_initialize_x
         /\ game_fn_identity_call_count' = game_fn_identity_call_count
BY DoTempDir, FieldFacts, KeptEntities DEF GrugStep

LEMMA GrugModDir ==
  ASSUME GrugStep(Do("mod_dir")), disk[Test] = NoFiles
  PROVE  /\ GoesOn /\ KeepsEntities
         /\ Present' = {} /\ baseline' = baseline
         /\ game_fn_initialize_x' = game_fn_initialize_x
         /\ game_fn_identity_call_count' = game_fn_identity_call_count
<1>1. /\ GoesOn /\ KeepsEntities
      /\ DOMAIN disk'[Test] = {"mod"} /\ baseline' = baseline
      /\ game_fn_initialize_x' = game_fn_initialize_x
      /\ game_fn_identity_call_count' = game_fn_identity_call_count
  BY DoModDir, FieldFacts, KeptEntities DEF GrugStep
<1>2. "mod" \notin Paths
  BY DEF Paths, Resources
<1>3. Present' = {}
  BY <1>1, <1>2, SameTest DEF Present
<1> QED BY <1>1, <1>3

LEMMA GrugState ==
  ASSUME GrugStep(Do("state"))
  PROVE  /\ GoesOn /\ KeepsEntities
         /\ disk' = disk /\ Present' = Present
         /\ \A path, content : Is(path, content) => Is(path, content)'
         /\ IF implementation = "reports_existing" THEN baseline' = NoFiles
            ELSE DOMAIN baseline' = Present /\ \A path \in Present : IsNoted(path)'
         /\ game_fn_initialize_x' = game_fn_initialize_x
         /\ game_fn_identity_call_count' = game_fn_identity_call_count
<1>1. /\ GoesOn /\ KeepsEntities /\ disk' = disk /\ clock' = clock
      /\ baseline' = IF implementation = "reports_existing" THEN NoFiles ELSE Times
      /\ game_fn_initialize_x' = game_fn_initialize_x
      /\ game_fn_identity_call_count' = game_fn_identity_call_count
  BY DoState, FieldFacts, KeptEntities DEF GrugStep
<1>2. Test' = Test
  BY <1>1, SameTest
<1>3. Present' = Present /\ \A path, content : Is(path, content) => Is(path, content)'
  BY <1>1, <1>2 DEF Present, Is
<1>4. implementation # "reports_existing" =>
         DOMAIN baseline' = Present /\ \A path \in Present : IsNoted(path)'
  BY <1>1, <1>2 DEF Times, IsNoted
<1> QED BY <1>1, <1>3, <1>4

LEMMA GrugWrite ==
  ASSUME NEW path \in Paths, NEW content, GrugStep(Write(path, content))
  PROVE  /\ GoesOn /\ KeepsEntities
         /\ Is(path, content)'
         /\ Present' = Present \cup {path} /\ baseline' = baseline
         /\ \A other \in Paths \ {path} : \A c : Is(other, c) => Is(other, c)'
         /\ \A other \in Present \ {path} : IsNoted(other) => IsNoted(other)'
         /\ \A c : Is(path, c) /\ IsNoted(path) => IsStale(path)'
         /\ game_fn_initialize_x' = game_fn_initialize_x
         /\ game_fn_identity_call_count' = game_fn_identity_call_count
<1>1. /\ GoesOn /\ clock' = clock + 1 /\ baseline' = baseline /\ clock \in Nat
      /\ disk'[Test] = Put(disk[Test], path, [content |-> content, time |-> clock + 1])
      /\ KeepsEntities
      /\ game_fn_initialize_x' = game_fn_initialize_x
      /\ game_fn_identity_call_count' = game_fn_identity_call_count
  BY DoWrite, FieldFacts, KeptEntities DEF GrugStep, InTest
<1>2. /\ DOMAIN disk'[Test] = DOMAIN disk[Test] \cup {path}
      /\ disk'[Test][path].content = content
      /\ disk'[Test][path].time = clock + 1
      /\ \A other \in DOMAIN disk[Test] \ {path} : disk'[Test][other] = disk[Test][other]
  BY <1>1 DEF Put
<1>3. Test' = Test
  BY <1>1, SameTest
<1>4. Is(path, content)'
  BY <1>1, <1>2, <1>3 DEF Is
<1>5. Present' = Present \cup {path}
  BY <1>1, <1>2, <1>3 DEF Present
<1>6. \A other \in Paths \ {path} : \A c : Is(other, c) => Is(other, c)'
  BY <1>1, <1>2, <1>3 DEF Is
<1>7. \A other \in Present \ {path} : IsNoted(other) => IsNoted(other)'
  BY <1>1, <1>2, <1>3 DEF Present, IsNoted
<1>8. \A c : Is(path, c) /\ IsNoted(path) => IsStale(path)'
  BY <1>1, <1>2, <1>3 DEF Is, IsNoted, IsStale
<1> QED BY <1>1, <1>4, <1>5, <1>6, <1>7, <1>8

LEMMA GrugCompile ==
  ASSUME NEW content, GrugStep(Do("compile")), Is("script", content)
  PROVE  /\ GoesOn /\ KeepsEntities
         /\ Is("script", content)' /\ IsNoted("script")' /\ program' = content
         /\ game_fn_initialize_x' = game_fn_initialize_x
         /\ game_fn_identity_call_count' = game_fn_identity_call_count
<1>1. /\ GoesOn /\ KeepsEntities /\ disk' = disk /\ clock' = clock
      /\ program' = disk[Test]["script"].content
      /\ baseline' = Put(baseline, "script", Times["script"])
      /\ game_fn_initialize_x' = game_fn_initialize_x
      /\ game_fn_identity_call_count' = game_fn_identity_call_count
  BY DoCompile, FieldFacts, KeptEntities DEF GrugStep
<1>2. Test' = Test
  BY <1>1, SameTest
<1>3. Is("script", content)' /\ program' = content
  BY <1>1, <1>2 DEF Is
<1>4. IsNoted("script")'
  BY <1>1, <1>2 DEF Is, IsNoted, Put, Times, Present, Paths
<1> QED BY <1>1, <1>3, <1>4

LEMMA GrugDestroyState ==
  ASSUME GrugStep(Do("destroy_state"))
  PROVE  /\ GoesOn /\ entities' = NoEntities
         /\ game_fn_initialize_x' = game_fn_initialize_x
BY DoDestroyState, FieldFacts DEF GrugStep

LEMMA GrugDestroyFile ==
  ASSUME GrugStep(Do("destroy_file"))
  PROVE  GoesOn /\ game_fn_initialize_x' = game_fn_initialize_x
BY DoDestroyFile, FieldFacts DEF GrugStep

LEMMA GrugCreate ==
  ASSUME NEW id, GrugStep(CreateEntity(id))
  PROVE  /\ GoesOn /\ KeepsFiles
         /\ DOMAIN entities' = DOMAIN entities \cup {id}
         /\ \A content :
               entities = NoEntities /\ program = content => Tracks({id}, content)'
         /\ game_fn_initialize_x' = game_fn_initialize_x
         /\ game_fn_identity_call_count' = game_fn_identity_call_count
               + IF Test = "code_reloading_destroyed_entity" THEN 1 ELSE 0
<1>1. Head(code).do = "create" /\ Head(code).id = id
  BY FieldFacts DEF GrugStep
<1>2. /\ GoesOn /\ entities' = Put(entities, id, program) /\ program' = program
      /\ disk' = disk /\ clock' = clock /\ baseline' = baseline
      /\ game_fn_initialize_x' = game_fn_initialize_x
      /\ game_fn_identity_call_count' = game_fn_identity_call_count
               + IF Test = "code_reloading_destroyed_entity" THEN 1 ELSE 0
  BY <1>1, DoCreate DEF GrugStep
<1>3. KeepsFiles
  BY <1>2, KeptFiles DEF GoesOn
<1>4. DOMAIN entities' = DOMAIN entities \cup {id}
  BY <1>2 DEF Put
<1>5. \A content : entities = NoEntities /\ program = content => Tracks({id}, content)'
  BY <1>2 DEF Put, NoEntities, Tracks
<1> QED BY <1>2, <1>3, <1>4, <1>5

LEMMA GrugDestroy ==
  ASSUME NEW id, GrugStep(DestroyEntity(id))
  PROVE  /\ GoesOn /\ KeepsFiles
         /\ implementation = "keeps_destroyed" => entities' = entities
         /\ implementation # "keeps_destroyed" =>
               DOMAIN entities' = DOMAIN entities \cap (1..2 \ {id})
         /\ game_fn_initialize_x' = game_fn_initialize_x
         /\ game_fn_identity_call_count' = game_fn_identity_call_count
<1>1. Head(code).do = "destroy" /\ Head(code).id = id
  BY FieldFacts DEF GrugStep
<1>2. /\ GoesOn
      /\ entities' = IF implementation = "keeps_destroyed" THEN entities
                     ELSE Keep(entities, 1..2 \ {id})
      /\ disk' = disk /\ clock' = clock /\ baseline' = baseline
      /\ game_fn_initialize_x' = game_fn_initialize_x
      /\ game_fn_identity_call_count' = game_fn_identity_call_count
  BY <1>1, DoDestroy DEF GrugStep
<1>3. KeepsFiles
  BY <1>2, KeptFiles DEF GoesOn
<1> QED BY <1>2, <1>3 DEF Keep

LEMMA GrugCall ==
  ASSUME NEW content, GrugStep(Do("call")), Tracks({1}, content)
  PROVE  /\ GoesOn /\ KeepsFiles /\ KeepsEntities
         /\ game_fn_initialize_x' = IF content = Empty THEN game_fn_initialize_x ELSE content
<1>1. /\ GoesOn /\ entities' = entities
      /\ disk' = disk /\ clock' = clock /\ baseline' = baseline
      /\ game_fn_initialize_x' = IF entities[1] = Empty THEN game_fn_initialize_x ELSE entities[1]
  BY DoCall, FieldFacts DEF GrugStep
<1>2. KeepsFiles /\ KeepsEntities
  BY <1>1, KeptFiles, KeptEntities DEF GoesOn
<1> QED BY <1>1, <1>2 DEF Tracks

LEMMA HoldsFacts ==
  /\ \A n : Holds(ExpectNumber(n)) <=> game_fn_initialize_x = n
  /\ \A n : Holds(ExpectIdentity(n)) <=> game_fn_identity_call_count = n
  /\ \A of : Holds(ExpectMsg(of)) <=> msg = of
  /\ \A some, none : Holds(ExpectResources(some, none)) <=>
        some \subseteq updated /\ updated \cap none = {}
  /\ Holds(ExpectNoResources) <=> updated \cap Resources = {}
<1>1. \A n : Holds(ExpectNumber(n)) <=> game_fn_initialize_x = n
  BY DEF Holds, ExpectNumber
<1>2. \A n : Holds(ExpectIdentity(n)) <=> game_fn_identity_call_count = n
  BY DEF Holds, ExpectIdentity
<1>3. \A of : Holds(ExpectMsg(of)) <=> msg = of
  BY DEF Holds, ExpectMsg
<1>4. \A some, none : Holds(ExpectResources(some, none)) <=>
        some \subseteq updated /\ updated \cap none = {}
  BY DEF Holds, ExpectResources
<1>5. Holds(ExpectNoResources) <=> updated \cap Resources = {}
  BY DEF Holds, ExpectNoResources
<1> QED BY <1>1, <1>2, <1>3, <1>4, <1>5

\* The steps that assert something.
Asserts(step) ==
    \/ \E n : step \in {ExpectNumber(n), ExpectIdentity(n)}
    \/ \E of : step = ExpectMsg(of)
    \/ \E some, none : step = ExpectResources(some, none)
    \/ step = ExpectNoResources

LEMMA AssertsFacts ==
  /\ \A n : Asserts(ExpectNumber(n)) /\ Asserts(ExpectIdentity(n))
  /\ \A of : Asserts(ExpectMsg(of))
  /\ \A some, none : Asserts(ExpectResources(some, none))
  /\ Asserts(ExpectNoResources)
BY DEF Asserts

LEMMA GrugAssert ==
  ASSUME NEW step, GrugStep(step), Asserts(step)
  PROVE  /\ IF Holds(step) THEN GoesOn ELSE Fails
         /\ KeepsFiles /\ KeepsEntities /\ updated' = updated
         /\ game_fn_initialize_x' = game_fn_initialize_x
         /\ game_fn_identity_call_count' = game_fn_identity_call_count
<1>1. step.do \in {"expect_number", "expect_identity", "expect_msg", "expect_resources"}
  BY FieldFacts DEF Asserts
<1>2. /\ left' = left /\ selected' = selected /\ implementation' = implementation
      /\ IF Holds(step) THEN GoesOn
         ELSE /\ rejected' = rejected \cup {Test}
              /\ status' = "exited" \/ (status' = "running" /\ code' = Cleanup)
      /\ disk' = disk /\ clock' = clock /\ baseline' = baseline
      /\ entities' = entities /\ updated' = updated
      /\ game_fn_initialize_x' = game_fn_initialize_x
      /\ game_fn_identity_call_count' = game_fn_identity_call_count
  BY <1>1, DoAssert DEF GrugStep
<1>3. KeepsFiles /\ KeepsEntities
  BY <1>2, KeptFiles, KeptEntities
<1> QED BY <1>2, <1>3 DEF Fails

\* What an update makes of a script that is empty or not.
LEMMA GrugUpdate ==
  ASSUME NEW content, GrugStep(Do("update")), Is("script", content)
  PROVE  /\ IsStale("script") => ("script" \in Changed <=> implementation # "no_reload")
         /\ "script" \notin DOMAIN baseline =>
               ("script" \in Changed <=> implementation \notin {"no_reload", "no_discovery"})
         /\ GoesOn
         /\ msg' = IF "script" \in Changed /\ content = Empty /\ implementation # "silent_on_empty"
                   THEN Test ELSE NULL
         /\ game_fn_initialize_x' = game_fn_initialize_x
         /\ IF "script" \in Changed /\ (content # Empty \/ implementation = "empty_replaces")
            THEN /\ \A ids, c : Tracks(ids, c) => Tracks(ids, content)'
                 /\ game_fn_identity_call_count' = game_fn_identity_call_count
                       + IF Test = "code_reloading_destroyed_entity"
                         THEN Cardinality(DOMAIN entities) ELSE 0
            ELSE /\ KeepsEntities
                 /\ game_fn_identity_call_count' = game_fn_identity_call_count
<1>1. /\ content = disk[Test]["script"].content /\ "script" \in Present
      /\ Head(code).do = "update" /\ InTest /\ Next /\ ~Restart /\ ~IsMock /\ KindInv
  BY FieldFacts DEF Is, Present, Paths, GrugStep
<1>2. IsStale("script") => ("script" \in Changed <=> implementation # "no_reload")
  BY <1>1 DEF IsStale, Changed, Times
<1>3. "script" \notin DOMAIN baseline =>
               ("script" \in Changed <=> implementation \notin {"no_reload", "no_discovery"})
  BY <1>1 DEF Changed, Times
<1>4. /\ GoesOn
      /\ msg' = IF "script" \in Changed /\ content = Empty /\ implementation # "silent_on_empty"
                THEN Test ELSE NULL
      /\ game_fn_initialize_x' = game_fn_initialize_x
  BY <1>1, DoUpdate
<1>5. ASSUME "script" \in Changed, content # Empty \/ implementation = "empty_replaces"
      PROVE  /\ \A ids, c : Tracks(ids, c) => Tracks(ids, content)'
             /\ game_fn_identity_call_count' = game_fn_identity_call_count
                       + IF Test = "code_reloading_destroyed_entity"
                         THEN Cardinality(DOMAIN entities) ELSE 0
  <2>1. entities' = [id \in DOMAIN entities |-> content]
    BY <1>1, <1>5, DoUpdate
  <2>2. \A ids, c : Tracks(ids, c) => Tracks(ids, content)'
    BY <2>1 DEF Tracks
  <2> QED BY <1>1, <1>5, <2>2, DoUpdate
<1>6. ASSUME ~("script" \in Changed /\ (content # Empty \/ implementation = "empty_replaces"))
      PROVE  KeepsEntities /\ game_fn_identity_call_count' = game_fn_identity_call_count
  BY <1>1, <1>6, DoUpdate, KeptEntities
<1> QED BY <1>2, <1>3, <1>4, <1>5, <1>6

---------------------------------------------------------------------------
(* The facts of the tests, step after step. *)

LEMMA GrugCodeReloadingNext ==
  ASSUME NEW k, NEW p, p = Steps("code_reloading"), IsRest(p, code, k), code \in Seq(Step),
         Test = "code_reloading", GrugStep(p[k]), MakesDir(k), GrugCodeReloading(k)
  PROVE  \/ k = 17
         \/ k < 17 /\ GoesOn /\ MakesDir(k + 1)' /\ GrugCodeReloading(k + 1)'
         \/ Fails /\ implementation # "grug" /\ GrugCodeReloading(16)'
<1>1. /\ p[1] = Do("temp_dir") /\ p[2] = Do("mod_dir") /\ p[3] = Do("state")
      /\ p[4] = Write("script", 1) /\ p[5] = Do("compile") /\ p[6] = CreateEntity(1)
      /\ p[7] = Do("call") /\ p[8] = ExpectNumber(1)
      /\ p[9] = Write("script", 2) /\ p[10] = Do("update")
      /\ p[11] = ExpectMsg(NULL) /\ p[12] = Do("call") /\ p[13] = ExpectNumber(2)
      /\ p[14] = DestroyEntity(1) /\ p[15] = Do("destroy_file")
      /\ p[16] = Do("destroy_state")
      /\ Len(p) = 17
  BY CodeReloadingSteps
<1>2. k \in 1..17
  BY <1>1 DEF IsRest
<1> USE DEF MakesDir, GrugCodeReloading, Starts, Rejects
<1>3. CASE k = 1
  BY <1>1, <1>2, SameTest, <1>3, GrugTempDir DEF GoesOn, KeepsEntities
<1>4. CASE k = 2
  BY <1>1, <1>2, SameTest, <1>4, GrugModDir DEF GoesOn, KeepsEntities
<1>5. CASE k = 3
  BY <1>1, <1>2, SameTest, <1>5, GrugState DEF GoesOn, KeepsEntities
<1>6. CASE k = 4
  <2>1. GrugStep(Write("script", 1)) /\ "script" \in Paths
    BY <1>1, <1>6 DEF Paths
  <2> QED BY <2>1, <1>6, GrugWrite, SameTest DEF GoesOn, KeepsEntities
<1>7. CASE k = 5
  BY <1>1, <1>2, SameTest, <1>7, GrugCompile DEF GoesOn, KeepsEntities
<1>8. CASE k = 6
  <2>1. /\ GrugStep(CreateEntity(1))
        /\ entities = NoEntities
        /\ program = 1
        /\ Is("script", 1)
        /\ IsNoted("script")
    BY <1>1, <1>8
  <2>2. /\ GoesOn /\ Tracks({1}, 1)' /\ Is("script", 1)' /\ IsNoted("script")' /\ Test' = Test
    BY <2>1, GrugCreate, SameTest DEF KeepsFiles
  <2> QED BY <2>2, <1>8 DEF GoesOn
<1>9. CASE k = 7
  BY <1>1, <1>2, SameTest, <1>9, GrugCall DEF Empty, GoesOn, KeepsFiles, KeepsEntities
<1>10. CASE k = 8
  BY <1>1, <1>2, SameTest, <1>10, GrugAssert, HoldsFacts, AssertsFacts DEF GoesOn, KeepsFiles, KeepsEntities
<1>11. CASE k = 9
  <2>1. GrugStep(Write("script", 2)) /\ "script" \in Paths
    BY <1>1, <1>11 DEF Paths
  <2> QED BY <2>1, <1>11, GrugWrite, SameTest DEF GoesOn, KeepsEntities
<1>12. CASE k = 10
  BY <1>1, <1>2, SameTest, <1>12, GrugUpdate DEF Empty, GoesOn, KeepsEntities
<1>13. CASE k = 11
  <2>1. GrugStep(ExpectMsg(NULL)) /\ Asserts(ExpectMsg(NULL)) /\ Holds(ExpectMsg(NULL))
    BY <1>1, <1>13, HoldsFacts, AssertsFacts
  <2> QED BY <2>1, SameTest, <1>13, GrugAssert DEF GoesOn, KeepsEntities
<1>14. CASE k = 12
  BY <1>1, <1>2, SameTest, <1>14, GrugCall DEF Empty, GoesOn
<1>15. CASE k = 13
  <2>1. /\ IF game_fn_initialize_x = 2 THEN GoesOn ELSE Fails
        /\ game_fn_initialize_x' = game_fn_initialize_x
    BY <1>1, <1>15, GrugAssert, HoldsFacts, AssertsFacts
  <2>2. CASE implementation = "no_reload"
    BY <2>1, <2>2, <1>15, SameTest DEF Fails
  <2>3. CASE implementation # "no_reload"
    BY <2>1, <2>3, <1>15, SameTest DEF GoesOn
  <2> QED BY <2>2, <2>3
<1>16. CASE k = 14
  <2>1. GrugStep(DestroyEntity(1))
    BY <1>1, <1>16
  <2>2. /\ GoesOn /\ game_fn_initialize_x' = game_fn_initialize_x /\ Test' = Test
    BY <2>1, GrugDestroy, SameTest
  <2> QED BY <2>2, <1>16 DEF GoesOn
<1>17. CASE k = 15
  BY <1>1, <1>2, SameTest, <1>17, GrugDestroyFile DEF GoesOn
<1>18. CASE k = 16
  BY <1>1, <1>2, SameTest, <1>18, GrugDestroyState DEF GoesOn
<1>19. CASE k = 17
  BY <1>19
<1> HIDE DEF MakesDir, GrugCodeReloading, Starts, Rejects
<1> QED BY <1>2, <1>3, <1>4, <1>5, <1>6, <1>7, <1>8, <1>9, <1>10,
          <1>11, <1>12, <1>13, <1>14, <1>15, <1>16, <1>17, <1>18, <1>19

LEMMA TwoEntities == Cardinality({1}) = 1 /\ Cardinality({1, 2}) = 2
<1>1. IsFiniteSet({}) /\ Cardinality({}) = 0
  BY FS_EmptySet
<1>2. IsFiniteSet({1}) /\ Cardinality({1}) = 1
  <2>1. /\ IsFiniteSet({} \cup {1})
        /\ Cardinality({} \cup {1}) = IF 1 \in {} THEN Cardinality({}) ELSE Cardinality({}) + 1
    BY ONLY <1>1, FS_AddElement, Zenon
  <2>2. {} \cup {1} = {1} /\ 1 \notin {}
    OBVIOUS
  <2> QED BY ONLY <1>1, <2>1, <2>2
<1>3. Cardinality({1, 2}) = 2
  <2>1. Cardinality({1} \cup {2}) = IF 2 \in {1} THEN Cardinality({1}) ELSE Cardinality({1}) + 1
    BY ONLY <1>2, FS_AddElement, Zenon
  <2>2. {1} \cup {2} = {1, 2} /\ 2 \notin {1}
    OBVIOUS
  <2> QED BY ONLY <1>2, <2>1, <2>2
<1> QED BY <1>2, <1>3

LEMMA GrugDestroyedEntityNext ==
  ASSUME NEW k, NEW p, p = Steps("code_reloading_destroyed_entity"), IsRest(p, code, k),
         code \in Seq(Step), Test = "code_reloading_destroyed_entity", GrugStep(p[k]),
         MakesDir(k), GrugDestroyedEntity(k)
  PROVE  \/ k = 17
         \/ k < 17 /\ GoesOn /\ MakesDir(k + 1)' /\ GrugDestroyedEntity(k + 1)'
         \/ Fails /\ implementation # "grug" /\ GrugDestroyedEntity(16)'
<1>1. /\ p[1] = Do("temp_dir") /\ p[2] = Do("mod_dir") /\ p[3] = Do("state")
      /\ p[4] = Write("script", 1) /\ p[5] = Do("compile")
      /\ p[6] = CreateEntity(1) /\ p[7] = CreateEntity(2)
      /\ p[8] = ExpectIdentity(2) /\ p[9] = DestroyEntity(2)
      /\ p[10] = Write("script", 2) /\ p[11] = Do("update")
      /\ p[12] = ExpectMsg(NULL) /\ p[13] = ExpectIdentity(3)
      /\ p[14] = DestroyEntity(1) /\ p[15] = Do("destroy_file")
      /\ p[16] = Do("destroy_state")
      /\ Len(p) = 17
  BY DestroyedEntitySteps
<1>2. k \in 1..17
  BY <1>1 DEF IsRest
<1> USE DEF MakesDir, GrugDestroyedEntity, Starts, Rejects
<1>3. CASE k = 1
  BY <1>1, <1>2, SameTest, <1>3, GrugTempDir DEF GoesOn, KeepsEntities
<1>4. CASE k = 2
  BY <1>1, <1>2, SameTest, <1>4, GrugModDir DEF GoesOn, KeepsEntities
<1>5. CASE k = 3
  BY <1>1, <1>2, SameTest, <1>5, GrugState DEF GoesOn, KeepsEntities
<1>6. CASE k = 4
  <2>1. GrugStep(Write("script", 1)) /\ "script" \in Paths
    BY <1>1, <1>6 DEF Paths
  <2> QED BY <2>1, <1>6, GrugWrite, SameTest DEF GoesOn, KeepsEntities
<1>7. CASE k = 5
  BY <1>1, <1>2, SameTest, <1>7, GrugCompile DEF GoesOn, KeepsEntities
<1>8. CASE k = 6
  <2>1. GrugStep(CreateEntity(1)) /\ entities = NoEntities /\ game_fn_identity_call_count = 0
    BY <1>1, <1>8
  <2>2. /\ GoesOn /\ KeepsFiles /\ Test' = Test
        /\ DOMAIN entities' = {1} /\ game_fn_identity_call_count' = 1
    <3>1. /\ GoesOn /\ KeepsFiles /\ DOMAIN entities' = DOMAIN entities \cup {1}
          /\ game_fn_identity_call_count' = game_fn_identity_call_count + 1
      BY <2>1, GrugCreate
    <3> QED BY <2>1, <3>1, SameTest DEF NoEntities
  <2> QED BY <2>2, <1>8 DEF GoesOn, KeepsFiles
<1>9. CASE k = 7
  <2>1. GrugStep(CreateEntity(2)) /\ DOMAIN entities = {1} /\ game_fn_identity_call_count = 1
    BY <1>1, <1>9
  <2>2. /\ GoesOn /\ KeepsFiles /\ Test' = Test
        /\ DOMAIN entities' = {1, 2} /\ game_fn_identity_call_count' = 2
    <3>1. /\ GoesOn /\ KeepsFiles /\ DOMAIN entities' = DOMAIN entities \cup {2}
          /\ game_fn_identity_call_count' = game_fn_identity_call_count + 1
      BY <2>1, GrugCreate
    <3> QED BY <2>1, <3>1, SameTest
  <2> QED BY <2>2, <1>9 DEF GoesOn, KeepsFiles
<1>10. CASE k = 8
  <2>1. GrugStep(ExpectIdentity(2)) /\ Asserts(ExpectIdentity(2)) /\ Holds(ExpectIdentity(2))
    BY <1>1, <1>10, HoldsFacts, AssertsFacts
  <2> QED BY <2>1, SameTest, <1>10, GrugAssert DEF GoesOn, KeepsFiles, KeepsEntities
<1>11. CASE k = 9
  <2>1. GrugStep(DestroyEntity(2)) /\ DOMAIN entities = {1, 2} /\ {1, 2} \cap (1..2 \ {2}) = {1}
    BY <1>1, <1>11
  <2>2. /\ GoesOn /\ KeepsFiles /\ Test' = Test
        /\ DOMAIN entities' = IF implementation = "keeps_destroyed" THEN {1, 2} ELSE {1}
        /\ game_fn_identity_call_count' = game_fn_identity_call_count
    BY <2>1, GrugDestroy, SameTest
  <2> QED BY <2>2, <1>11 DEF GoesOn, KeepsFiles
<1>12. CASE k = 10
  <2>1. GrugStep(Write("script", 2)) /\ "script" \in Paths
    BY <1>1, <1>12 DEF Paths
  <2> QED BY <2>1, <1>12, GrugWrite, SameTest DEF GoesOn, KeepsEntities
<1>13. CASE k = 11
  <2>1. /\ GrugStep(Do("update")) /\ Is("script", 2) /\ IsStale("script")
        /\ DOMAIN entities = IF implementation = "keeps_destroyed" THEN {1, 2} ELSE {1}
        /\ game_fn_identity_call_count = 2
    BY <1>1, <1>13
  <2>2. /\ GoesOn /\ Test' = Test /\ msg' = NULL
        /\ game_fn_identity_call_count' = IF implementation = "no_reload" THEN 2
                                          ELSE 2 + Cardinality(DOMAIN entities)
    BY <2>1, GrugUpdate, SameTest DEF Empty
  <2>3. game_fn_identity_call_count' = CASE implementation = "no_reload"       -> 2
                                          [] implementation = "keeps_destroyed" -> 4
                                          [] OTHER                              -> 3
    BY <2>1, <2>2, TwoEntities
  <2> QED BY <2>2, <2>3, <1>13 DEF GoesOn
<1>14. CASE k = 12
  <2>1. GrugStep(ExpectMsg(NULL)) /\ Asserts(ExpectMsg(NULL)) /\ Holds(ExpectMsg(NULL))
    BY <1>1, <1>14, HoldsFacts, AssertsFacts
  <2> QED BY <2>1, SameTest, <1>14, GrugAssert DEF GoesOn
<1>15. CASE k = 13
  <2>1. IF game_fn_identity_call_count = 3 THEN GoesOn ELSE Fails
    BY <1>1, <1>15, GrugAssert, HoldsFacts, AssertsFacts
  <2>2. CASE implementation \in {"no_reload", "keeps_destroyed"}
    BY <2>1, <2>2, <1>15, SameTest DEF Fails
  <2>3. CASE implementation \notin {"no_reload", "keeps_destroyed"}
    BY <2>1, <2>3, <1>15, SameTest DEF GoesOn
  <2> QED BY <2>2, <2>3
<1>16. CASE k = 14
  <2>1. GrugStep(DestroyEntity(1))
    BY <1>1, <1>16
  <2>2. GoesOn /\ Test' = Test
    BY <2>1, GrugDestroy, SameTest
  <2> QED BY <2>2, <1>16 DEF GoesOn
<1>17. CASE k = 15
  BY <1>1, <1>2, SameTest, <1>17, GrugDestroyFile DEF GoesOn
<1>18. CASE k = 16
  BY <1>1, <1>2, SameTest, <1>18, GrugDestroyState DEF GoesOn
<1>19. CASE k = 17
  BY <1>19
<1> HIDE DEF MakesDir, GrugDestroyedEntity, Starts, Rejects
<1> QED BY <1>2, <1>3, <1>4, <1>5, <1>6, <1>7, <1>8, <1>9, <1>10,
          <1>11, <1>12, <1>13, <1>14, <1>15, <1>16, <1>17, <1>18, <1>19

LEMMA GrugEmptyFileNext ==
  ASSUME NEW k, NEW p, p = Steps("code_reloading_empty_file"), IsRest(p, code, k),
         code \in Seq(Step), Test = "code_reloading_empty_file", GrugStep(p[k]),
         MakesDir(k), GrugEmptyFile(k),
         implementation = "empty_replaces" => game_fn_initialize_x # 1
  PROVE  \/ k = 15
         \/ k < 15 /\ GoesOn /\ MakesDir(k + 1)' /\ GrugEmptyFile(k + 1)'
         \/ Fails /\ implementation # "grug" /\ GrugEmptyFile(14)'
<1>1. /\ p[1] = Do("temp_dir") /\ p[2] = Do("mod_dir") /\ p[3] = Do("state")
      /\ p[4] = Write("script", 1) /\ p[5] = Do("compile") /\ p[6] = CreateEntity(1)
      /\ p[7] = Write("script", Empty) /\ p[8] = Do("update")
      /\ p[9] = ExpectMsg("code_reloading_empty_file")
      /\ p[10] = Do("call") /\ p[11] = ExpectNumber(1)
      /\ p[12] = DestroyEntity(1) /\ p[13] = Do("destroy_file")
      /\ p[14] = Do("destroy_state")
      /\ Len(p) = 15
  BY EmptyFileSteps
<1>2. k \in 1..15
  BY <1>1 DEF IsRest
<1> USE DEF MakesDir, GrugEmptyFile, Starts, Rejects
<1>3. CASE k = 1
  BY <1>1, <1>2, SameTest, <1>3, GrugTempDir DEF GoesOn, KeepsEntities
<1>4. CASE k = 2
  BY <1>1, <1>2, SameTest, <1>4, GrugModDir DEF GoesOn, KeepsEntities
<1>5. CASE k = 3
  BY <1>1, <1>2, SameTest, <1>5, GrugState DEF GoesOn, KeepsEntities
<1>6. CASE k = 4
  <2>1. GrugStep(Write("script", 1)) /\ "script" \in Paths
    BY <1>1, <1>6 DEF Paths
  <2> QED BY <2>1, <1>6, GrugWrite, SameTest DEF GoesOn, KeepsEntities
<1>7. CASE k = 5
  BY <1>1, <1>2, SameTest, <1>7, GrugCompile DEF GoesOn, KeepsEntities
<1>8. CASE k = 6
  <2>1. GrugStep(CreateEntity(1)) /\ entities = NoEntities /\ program = 1
    BY <1>1, <1>8
  <2>2. GoesOn /\ KeepsFiles /\ Test' = Test /\ Tracks({1}, 1)'
    BY <2>1, GrugCreate, SameTest
  <2> QED BY <2>2, <1>8 DEF GoesOn, KeepsFiles
<1>9. CASE k = 7
  <2>1. GrugStep(Write("script", Empty)) /\ "script" \in Paths
    BY <1>1, <1>9 DEF Paths
  <2> QED BY <2>1, <1>9, GrugWrite, SameTest DEF GoesOn, KeepsEntities
<1>10. CASE k = 8
  <2>1. GrugStep(Do("update")) /\ Is("script", Empty) /\ IsStale("script") /\ Tracks({1}, 1)
    BY <1>1, <1>10
  <2>2. /\ GoesOn /\ Test' = Test
        /\ msg' = IF implementation \in {"no_reload", "silent_on_empty"} THEN NULL ELSE Test
    BY <2>1, GrugUpdate, SameTest
  <2>3. Tracks({1}, IF implementation = "empty_replaces" THEN Empty ELSE 1)'
    <3>1. CASE implementation = "empty_replaces"
      <4>1. Tracks({1}, Empty)'
        BY <2>1, <3>1, GrugUpdate
      <4> QED BY <4>1, <3>1, <2>2 DEF GoesOn
    <3>2. CASE implementation # "empty_replaces"
      <4>1. Tracks({1}, 1)'
        BY <2>1, <3>2, GrugUpdate DEF KeepsEntities
      <4> QED BY <4>1, <3>2, <2>2 DEF GoesOn
    <3> QED BY <3>1, <3>2
  <2> QED BY <2>2, <2>3, <1>10 DEF GoesOn
<1>11. CASE k = 9
  <2>1. /\ IF msg = Test THEN GoesOn ELSE Fails
        /\ KeepsEntities
    BY <1>1, <1>11, GrugAssert, HoldsFacts, AssertsFacts
  <2>2. NULL # Test
    BY ReloadingAssumption DEF InTest, GrugStep
  <2>3. CASE msg = Test
    <3>1. GoesOn /\ Test' = Test /\ implementation # "silent_on_empty"
      BY <2>1, <2>2, <2>3, <1>11, SameTest
    <3>2. Tracks({1}, IF implementation = "empty_replaces" THEN Empty ELSE 1)'
      BY <3>1, <2>1, <1>11 DEF KeepsEntities, GoesOn
    <3> QED BY <3>1, <3>2, <1>11 DEF GoesOn
  <2>4. CASE msg # Test
    BY <2>1, <2>4, <1>11, SameTest DEF Fails
  <2> QED BY <2>3, <2>4
<1>12. CASE k = 10
  <2>1. GrugStep(Do("call")) /\ Tracks({1}, IF implementation = "empty_replaces" THEN Empty ELSE 1)
    BY <1>1, <1>12
  <2>2. /\ GoesOn /\ Test' = Test
        /\ implementation # "empty_replaces" => game_fn_initialize_x' = 1
    BY <2>1, GrugCall, SameTest DEF Empty
  <2> QED BY <2>2, <1>12 DEF GoesOn
<1>13. CASE k = 11
  <2>1. IF game_fn_initialize_x = 1 THEN GoesOn ELSE Fails
    BY <1>1, <1>13, GrugAssert, HoldsFacts, AssertsFacts
  <2>2. CASE implementation = "empty_replaces"
    BY <2>1, <2>2, <1>13, SameTest DEF Fails
  <2>3. CASE implementation # "empty_replaces"
    BY <2>1, <2>3, <1>13, SameTest DEF GoesOn
  <2> QED BY <2>2, <2>3
<1>14. CASE k = 12
  <2>1. GrugStep(DestroyEntity(1))
    BY <1>1, <1>14
  <2>2. GoesOn /\ Test' = Test
    BY <2>1, GrugDestroy, SameTest
  <2> QED BY <2>2, <1>14 DEF GoesOn
<1>15. CASE k = 13
  BY <1>1, <1>2, SameTest, <1>15, GrugDestroyFile DEF GoesOn
<1>16. CASE k = 14
  BY <1>1, <1>2, SameTest, <1>16, GrugDestroyState DEF GoesOn
<1>17. CASE k = 15
  BY <1>17
<1> HIDE DEF MakesDir, GrugEmptyFile, Starts, Rejects
<1> QED BY <1>2, <1>3, <1>4, <1>5, <1>6, <1>7, <1>8, <1>9, <1>10,
          <1>11, <1>12, <1>13, <1>14, <1>15, <1>16, <1>17

LEMMA GrugNewFileNext ==
  ASSUME NEW k, NEW p, p = Steps("code_reloading_new_file"), IsRest(p, code, k),
         code \in Seq(Step), Test = "code_reloading_new_file", GrugStep(p[k]),
         MakesDir(k), GrugNewFile(k)
  PROVE  \/ k = 8
         \/ k < 8 /\ GoesOn /\ MakesDir(k + 1)' /\ GrugNewFile(k + 1)'
         \/ Fails /\ implementation # "grug" /\ GrugNewFile(7)'
<1>1. /\ p[1] = Do("temp_dir") /\ p[2] = Do("state") /\ p[3] = Do("mod_dir")
      /\ p[4] = Write("script", Empty) /\ p[5] = Do("update")
      /\ p[6] = ExpectMsg("code_reloading_new_file")
      /\ p[7] = Do("destroy_state")
      /\ Len(p) = 8
  BY NewFileSteps
<1>2. k \in 1..8
  BY <1>1 DEF IsRest
<1> USE DEF MakesDir, GrugNewFile, Rejects
<1>3. CASE k = 1
  BY <1>1, <1>2, SameTest, <1>3, GrugTempDir DEF GoesOn
<1>4. CASE k = 2
  <2>1. GrugStep(Do("state")) /\ Present = {}
    BY <1>1, <1>4 DEF Present, NoFiles
  <2>2. GoesOn /\ Test' = Test /\ disk' = disk /\ "script" \notin DOMAIN baseline'
    BY <2>1, GrugState, SameTest DEF NoFiles
  <2> QED BY <2>2, <1>4 DEF GoesOn
<1>5. CASE k = 3
  BY <1>1, <1>2, SameTest, <1>5, GrugModDir DEF GoesOn
<1>6. CASE k = 4
  <2>1. GrugStep(Write("script", Empty)) /\ "script" \in Paths
    BY <1>1, <1>6 DEF Paths
  <2> QED BY <2>1, <1>6, GrugWrite, SameTest DEF GoesOn
<1>7. CASE k = 5
  <2>1. GrugStep(Do("update")) /\ Is("script", Empty) /\ "script" \notin DOMAIN baseline
    BY <1>1, <1>7
  <2>2. /\ GoesOn /\ Test' = Test
        /\ msg' = IF implementation \in {"no_reload", "no_discovery", "silent_on_empty"}
                  THEN NULL ELSE Test
    BY <2>1, GrugUpdate, SameTest
  <2> QED BY <2>2, <1>7 DEF GoesOn
<1>8. CASE k = 6
  <2>1. IF msg = Test THEN GoesOn ELSE Fails
    BY <1>1, <1>8, GrugAssert, HoldsFacts, AssertsFacts
  <2>2. NULL # Test
    BY ReloadingAssumption DEF InTest, GrugStep
  <2>3. CASE msg = Test
    BY <2>1, <2>2, <2>3, <1>8, SameTest DEF GoesOn
  <2>4. CASE msg # Test
    BY <2>1, <2>4, <1>8, SameTest DEF Fails
  <2> QED BY <2>3, <2>4
<1>9. CASE k = 7
  BY <1>1, <1>2, SameTest, <1>9, GrugDestroyState DEF GoesOn
<1>10. CASE k = 8
  BY <1>10
<1> HIDE DEF MakesDir, GrugNewFile, Rejects
<1> QED BY <1>2, <1>3, <1>4, <1>5, <1>6, <1>7, <1>8, <1>9, <1>10

\* What an update makes of the resources, when there is no script.
LEMMA GrugUpdateResources ==
  ASSUME GrugStep(Do("update")), Present \subseteq Resources
  PROVE  /\ GoesOn /\ KeepsEntities /\ msg' = NULL /\ Present' = Present
         /\ \A path, content : Is(path, content) => Is(path, content)'
         /\ updated' = {path \in Present : path \notin DOMAIN baseline \/ IsStale(path)}
         /\ implementation \in {"grug", "reports_existing"} =>
               DOMAIN baseline' = Present /\ \A path \in Present : IsNoted(path)'
         /\ implementation = "forgets_new" =>
               /\ DOMAIN baseline' = Present \cap DOMAIN baseline
               /\ \A path \in Present \cap DOMAIN baseline : IsNoted(path)'
         /\ implementation = "forgets_changed" =>
               /\ DOMAIN baseline' = Present \cup DOMAIN baseline
               /\ \A path \in Present : IF IsStale(path) THEN IsStale(path)' ELSE IsNoted(path)'
         /\ game_fn_initialize_x' = game_fn_initialize_x
<1>1. "script" \notin Present
  BY DEF Resources
<1>2. Changed = {path \in Present : path \notin DOMAIN baseline \/ IsStale(path)}
  BY <1>1 DEF Changed, IsStale, Times
<1>3. Changed \cap Resources = Changed
  BY <1>2
<1>4. /\ GoesOn /\ disk' = disk /\ clock' = clock /\ msg' = NULL
      /\ updated' = Changed /\ baseline' = Noted
      /\ entities' = entities /\ game_fn_initialize_x' = game_fn_initialize_x
  BY <1>1, <1>2, <1>3, DoUpdate, FieldFacts DEF GrugStep
<1>5. Test' = Test /\ KeepsEntities
  BY <1>4, SameTest, KeptEntities
<1>6. Present' = Present /\ \A path, content : Is(path, content) => Is(path, content)'
  BY <1>4, <1>5 DEF Present, Is
<1>7. implementation \in {"grug", "reports_existing"} =>
         DOMAIN baseline' = Present /\ \A path \in Present : IsNoted(path)'
  BY <1>4, <1>5 DEF Noted, Times, IsNoted
<1>8. implementation = "forgets_new" =>
         /\ DOMAIN baseline' = Present \cap DOMAIN baseline
         /\ \A path \in Present \cap DOMAIN baseline : IsNoted(path)'
  BY <1>4, <1>5 DEF Noted, Times, Keep, IsNoted
<1>9. implementation = "forgets_changed" =>
         /\ DOMAIN baseline' = Present \cup DOMAIN baseline
         /\ \A path \in Present : IF IsStale(path) THEN IsStale(path)' ELSE IsNoted(path)'
  BY <1>4, <1>5 DEF Noted, Times, IsNoted, IsStale
<1> QED BY <1>2, <1>4, <1>5, <1>6, <1>7, <1>8, <1>9

LEMMA GrugResourcesNext ==
  ASSUME NEW k, NEW p, p = Steps("resource_reloading"), IsRest(p, code, k),
         code \in Seq(Step), Test = "resource_reloading", GrugStep(p[k]),
         MakesDir(k), GrugResources(k)
  PROVE  \/ k = 20
         \/ k < 20 /\ GoesOn /\ MakesDir(k + 1)' /\ GrugResources(k + 1)'
         \/ Fails /\ implementation # "grug" /\ GrugResources(19)'
<1>1. /\ p[1] = Do("temp_dir") /\ p[2] = Do("mod_dir") /\ p[3] = Write("existing", 1)
      /\ p[4] = Do("state") /\ p[5] = Do("update") /\ p[6] = ExpectMsg(NULL)
      /\ p[7] = ExpectNoResources /\ p[8] = Write("new", 1) /\ p[9] = Do("update")
      /\ p[10] = ExpectMsg(NULL) /\ p[11] = ExpectResources({"new"}, {"existing"})
      /\ p[12] = Write("existing", 2) /\ p[13] = Do("update")
      /\ p[14] = ExpectMsg(NULL) /\ p[15] = ExpectResources({"existing"}, {"new"})
      /\ p[16] = Do("update") /\ p[17] = ExpectMsg(NULL) /\ p[18] = ExpectNoResources
      /\ p[19] = Do("destroy_state")
      /\ Len(p) = 20
  BY ResourceSteps
<1>2. k \in 1..20
  BY <1>1 DEF IsRest
<1> USE DEF MakesDir, GrugResources, Rejects, NotesExisting, NotesNew
<1>3. CASE k = 1
  BY <1>1, <1>2, SameTest, <1>3, GrugTempDir DEF GoesOn
<1>4. CASE k = 2
  BY <1>1, <1>2, SameTest, <1>4, GrugModDir DEF GoesOn
<1>5. CASE k = 3
  <2>1. GrugStep(Write("existing", 1)) /\ "existing" \in Paths /\ Present = {}
    BY <1>1, <1>5 DEF Paths, Resources
  <2>2. GoesOn /\ Test' = Test /\ Is("existing", 1)' /\ Present' = {"existing"}
    BY <2>1, GrugWrite, SameTest
  <2> QED BY <2>2, <1>5 DEF GoesOn
<1>6. CASE k = 4
  <2>1. GrugStep(Do("state")) /\ Present = {"existing"} /\ Is("existing", 1)
    BY <1>1, <1>6
  <2>2. /\ GoesOn /\ Test' = Test /\ Is("existing", 1)' /\ Present' = {"existing"}
        /\ implementation = "reports_existing" => baseline' = NoFiles
        /\ implementation # "reports_existing" =>
              DOMAIN baseline' = {"existing"} /\ IsNoted("existing")'
    BY <2>1, GrugState, SameTest
  <2> QED BY <2>2, <1>6 DEF GoesOn
<1>7. CASE k = 5
  <2>1. GrugStep(Do("update")) /\ Present = {"existing"} /\ Is("existing", 1) /\ Present \subseteq Resources
    BY <1>1, <1>7 DEF Resources
  <2>2. /\ GoesOn /\ Test' = Test /\ Is("existing", 1)' /\ Present' = {"existing"}
        /\ msg' = NULL
        /\ updated' = {path \in {"existing"} : path \notin DOMAIN baseline \/ IsStale(path)}
    BY <2>1, GrugUpdateResources, SameTest
  <2>3. CASE implementation = "reports_existing"
    <3>1. updated' = {"existing"}
      BY <2>2, <2>3, <1>7 DEF NoFiles
    <3> QED BY <2>2, <2>3, <3>1, <1>7 DEF GoesOn
  <2>4. CASE NotesExisting
    <3>1. DOMAIN baseline = {"existing"} /\ IsNoted("existing") /\ ~IsStale("existing")
      BY <2>4, <1>7 DEF IsNoted, IsStale
    <3>2. updated' = {}
      BY <2>2, <3>1
    <3>3. DOMAIN baseline' = {"existing"} /\ IsNoted("existing")'
      BY <2>1, <2>4, <3>1, GrugUpdateResources
    <3> QED BY <2>2, <2>4, <3>2, <3>3, <1>7 DEF GoesOn
  <2>5. CASE ~NotesExisting /\ implementation # "reports_existing"
    BY <2>2, <2>5, <1>7 DEF GoesOn
  <2> QED BY <2>3, <2>4, <2>5
<1>8. CASE k = 6
  <2>1. GrugStep(ExpectMsg(NULL)) /\ Asserts(ExpectMsg(NULL)) /\ Holds(ExpectMsg(NULL))
    BY <1>1, <1>8, HoldsFacts, AssertsFacts
  <2> QED BY <2>1, SameTest, <1>8, GrugAssert DEF GoesOn, KeepsFiles
<1>9. CASE k = 7
  <2>1. /\ IF updated \cap Resources = {} THEN GoesOn ELSE Fails
        /\ KeepsFiles
    BY <1>1, <1>9, GrugAssert, HoldsFacts, AssertsFacts
  <2>2. CASE updated \cap Resources = {}
    <3>1. GoesOn /\ Test' = Test /\ implementation # "reports_existing"
      BY <2>1, <2>2, <1>9, SameTest DEF Resources
    <3> QED BY <2>1, <3>1, <1>9 DEF GoesOn, KeepsFiles
  <2>3. CASE updated \cap Resources # {}
    <3>1. ~NotesExisting
      BY <2>3, <1>9
    <3> QED BY <2>1, <2>3, <3>1, <1>9, SameTest DEF Fails
  <2> QED BY <2>2, <2>3
<1>10. CASE k = 8
  <2>1. /\ GrugStep(Write("new", 1)) /\ "new" \in Paths /\ "existing" \in Paths \ {"new"}
        /\ Present = {"existing"} /\ Is("existing", 1) /\ Present \cup {"new"} = Resources
    BY <1>1, <1>10 DEF Paths, Resources
  <2>2. /\ GoesOn /\ Test' = Test /\ Is("existing", 1)' /\ Present' = Resources
        /\ baseline' = baseline /\ (IsNoted("existing") => IsNoted("existing")')
    BY <2>1, GrugWrite, SameTest
  <2> QED BY <2>2, <1>10 DEF GoesOn
<1>11. CASE k = 9
  <2>1. GrugStep(Do("update")) /\ Present = Resources /\ Is("existing", 1)
    BY <1>1, <1>11
  <2>2. /\ GoesOn /\ Test' = Test /\ Is("existing", 1)' /\ Present' = Resources
        /\ msg' = NULL
        /\ updated' = {path \in Resources : path \notin DOMAIN baseline \/ IsStale(path)}
    BY <2>1, GrugUpdateResources, SameTest
  <2>3. CASE NotesExisting
    <3>1. DOMAIN baseline = {"existing"} /\ IsNoted("existing") /\ ~IsStale("existing")
      BY <2>3, <1>11 DEF IsNoted, IsStale
    <3>2. updated' = {"new"}
      BY <2>2, <3>1 DEF Resources
    <3>3. ~IsStale("new")
      BY <3>1 DEF IsStale
    <3>4. implementation = "forgets_new" => DOMAIN baseline' = {"existing"} /\ IsNoted("existing")'
      BY <2>1, <3>1, GrugUpdateResources DEF Resources
    <3>5. NotesNew => /\ DOMAIN baseline' = Resources
                      /\ IsNoted("existing")' /\ IsNoted("new")'
      BY <2>1, <3>1, <3>3, GrugUpdateResources DEF Resources
    <3> QED BY <2>2, <2>3, <3>2, <3>4, <3>5, <1>11 DEF GoesOn
  <2>4. CASE ~NotesExisting
    BY <2>2, <2>4, <1>11 DEF GoesOn
  <2> QED BY <2>3, <2>4
<1>12. CASE k = 10
  <2>1. GrugStep(ExpectMsg(NULL)) /\ Asserts(ExpectMsg(NULL)) /\ Holds(ExpectMsg(NULL))
    BY <1>1, <1>12, HoldsFacts, AssertsFacts
  <2> QED BY <2>1, SameTest, <1>12, GrugAssert DEF GoesOn, KeepsFiles
<1>13. CASE k = 11
  <2>1. /\ IF {"new"} \subseteq updated /\ updated \cap {"existing"} = {} THEN GoesOn ELSE Fails
        /\ KeepsFiles
    BY <1>1, <1>13, GrugAssert, HoldsFacts, AssertsFacts
  <2>2. CASE {"new"} \subseteq updated /\ updated \cap {"existing"} = {}
    BY <2>1, <2>2, <1>13, SameTest DEF GoesOn, KeepsFiles
  <2>3. CASE ~({"new"} \subseteq updated /\ updated \cap {"existing"} = {})
    <3>1. ~NotesExisting
      BY <2>3, <1>13
    <3> QED BY <2>1, <2>3, <3>1, <1>13, SameTest DEF Fails
  <2> QED BY <2>2, <2>3
<1>14. CASE k = 12
  <2>1. /\ GrugStep(Write("existing", 2)) /\ "existing" \in Paths
        /\ "new" \in Present \ {"existing"}
        /\ Present = Resources /\ Is("existing", 1) /\ Present \cup {"existing"} = Resources
    BY <1>1, <1>14 DEF Paths, Resources
  <2>2. /\ GoesOn /\ Test' = Test /\ Present' = Resources
        /\ baseline' = baseline
        /\ IsNoted("existing") => IsStale("existing")'
        /\ IsNoted("new") => IsNoted("new")'
    BY <2>1, GrugWrite, SameTest
  <2> QED BY <2>2, <1>14 DEF GoesOn
<1>15. CASE k = 13
  <2>1. GrugStep(Do("update")) /\ Present = Resources
    BY <1>1, <1>15
  <2>2. /\ GoesOn /\ Test' = Test /\ Present' = Resources
        /\ msg' = NULL
        /\ updated' = {path \in Resources : path \notin DOMAIN baseline \/ IsStale(path)}
    BY <2>1, GrugUpdateResources, SameTest
  <2>3. CASE implementation = "forgets_new"
    <3>1. DOMAIN baseline = {"existing"} /\ IsStale("existing")
      BY <2>3, <1>15
    <3>2. updated' = Resources
      BY <2>2, <3>1 DEF Resources
    <3> QED BY <2>2, <2>3, <3>2, <1>15 DEF GoesOn
  <2>4. CASE NotesNew
    <3>1. DOMAIN baseline = Resources /\ IsNoted("new") /\ ~IsStale("new") /\ IsStale("existing")
      BY <2>4, <1>15 DEF IsNoted, IsStale
    <3>2. updated' = {"existing"}
      BY <2>2, <3>1 DEF Resources
    <3>3. /\ DOMAIN baseline' = Resources /\ IsNoted("new")'
          /\ implementation = "grug" => IsNoted("existing")'
          /\ implementation = "forgets_changed" => IsStale("existing")'
      BY <2>1, <2>4, <3>1, GrugUpdateResources DEF Resources
    <3> QED BY <2>2, <2>4, <3>2, <3>3, <1>15 DEF GoesOn
  <2>5. CASE ~NotesExisting
    BY <2>2, <2>5, <1>15 DEF GoesOn
  <2> QED BY <2>3, <2>4, <2>5
<1>16. CASE k = 14
  <2>1. GrugStep(ExpectMsg(NULL)) /\ Asserts(ExpectMsg(NULL)) /\ Holds(ExpectMsg(NULL))
    BY <1>1, <1>16, HoldsFacts, AssertsFacts
  <2> QED BY <2>1, SameTest, <1>16, GrugAssert DEF GoesOn, KeepsFiles
<1>17. CASE k = 15
  <2>1. /\ IF {"existing"} \subseteq updated /\ updated \cap {"new"} = {} THEN GoesOn ELSE Fails
        /\ KeepsFiles
    BY <1>1, <1>17, GrugAssert, HoldsFacts, AssertsFacts
  <2>2. CASE {"existing"} \subseteq updated /\ updated \cap {"new"} = {}
    <3>1. implementation # "forgets_new"
      BY <2>2, <1>17 DEF Resources
    <3> QED BY <2>1, <2>2, <3>1, <1>17, SameTest DEF GoesOn, KeepsFiles
  <2>3. CASE ~({"existing"} \subseteq updated /\ updated \cap {"new"} = {})
    <3>1. ~NotesNew
      BY <2>3, <1>17
    <3> QED BY <2>1, <2>3, <3>1, <1>17, SameTest DEF Fails
  <2> QED BY <2>2, <2>3
<1>18. CASE k = 16
  <2>1. GrugStep(Do("update")) /\ Present = Resources
    BY <1>1, <1>18
  <2>2. /\ GoesOn /\ Test' = Test /\ Present' = Resources
        /\ msg' = NULL
        /\ updated' = {path \in Resources : path \notin DOMAIN baseline \/ IsStale(path)}
    BY <2>1, GrugUpdateResources, SameTest
  <2>3. CASE NotesNew
    <3>1. DOMAIN baseline = Resources /\ ~IsStale("new")
      BY <2>3, <1>18 DEF IsNoted, IsStale
    <3>2. implementation = "grug" => ~IsStale("existing")
      BY <1>18 DEF IsNoted, IsStale
    <3>3. implementation = "forgets_changed" => IsStale("existing")
      BY <1>18
    <3>4. updated' = IF implementation = "grug" THEN {} ELSE {"existing"}
      BY <2>2, <2>3, <3>1, <3>2, <3>3 DEF Resources
    <3> QED BY <2>2, <2>3, <3>4, <1>18 DEF GoesOn
  <2>4. CASE ~NotesNew
    BY <2>2, <2>4, <1>18 DEF GoesOn
  <2> QED BY <2>3, <2>4
<1>19. CASE k = 17
  <2>1. GrugStep(ExpectMsg(NULL)) /\ Asserts(ExpectMsg(NULL)) /\ Holds(ExpectMsg(NULL))
    BY <1>1, <1>19, HoldsFacts, AssertsFacts
  <2> QED BY <2>1, SameTest, <1>19, GrugAssert DEF GoesOn, KeepsFiles
<1>20. CASE k = 18
  <2>1. IF updated \cap Resources = {} THEN GoesOn ELSE Fails
    BY <1>1, <1>20, GrugAssert, HoldsFacts, AssertsFacts
  <2>2. CASE updated \cap Resources = {}
    <3>1. implementation # "forgets_changed"
      BY <2>2, <1>20 DEF Resources
    <3> QED BY <2>1, <2>2, <3>1, <1>20, SameTest DEF GoesOn
  <2>3. CASE updated \cap Resources # {}
    <3>1. implementation # "grug"
      BY <2>3, <1>20
    <3> QED BY <2>1, <2>3, <3>1, <1>20, SameTest DEF Fails
  <2> QED BY <2>2, <2>3
<1>21. CASE k = 19
  BY <1>1, <1>2, SameTest, <1>21, GrugDestroyState DEF GoesOn
<1>22. CASE k = 20
  BY <1>22
<1> HIDE DEF MakesDir, GrugResources, Rejects, NotesExisting, NotesNew
<1> QED BY <1>2, <1>3, <1>4, <1>5, <1>6, <1>7, <1>8, <1>9, <1>10, <1>11, <1>12, <1>13,
           <1>14, <1>15, <1>16, <1>17, <1>18, <1>19, <1>20, <1>21, <1>22

---------------------------------------------------------------------------
(* The same for the mock. *)

MockStep(step) == InTest /\ KindInv /\ IsMock /\ Next /\ ~Restart /\ Head(code) = step

KeepsMock ==
    /\ mock'.mods = mock.mods /\ mock'.path = mock.path
    /\ mock'.update_called = mock.update_called /\ mock'.update_count = mock.update_count

MockFields ==
    mock \in [update_called : BOOLEAN, update_count : Nat,
              path : Tests \cup {NULL, "other"}, mods : Tests \cup {NULL}]

LEMMA MockTempDir ==
  ASSUME MockStep(Do("temp_dir"))
  PROVE  GoesOn /\ KeepsMock /\ disk'[Test] = NoFiles
         /\ game_fn_identity_call_count' = game_fn_identity_call_count
BY DoTempDir, FieldFacts DEF MockStep, KeepsMock

\* The steps that only change what the mock does not look at.
LEMMA MockFiles ==
  ASSUME NEW step, MockStep(step),
         \/ step = Do("mod_dir") /\ disk[Test] = NoFiles
         \/ \E path, content : step = Write(path, content)
         \/ \E id : step = DestroyEntity(id)
  PROVE  GoesOn /\ KeepsMock /\ updated' = updated
         /\ game_fn_identity_call_count' = game_fn_identity_call_count
BY DoModDir, DoWrite, DoDestroy, FieldFacts DEF MockStep, KeepsMock

LEMMA MockEnds ==
  ASSUME NEW step, MockStep(step), step \in {Do("destroy_file"), Do("destroy_state")}
  PROVE  GoesOn /\ KeepsMock
BY DoDestroyFile, DoDestroyState, FieldFacts DEF MockStep, KeepsMock

LEMMA MockState ==
  ASSUME MockStep(Do("state"))
  PROVE  /\ GoesOn /\ mock'.mods = Test /\ mock'.path = mock.path
         /\ mock'.update_called = mock.update_called
         /\ Test = "resource_reloading" => mock'.update_count = 0
         /\ disk' = disk
         /\ game_fn_identity_call_count' = game_fn_identity_call_count
<1>1. MockFields
  BY DEF MockStep, KindInv, MockFields
<1>2. /\ GoesOn /\ disk' = disk
      /\ mock' = [mock EXCEPT !.mods = Test,
                         !.update_count = IF Test = "resource_reloading" THEN 0 ELSE @]
      /\ game_fn_identity_call_count' = game_fn_identity_call_count
  BY DoState, FieldFacts DEF MockStep
<1>3. /\ mock'.mods = Test /\ mock'.path = mock.path
      /\ mock'.update_called = mock.update_called
      /\ Test = "resource_reloading" => mock'.update_count = 0
  BY <1>1, <1>2 DEF MockFields
<1> QED BY <1>2, <1>3

LEMMA MockCompile ==
  ASSUME MockStep(Do("compile"))
  PROVE  /\ GoesOn /\ mock'.mods = mock.mods /\ mock'.path = Test
         /\ mock'.update_called = mock.update_called
         /\ game_fn_identity_call_count' = game_fn_identity_call_count
<1>1. MockFields
  BY DEF MockStep, KindInv, MockFields
<1>2. mock' = [mock EXCEPT !.path = Test]
  BY DoCompile, FieldFacts DEF MockStep
<1>3. /\ mock'.mods = mock.mods /\ mock'.path = Test
      /\ mock'.update_called = mock.update_called
  BY <1>1, <1>2 DEF MockFields
<1> QED BY <1>3, DoCompile, FieldFacts DEF MockStep

LEMMA MockCreate ==
  ASSUME NEW id, MockStep(CreateEntity(id))
  PROVE  /\ GoesOn /\ mock'.mods = mock.mods /\ mock'.path = Test
         /\ mock'.update_called = mock.update_called
         /\ game_fn_identity_call_count' = game_fn_identity_call_count
               + IF Test = "code_reloading_destroyed_entity" THEN 1 ELSE 0
<1>1. MockFields
  BY DEF MockStep, KindInv, MockFields
<1>2. Head(code).do = "create"
  BY FieldFacts DEF MockStep
<1>3. mock' = [mock EXCEPT !.path = Test]
  BY <1>2, DoCreate DEF MockStep
<1>4. /\ mock'.mods = mock.mods /\ mock'.path = Test
      /\ mock'.update_called = mock.update_called
  BY <1>1, <1>3 DEF MockFields
<1> QED BY <1>2, <1>4, DoCreate DEF MockStep

LEMMA MockCall ==
  ASSUME MockStep(Do("call"))
  PROVE  /\ GoesOn /\ mock'.mods = mock.mods /\ mock'.path = mock.path
         /\ ~mock'.update_called
         /\ game_fn_initialize_x' =
               IF mock.path = "code_reloading" /\ mock.update_called THEN 2 ELSE 1
<1>1. MockFields
  BY DEF MockStep, KindInv, MockFields
<1>2. mock' = [mock EXCEPT !.update_called = FALSE]
  BY DoCall, FieldFacts DEF MockStep
<1>3. ~mock'.update_called /\ mock'.mods = mock.mods /\ mock'.path = mock.path
  BY <1>1, <1>2 DEF MockFields
<1> QED BY <1>3, DoCall, FieldFacts DEF MockStep

LEMMA MockAssert ==
  ASSUME NEW step, MockStep(step), Asserts(step), Holds(step)
  PROVE  GoesOn /\ KeepsMock /\ updated' = updated
         /\ game_fn_identity_call_count' = game_fn_identity_call_count
<1>1. step.do \in {"expect_number", "expect_identity", "expect_msg", "expect_resources"}
  BY FieldFacts DEF Asserts
<1> QED BY <1>1, DoAssert DEF MockStep, KeepsMock

LEMMA MockUpdates ==
  ASSUME MockStep(Do("update")), mock.mods = Test
  PROVE  /\ GoesOn /\ mock'.mods = mock.mods /\ mock'.path = mock.path
         /\ Test = "resource_reloading" =>
              /\ updated' = CASE mock.update_count = 1 -> {"new"}
                              [] mock.update_count = 2 -> {"existing"}
                              [] OTHER                 -> {}
              /\ mock'.update_count = mock.update_count + 1 /\ msg' = NULL
              /\ mock'.update_called = mock.update_called
         /\ Test = "code_reloading_new_file" =>
              msg' = Test /\ mock'.update_called = mock.update_called
         /\ Test = "code_reloading_empty_file" /\ mock.path = Test =>
              msg' = Test /\ mock'.update_called = mock.update_called
         /\ Test = "code_reloading_destroyed_entity" /\ mock.path = Test =>
              /\ msg' = NULL /\ mock'.update_called = mock.update_called
              /\ game_fn_identity_call_count' = game_fn_identity_call_count + 1
         /\ Test = "code_reloading" /\ mock.path = Test => msg' = NULL /\ mock'.update_called
<1>1. MockFields
  BY DEF MockStep, KindInv, MockFields
<1>2. /\ GoesOn
      /\ Test = "resource_reloading" =>
           /\ updated' = CASE mock.update_count = 1 -> {"new"}
                           [] mock.update_count = 2 -> {"existing"}
                           [] OTHER                 -> {}
           /\ mock' = [mock EXCEPT !.update_count = @ + 1] /\ msg' = NULL
      /\ Test = "code_reloading_new_file" => msg' = Test /\ mock' = mock
      /\ Test = "code_reloading_empty_file" /\ mock.path = Test => msg' = Test /\ mock' = mock
      /\ Test = "code_reloading_destroyed_entity" /\ mock.path = Test =>
           /\ msg' = NULL /\ mock' = mock
           /\ game_fn_identity_call_count' = game_fn_identity_call_count + 1
      /\ Test = "code_reloading" /\ mock.path = Test =>
           msg' = NULL /\ mock' = [mock EXCEPT !.update_called = TRUE]
  BY DoMockUpdate, FieldFacts DEF MockStep
<1>3. InTest
  BY DEF MockStep
<1>4. CASE Test = "resource_reloading"
  BY <1>1, <1>2, <1>4 DEF MockFields
<1>5. CASE Test = "code_reloading_new_file"
  BY <1>2, <1>5
<1>6. GoesOn /\ mock'.mods = mock.mods /\ mock'.path = mock.path
  BY <1>1, DoMockUpdate, FieldFacts DEF MockStep, MockFields
<1>7. CASE Test = "code_reloading" /\ mock.path = Test
  BY <1>1, <1>2, <1>7 DEF MockFields
<1> QED BY <1>2, <1>3, <1>4, <1>5, <1>6, <1>7

LEMMA MockCodeReloadingNext ==
  ASSUME NEW k, NEW p, p = Steps("code_reloading"), IsRest(p, code, k),
         Test = "code_reloading", MockStep(p[k]),
         MakesDir(k), MockCodeReloading(k)
  PROVE  \/ k = 17
         \/ k < 17 /\ GoesOn /\ MakesDir(k + 1)' /\ MockCodeReloading(k + 1)'
<1>1. /\ p[1] = Do("temp_dir") /\ p[2] = Do("mod_dir") /\ p[3] = Do("state")
      /\ p[4] = Write("script", 1) /\ p[5] = Do("compile") /\ p[6] = CreateEntity(1)
      /\ p[7] = Do("call") /\ p[8] = ExpectNumber(1)
      /\ p[9] = Write("script", 2) /\ p[10] = Do("update")
      /\ p[11] = ExpectMsg(NULL) /\ p[12] = Do("call") /\ p[13] = ExpectNumber(2)
      /\ p[14] = DestroyEntity(1) /\ p[15] = Do("destroy_file")
      /\ p[16] = Do("destroy_state")
      /\ Len(p) = 17
  BY CodeReloadingSteps
<1>2. k \in 1..17
  BY <1>1 DEF IsRest
<1> USE DEF MakesDir, MockCodeReloading, KeepsMock, GoesOn
<1>3. CASE k = 1
  <2>1. MockStep(Do("temp_dir"))
    BY <1>1, <1>3
  <2> QED BY <2>1, <1>3, SameTest, MockTempDir
<1>4. CASE k = 2
  <2>1. MockStep(Do("mod_dir"))
    BY <1>1, <1>4
  <2> QED BY <2>1, <1>4, SameTest, MockFiles
<1>5. CASE k = 3
  <2>1. MockStep(Do("state"))
    BY <1>1, <1>5
  <2> QED BY <2>1, <1>5, SameTest, MockState
<1>6. CASE k = 4
  <2>1. MockStep(Write("script", 1))
    BY <1>1, <1>6
  <2> QED BY <2>1, <1>6, SameTest, MockFiles
<1>7. CASE k = 5
  <2>1. MockStep(Do("compile"))
    BY <1>1, <1>7
  <2> QED BY <2>1, <1>7, SameTest, MockCompile
<1>8. CASE k = 6
  <2>1. MockStep(CreateEntity(1))
    BY <1>1, <1>8
  <2> QED BY <2>1, <1>8, SameTest, MockCreate
<1>9. CASE k = 7
  <2>1. MockStep(Do("call"))
    BY <1>1, <1>9
  <2> QED BY <2>1, <1>9, SameTest, MockCall
<1>10. CASE k = 8
  <2>1. MockStep(ExpectNumber(1)) /\ Asserts(ExpectNumber(1)) /\ Holds(ExpectNumber(1))
    BY <1>1, <1>10, HoldsFacts, AssertsFacts
  <2> QED BY <2>1, <1>10, SameTest, MockAssert
<1>11. CASE k = 9
  <2>1. MockStep(Write("script", 2))
    BY <1>1, <1>11
  <2> QED BY <2>1, <1>11, SameTest, MockFiles
<1>12. CASE k = 10
  <2>1. MockStep(Do("update"))
    BY <1>1, <1>12
  <2> QED BY <2>1, <1>12, SameTest, MockUpdates
<1>13. CASE k = 11
  <2>1. MockStep(ExpectMsg(NULL)) /\ Asserts(ExpectMsg(NULL)) /\ Holds(ExpectMsg(NULL))
    BY <1>1, <1>13, HoldsFacts, AssertsFacts
  <2> QED BY <2>1, <1>13, SameTest, MockAssert
<1>14. CASE k = 12
  <2>1. MockStep(Do("call"))
    BY <1>1, <1>14
  <2> QED BY <2>1, <1>14, SameTest, MockCall
<1>15. CASE k = 13
  <2>1. MockStep(ExpectNumber(2)) /\ Asserts(ExpectNumber(2)) /\ Holds(ExpectNumber(2))
    BY <1>1, <1>15, HoldsFacts, AssertsFacts
  <2> QED BY <2>1, <1>15, SameTest, MockAssert
<1>16. CASE k = 14
  <2>1. MockStep(DestroyEntity(1))
    BY <1>1, <1>16
  <2> QED BY <2>1, <1>16, SameTest, MockFiles
<1>17. CASE k = 15
  <2>1. MockStep(Do("destroy_file"))
    BY <1>1, <1>17
  <2> QED BY <2>1, <1>17, SameTest, MockEnds
<1>18. CASE k = 16
  <2>1. MockStep(Do("destroy_state"))
    BY <1>1, <1>18
  <2> QED BY <2>1, <1>18, SameTest, MockEnds
<1>19. CASE k = 17
  BY <1>19
<1> HIDE DEF MakesDir, MockCodeReloading, KeepsMock, GoesOn
<1> QED BY <1>2, <1>3, <1>4, <1>5, <1>6, <1>7, <1>8, <1>9, <1>10, <1>11, <1>12, <1>13,
           <1>14, <1>15, <1>16, <1>17, <1>18, <1>19

LEMMA MockDestroyedEntityNext ==
  ASSUME NEW k, NEW p, p = Steps("code_reloading_destroyed_entity"), IsRest(p, code, k),
         Test = "code_reloading_destroyed_entity", MockStep(p[k]),
         MakesDir(k), MockDestroyedEntity(k), ~mock.update_called
  PROVE  \/ k = 17
         \/ k < 17 /\ GoesOn /\ MakesDir(k + 1)' /\ MockDestroyedEntity(k + 1)' /\ ~mock'.update_called
<1>1. /\ p[1] = Do("temp_dir") /\ p[2] = Do("mod_dir") /\ p[3] = Do("state")
      /\ p[4] = Write("script", 1) /\ p[5] = Do("compile")
      /\ p[6] = CreateEntity(1) /\ p[7] = CreateEntity(2)
      /\ p[8] = ExpectIdentity(2) /\ p[9] = DestroyEntity(2)
      /\ p[10] = Write("script", 2) /\ p[11] = Do("update")
      /\ p[12] = ExpectMsg(NULL) /\ p[13] = ExpectIdentity(3)
      /\ p[14] = DestroyEntity(1) /\ p[15] = Do("destroy_file")
      /\ p[16] = Do("destroy_state")
      /\ Len(p) = 17
  BY DestroyedEntitySteps
<1>2. k \in 1..17
  BY <1>1 DEF IsRest
<1> USE DEF MakesDir, MockDestroyedEntity, KeepsMock, GoesOn
<1>3. CASE k = 1
  <2>1. MockStep(Do("temp_dir"))
    BY <1>1, <1>3
  <2> QED BY <2>1, <1>3, SameTest, MockTempDir
<1>4. CASE k = 2
  <2>1. MockStep(Do("mod_dir"))
    BY <1>1, <1>4
  <2> QED BY <2>1, <1>4, SameTest, MockFiles
<1>5. CASE k = 3
  <2>1. MockStep(Do("state"))
    BY <1>1, <1>5
  <2> QED BY <2>1, <1>5, SameTest, MockState
<1>6. CASE k = 4
  <2>1. MockStep(Write("script", 1))
    BY <1>1, <1>6
  <2> QED BY <2>1, <1>6, SameTest, MockFiles
<1>7. CASE k = 5
  <2>1. MockStep(Do("compile"))
    BY <1>1, <1>7
  <2> QED BY <2>1, <1>7, SameTest, MockCompile
<1>8. CASE k = 6
  <2>1. MockStep(CreateEntity(1))
    BY <1>1, <1>8
  <2> QED BY <2>1, <1>8, SameTest, MockCreate
<1>9. CASE k = 7
  <2>1. MockStep(CreateEntity(2))
    BY <1>1, <1>9
  <2> QED BY <2>1, <1>9, SameTest, MockCreate
<1>10. CASE k = 8
  <2>1. MockStep(ExpectIdentity(2)) /\ Asserts(ExpectIdentity(2)) /\ Holds(ExpectIdentity(2))
    BY <1>1, <1>10, HoldsFacts, AssertsFacts
  <2> QED BY <2>1, <1>10, SameTest, MockAssert
<1>11. CASE k = 9
  <2>1. MockStep(DestroyEntity(2))
    BY <1>1, <1>11
  <2> QED BY <2>1, <1>11, SameTest, MockFiles
<1>12. CASE k = 10
  <2>1. MockStep(Write("script", 2))
    BY <1>1, <1>12
  <2> QED BY <2>1, <1>12, SameTest, MockFiles
<1>13. CASE k = 11
  <2>1. MockStep(Do("update"))
    BY <1>1, <1>13
  <2> QED BY <2>1, <1>13, SameTest, MockUpdates
<1>14. CASE k = 12
  <2>1. MockStep(ExpectMsg(NULL)) /\ Asserts(ExpectMsg(NULL)) /\ Holds(ExpectMsg(NULL))
    BY <1>1, <1>14, HoldsFacts, AssertsFacts
  <2> QED BY <2>1, <1>14, SameTest, MockAssert
<1>15. CASE k = 13
  <2>1. MockStep(ExpectIdentity(3)) /\ Asserts(ExpectIdentity(3)) /\ Holds(ExpectIdentity(3))
    BY <1>1, <1>15, HoldsFacts, AssertsFacts
  <2> QED BY <2>1, <1>15, SameTest, MockAssert
<1>16. CASE k = 14
  <2>1. MockStep(DestroyEntity(1))
    BY <1>1, <1>16
  <2> QED BY <2>1, <1>16, SameTest, MockFiles
<1>17. CASE k = 15
  <2>1. MockStep(Do("destroy_file"))
    BY <1>1, <1>17
  <2> QED BY <2>1, <1>17, SameTest, MockEnds
<1>18. CASE k = 16
  <2>1. MockStep(Do("destroy_state"))
    BY <1>1, <1>18
  <2> QED BY <2>1, <1>18, SameTest, MockEnds
<1>19. CASE k = 17
  BY <1>19
<1> HIDE DEF MakesDir, MockDestroyedEntity, KeepsMock, GoesOn
<1> QED BY <1>2, <1>3, <1>4, <1>5, <1>6, <1>7, <1>8, <1>9, <1>10, <1>11, <1>12, <1>13,
           <1>14, <1>15, <1>16, <1>17, <1>18, <1>19

LEMMA MockEmptyFileNext ==
  ASSUME NEW k, NEW p, p = Steps("code_reloading_empty_file"), IsRest(p, code, k),
         Test = "code_reloading_empty_file", MockStep(p[k]),
         MakesDir(k), MockEmptyFile(k), ~mock.update_called
  PROVE  \/ k = 15
         \/ k < 15 /\ GoesOn /\ MakesDir(k + 1)' /\ MockEmptyFile(k + 1)' /\ ~mock'.update_called
<1>1. /\ p[1] = Do("temp_dir") /\ p[2] = Do("mod_dir") /\ p[3] = Do("state")
      /\ p[4] = Write("script", 1) /\ p[5] = Do("compile") /\ p[6] = CreateEntity(1)
      /\ p[7] = Write("script", Empty) /\ p[8] = Do("update")
      /\ p[9] = ExpectMsg("code_reloading_empty_file")
      /\ p[10] = Do("call") /\ p[11] = ExpectNumber(1)
      /\ p[12] = DestroyEntity(1) /\ p[13] = Do("destroy_file")
      /\ p[14] = Do("destroy_state")
      /\ Len(p) = 15
  BY EmptyFileSteps
<1>2. k \in 1..15
  BY <1>1 DEF IsRest
<1> USE DEF MakesDir, MockEmptyFile, KeepsMock, GoesOn
<1>3. CASE k = 1
  <2>1. MockStep(Do("temp_dir"))
    BY <1>1, <1>3
  <2> QED BY <2>1, <1>3, SameTest, MockTempDir
<1>4. CASE k = 2
  <2>1. MockStep(Do("mod_dir"))
    BY <1>1, <1>4
  <2> QED BY <2>1, <1>4, SameTest, MockFiles
<1>5. CASE k = 3
  <2>1. MockStep(Do("state"))
    BY <1>1, <1>5
  <2> QED BY <2>1, <1>5, SameTest, MockState
<1>6. CASE k = 4
  <2>1. MockStep(Write("script", 1))
    BY <1>1, <1>6
  <2> QED BY <2>1, <1>6, SameTest, MockFiles
<1>7. CASE k = 5
  <2>1. MockStep(Do("compile"))
    BY <1>1, <1>7
  <2> QED BY <2>1, <1>7, SameTest, MockCompile
<1>8. CASE k = 6
  <2>1. MockStep(CreateEntity(1))
    BY <1>1, <1>8
  <2> QED BY <2>1, <1>8, SameTest, MockCreate
<1>9. CASE k = 7
  <2>1. MockStep(Write("script", Empty))
    BY <1>1, <1>9
  <2> QED BY <2>1, <1>9, SameTest, MockFiles
<1>10. CASE k = 8
  <2>1. MockStep(Do("update"))
    BY <1>1, <1>10
  <2> QED BY <2>1, <1>10, SameTest, MockUpdates
<1>11. CASE k = 9
  <2>1. /\ MockStep(ExpectMsg("code_reloading_empty_file"))
        /\ Asserts(ExpectMsg("code_reloading_empty_file"))
        /\ Holds(ExpectMsg("code_reloading_empty_file"))
    BY <1>1, <1>11, HoldsFacts, AssertsFacts
  <2> QED BY <2>1, <1>11, SameTest, MockAssert
<1>12. CASE k = 10
  <2>1. MockStep(Do("call"))
    BY <1>1, <1>12
  <2> QED BY <2>1, <1>12, SameTest, MockCall
<1>13. CASE k = 11
  <2>1. MockStep(ExpectNumber(1)) /\ Asserts(ExpectNumber(1)) /\ Holds(ExpectNumber(1))
    BY <1>1, <1>13, HoldsFacts, AssertsFacts
  <2> QED BY <2>1, <1>13, SameTest, MockAssert
<1>14. CASE k = 12
  <2>1. MockStep(DestroyEntity(1))
    BY <1>1, <1>14
  <2> QED BY <2>1, <1>14, SameTest, MockFiles
<1>15. CASE k = 13
  <2>1. MockStep(Do("destroy_file"))
    BY <1>1, <1>15
  <2> QED BY <2>1, <1>15, SameTest, MockEnds
<1>16. CASE k = 14
  <2>1. MockStep(Do("destroy_state"))
    BY <1>1, <1>16
  <2> QED BY <2>1, <1>16, SameTest, MockEnds
<1>17. CASE k = 15
  BY <1>17
<1> HIDE DEF MakesDir, MockEmptyFile, KeepsMock, GoesOn
<1> QED BY <1>2, <1>3, <1>4, <1>5, <1>6, <1>7, <1>8, <1>9, <1>10, <1>11, <1>12, <1>13,
           <1>14, <1>15, <1>16, <1>17

LEMMA MockNewFileNext ==
  ASSUME NEW k, NEW p, p = Steps("code_reloading_new_file"), IsRest(p, code, k),
         Test = "code_reloading_new_file", MockStep(p[k]),
         MakesDir(k), MockNewFile(k), ~mock.update_called
  PROVE  \/ k = 8
         \/ k < 8 /\ GoesOn /\ MakesDir(k + 1)' /\ MockNewFile(k + 1)' /\ ~mock'.update_called
<1>1. /\ p[1] = Do("temp_dir") /\ p[2] = Do("state") /\ p[3] = Do("mod_dir")
      /\ p[4] = Write("script", Empty) /\ p[5] = Do("update")
      /\ p[6] = ExpectMsg("code_reloading_new_file")
      /\ p[7] = Do("destroy_state")
      /\ Len(p) = 8
  BY NewFileSteps
<1>2. k \in 1..8
  BY <1>1 DEF IsRest
<1> USE DEF MakesDir, MockNewFile, KeepsMock, GoesOn
<1>3. CASE k = 1
  <2>1. MockStep(Do("temp_dir"))
    BY <1>1, <1>3
  <2> QED BY <2>1, <1>3, SameTest, MockTempDir
<1>4. CASE k = 2
  <2>1. MockStep(Do("state"))
    BY <1>1, <1>4
  <2> QED BY <2>1, <1>4, SameTest, MockState
<1>5. CASE k = 3
  <2>1. MockStep(Do("mod_dir"))
    BY <1>1, <1>5
  <2> QED BY <2>1, <1>5, SameTest, MockFiles
<1>6. CASE k = 4
  <2>1. MockStep(Write("script", Empty))
    BY <1>1, <1>6
  <2> QED BY <2>1, <1>6, SameTest, MockFiles
<1>7. CASE k = 5
  <2>1. MockStep(Do("update"))
    BY <1>1, <1>7
  <2> QED BY <2>1, <1>7, SameTest, MockUpdates
<1>8. CASE k = 6
  <2>1. /\ MockStep(ExpectMsg("code_reloading_new_file"))
        /\ Asserts(ExpectMsg("code_reloading_new_file"))
        /\ Holds(ExpectMsg("code_reloading_new_file"))
    BY <1>1, <1>8, HoldsFacts, AssertsFacts
  <2> QED BY <2>1, <1>8, SameTest, MockAssert
<1>9. CASE k = 7
  <2>1. MockStep(Do("destroy_state"))
    BY <1>1, <1>9
  <2> QED BY <2>1, <1>9, SameTest, MockEnds
<1>10. CASE k = 8
  BY <1>10
<1> HIDE DEF MakesDir, MockNewFile, KeepsMock, GoesOn
<1> QED BY <1>2, <1>3, <1>4, <1>5, <1>6, <1>7, <1>8, <1>9, <1>10

LEMMA MockResourcesNext ==
  ASSUME NEW k, NEW p, p = Steps("resource_reloading"), IsRest(p, code, k),
         Test = "resource_reloading", MockStep(p[k]),
         MakesDir(k), MockResources(k), ~mock.update_called
  PROVE  \/ k = 20
         \/ k < 20 /\ GoesOn /\ MakesDir(k + 1)' /\ MockResources(k + 1)' /\ ~mock'.update_called
<1>1. /\ p[1] = Do("temp_dir") /\ p[2] = Do("mod_dir") /\ p[3] = Write("existing", 1)
      /\ p[4] = Do("state") /\ p[5] = Do("update") /\ p[6] = ExpectMsg(NULL)
      /\ p[7] = ExpectNoResources /\ p[8] = Write("new", 1) /\ p[9] = Do("update")
      /\ p[10] = ExpectMsg(NULL) /\ p[11] = ExpectResources({"new"}, {"existing"})
      /\ p[12] = Write("existing", 2) /\ p[13] = Do("update")
      /\ p[14] = ExpectMsg(NULL) /\ p[15] = ExpectResources({"existing"}, {"new"})
      /\ p[16] = Do("update") /\ p[17] = ExpectMsg(NULL) /\ p[18] = ExpectNoResources
      /\ p[19] = Do("destroy_state")
      /\ Len(p) = 20
  BY ResourceSteps
<1>2. k \in 1..20
  BY <1>1 DEF IsRest
<1> USE DEF MakesDir, MockResources, KeepsMock, GoesOn
<1>3. CASE k = 1
  <2>1. MockStep(Do("temp_dir"))
    BY <1>1, <1>3
  <2> QED BY <2>1, <1>3, SameTest, MockTempDir
<1>4. CASE k = 2
  <2>1. MockStep(Do("mod_dir"))
    BY <1>1, <1>4
  <2> QED BY <2>1, <1>4, SameTest, MockFiles
<1>5. CASE k = 3
  <2>1. MockStep(Write("existing", 1))
    BY <1>1, <1>5
  <2> QED BY <2>1, <1>5, SameTest, MockFiles
<1>6. CASE k = 4
  <2>1. MockStep(Do("state"))
    BY <1>1, <1>6
  <2> QED BY <2>1, <1>6, SameTest, MockState
<1>7. CASE k = 5
  <2>1. MockStep(Do("update"))
    BY <1>1, <1>7
  <2> QED BY <2>1, <1>7, SameTest, MockUpdates
<1>8. CASE k = 6
  <2>1. MockStep(ExpectMsg(NULL)) /\ Asserts(ExpectMsg(NULL)) /\ Holds(ExpectMsg(NULL))
    BY <1>1, <1>8, HoldsFacts, AssertsFacts
  <2> QED BY <2>1, <1>8, SameTest, MockAssert
<1>9. CASE k = 7
  <2>1. MockStep(ExpectNoResources) /\ Asserts(ExpectNoResources) /\ Holds(ExpectNoResources)
    BY <1>1, <1>9, HoldsFacts, AssertsFacts
  <2> QED BY <2>1, <1>9, SameTest, MockAssert
<1>10. CASE k = 8
  <2>1. MockStep(Write("new", 1))
    BY <1>1, <1>10
  <2> QED BY <2>1, <1>10, SameTest, MockFiles
<1>11. CASE k = 9
  <2>1. MockStep(Do("update"))
    BY <1>1, <1>11
  <2> QED BY <2>1, <1>11, SameTest, MockUpdates
<1>12. CASE k = 10
  <2>1. MockStep(ExpectMsg(NULL)) /\ Asserts(ExpectMsg(NULL)) /\ Holds(ExpectMsg(NULL))
    BY <1>1, <1>12, HoldsFacts, AssertsFacts
  <2> QED BY <2>1, <1>12, SameTest, MockAssert
<1>13. CASE k = 11
  <2>1. /\ MockStep(ExpectResources({"new"}, {"existing"}))
        /\ Asserts(ExpectResources({"new"}, {"existing"}))
        /\ Holds(ExpectResources({"new"}, {"existing"}))
    BY <1>1, <1>13, HoldsFacts, AssertsFacts
  <2> QED BY <2>1, <1>13, SameTest, MockAssert
<1>14. CASE k = 12
  <2>1. MockStep(Write("existing", 2))
    BY <1>1, <1>14
  <2> QED BY <2>1, <1>14, SameTest, MockFiles
<1>15. CASE k = 13
  <2>1. MockStep(Do("update"))
    BY <1>1, <1>15
  <2> QED BY <2>1, <1>15, SameTest, MockUpdates
<1>16. CASE k = 14
  <2>1. MockStep(ExpectMsg(NULL)) /\ Asserts(ExpectMsg(NULL)) /\ Holds(ExpectMsg(NULL))
    BY <1>1, <1>16, HoldsFacts, AssertsFacts
  <2> QED BY <2>1, <1>16, SameTest, MockAssert
<1>17. CASE k = 15
  <2>1. /\ MockStep(ExpectResources({"existing"}, {"new"}))
        /\ Asserts(ExpectResources({"existing"}, {"new"}))
        /\ Holds(ExpectResources({"existing"}, {"new"}))
    BY <1>1, <1>17, HoldsFacts, AssertsFacts
  <2> QED BY <2>1, <1>17, SameTest, MockAssert
<1>18. CASE k = 16
  <2>1. MockStep(Do("update"))
    BY <1>1, <1>18
  <2> QED BY <2>1, <1>18, SameTest, MockUpdates
<1>19. CASE k = 17
  <2>1. MockStep(ExpectMsg(NULL)) /\ Asserts(ExpectMsg(NULL)) /\ Holds(ExpectMsg(NULL))
    BY <1>1, <1>19, HoldsFacts, AssertsFacts
  <2> QED BY <2>1, <1>19, SameTest, MockAssert
<1>20. CASE k = 18
  <2>1. MockStep(ExpectNoResources) /\ Asserts(ExpectNoResources) /\ Holds(ExpectNoResources)
    BY <1>1, <1>20, HoldsFacts, AssertsFacts
  <2> QED BY <2>1, <1>20, SameTest, MockAssert
<1>21. CASE k = 19
  <2>1. MockStep(Do("destroy_state"))
    BY <1>1, <1>21
  <2> QED BY <2>1, <1>21, SameTest, MockEnds
<1>22. CASE k = 20
  BY <1>22
<1> HIDE DEF MakesDir, MockResources, KeepsMock, GoesOn
<1> QED BY <1>2, <1>3, <1>4, <1>5, <1>6, <1>7, <1>8, <1>9, <1>10, <1>11, <1>12, <1>13,
           <1>14, <1>15, <1>16, <1>17, <1>18, <1>19, <1>20, <1>21, <1>22

---------------------------------------------------------------------------
(* Every test. *)

LEMMA AllTests ==
  ASSUME NEW test \in Tests
  PROVE  test \in {"code_reloading", "code_reloading_destroyed_entity",
                   "code_reloading_empty_file", "code_reloading_new_file", "resource_reloading"}
BY OrderFacts

\* A test ends with the clean-up.
LEMMA LastSteps ==
  ASSUME NEW test \in Tests, NEW p, p = Steps(test), NEW n, n = Len(p)
  PROVE  /\ n \in Nat /\ n > 2
         /\ p[n - 1] = Do("destroy_state") /\ p[n] = Do("remove_dir")
         /\ IsRest(p, Cleanup, n - 1) /\ IsRest(p, p, 1)
<1>1. /\ n \in Nat /\ n > 2
      /\ p[n - 1] = Do("destroy_state") /\ p[n] = Do("remove_dir")
  <2>1. CASE test = "code_reloading"
    <3>1. n = 17 /\ p[16] = Do("destroy_state") /\ p[17] = Do("remove_dir")
      BY <2>1, CodeReloadingSteps
    <3> QED BY <3>1
  <2>2. CASE test = "code_reloading_destroyed_entity"
    <3>1. n = 17 /\ p[16] = Do("destroy_state") /\ p[17] = Do("remove_dir")
      BY <2>2, DestroyedEntitySteps
    <3> QED BY <3>1
  <2>3. CASE test = "code_reloading_empty_file"
    <3>1. n = 15 /\ p[14] = Do("destroy_state") /\ p[15] = Do("remove_dir")
      BY <2>3, EmptyFileSteps
    <3> QED BY <3>1
  <2>4. CASE test = "code_reloading_new_file"
    <3>1. n = 8 /\ p[7] = Do("destroy_state") /\ p[8] = Do("remove_dir")
      BY <2>4, NewFileSteps
    <3> QED BY <3>1
  <2>5. CASE test = "resource_reloading"
    <3>1. n = 20 /\ p[19] = Do("destroy_state") /\ p[20] = Do("remove_dir")
      BY <2>5, ResourceSteps
    <3> QED BY <3>1
  <2> QED BY <2>1, <2>2, <2>3, <2>4, <2>5, AllTests
<1>2. Len(Cleanup) = 2 /\ Cleanup[1] = Do("destroy_state") /\ Cleanup[2] = Do("remove_dir")
  BY DEF Cleanup
<1>3. IsRest(p, Cleanup, n - 1)
  <2>1. ASSUME NEW i \in 1..Len(Cleanup)
        PROVE  Cleanup[i] = p[(n - 1) + i - 1]
    <3>1. i \in {1, 2} /\ (n - 1) + 1 - 1 = n - 1 /\ (n - 1) + 2 - 1 = n
      BY <1>1, <1>2
    <3> QED BY <1>1, <1>2, <3>1
  <2> QED BY <1>1, <1>2, <2>1 DEF IsRest
<1>4. IsRest(p, p, 1)
  BY <1>1 DEF IsRest
<1> QED BY <1>1, <1>3, <1>4

LEMMA GrugTestNext ==
  ASSUME NEW k, NEW p, p = Steps(Test), IsRest(p, code, k), code \in Seq(Step),
         GrugStep(p[k]), StepInv(k), LeftBehindInv, selected = NULL \/ selected = Test
  PROVE  \/ k = Len(p)
         \/ k < Len(p) /\ GoesOn /\ StepInv(k + 1)'
         \/ Fails /\ implementation # "grug" /\ StepInv(Len(p) - 1)'
<1>1. /\ MakesDir(k) /\ GrugInv(k) /\ Test \in Tests /\ implementation \notin {"mock"} /\ ~IsMock
  BY DEF StepInv, GrugStep, InTest, IsMock
<1>2. GoesOn \/ Fails => Test' = Test /\ ~IsMock'
  BY <1>1, SameTest DEF GoesOn, Fails, IsMock
<1>3. CASE Test = "code_reloading"
  <2>1. Len(p) = 17 /\ GrugCodeReloading(k)
    BY <1>1, <1>3, CodeReloadingSteps DEF GrugInv
  <2>2. \/ k = 17
        \/ k < 17 /\ GoesOn /\ MakesDir(k + 1)' /\ GrugCodeReloading(k + 1)'
        \/ Fails /\ implementation # "grug" /\ GrugCodeReloading(16)'
    BY <1>1, <1>3, <2>1, GrugCodeReloadingNext
  <2>3. (Fails => MakesDir(16)') /\ Len(p) - 1 = 16
    BY <2>1 DEF MakesDir
  <2> QED BY <1>2, <1>3, <2>1, <2>2, <2>3 DEF StepInv, GrugInv
<1>4. CASE Test = "code_reloading_destroyed_entity"
  <2>1. Len(p) = 17 /\ GrugDestroyedEntity(k)
    BY <1>1, <1>4, DestroyedEntitySteps DEF GrugInv
  <2>2. \/ k = 17
        \/ k < 17 /\ GoesOn /\ MakesDir(k + 1)' /\ GrugDestroyedEntity(k + 1)'
        \/ Fails /\ implementation # "grug" /\ GrugDestroyedEntity(16)'
    BY <1>1, <1>4, <2>1, GrugDestroyedEntityNext
  <2>3. (Fails => MakesDir(16)') /\ Len(p) - 1 = 16
    BY <2>1 DEF MakesDir
  <2> QED BY <1>2, <1>4, <2>1, <2>2, <2>3 DEF StepInv, GrugInv
<1>5. CASE Test = "code_reloading_empty_file"
  <2>1. Len(p) = 15 /\ GrugEmptyFile(k)
    BY <1>1, <1>5, EmptyFileSteps DEF GrugInv
  <2>2. implementation = "empty_replaces" => game_fn_initialize_x # 1
    BY <1>5 DEF LeftBehindInv, GrugStep, InTest
  <2>3. \/ k = 15
        \/ k < 15 /\ GoesOn /\ MakesDir(k + 1)' /\ GrugEmptyFile(k + 1)'
        \/ Fails /\ implementation # "grug" /\ GrugEmptyFile(14)'
    BY <1>1, <1>5, <2>1, <2>2, GrugEmptyFileNext
  <2>4. (Fails => MakesDir(14)') /\ Len(p) - 1 = 14
    BY <2>1 DEF MakesDir
  <2> QED BY <1>2, <1>5, <2>1, <2>3, <2>4 DEF StepInv, GrugInv
<1>6. CASE Test = "code_reloading_new_file"
  <2>1. Len(p) = 8 /\ GrugNewFile(k)
    BY <1>1, <1>6, NewFileSteps DEF GrugInv
  <2>2. \/ k = 8
        \/ k < 8 /\ GoesOn /\ MakesDir(k + 1)' /\ GrugNewFile(k + 1)'
        \/ Fails /\ implementation # "grug" /\ GrugNewFile(7)'
    BY <1>1, <1>6, <2>1, GrugNewFileNext
  <2>3. (Fails => MakesDir(7)') /\ Len(p) - 1 = 7
    BY <2>1 DEF MakesDir
  <2> QED BY <1>2, <1>6, <2>1, <2>2, <2>3 DEF StepInv, GrugInv
<1>7. CASE Test = "resource_reloading"
  <2>1. Len(p) = 20 /\ GrugResources(k)
    BY <1>1, <1>7, ResourceSteps DEF GrugInv
  <2>2. \/ k = 20
        \/ k < 20 /\ GoesOn /\ MakesDir(k + 1)' /\ GrugResources(k + 1)'
        \/ Fails /\ implementation # "grug" /\ GrugResources(19)'
    BY <1>1, <1>7, <2>1, GrugResourcesNext
  <2>3. (Fails => MakesDir(19)') /\ Len(p) - 1 = 19
    BY <2>1 DEF MakesDir
  <2> QED BY <1>2, <1>7, <2>1, <2>2, <2>3 DEF StepInv, GrugInv
<1> QED BY <1>1, <1>3, <1>4, <1>5, <1>6, <1>7, AllTests

LEMMA MockTestNext ==
  ASSUME NEW k, NEW p, p = Steps(Test), IsRest(p, code, k), MockStep(p[k]), StepInv(k)
  PROVE  \/ k = Len(p)
         \/ k < Len(p) /\ GoesOn /\ StepInv(k + 1)'
<1>1. /\ MakesDir(k) /\ MockInv(k) /\ Test \in Tests /\ IsMock
  BY DEF StepInv, MockStep, InTest
<1>2. GoesOn => Test' = Test /\ IsMock'
  BY <1>1, SameTest DEF GoesOn, IsMock
<1>3. CASE Test = "code_reloading"
  <2>1. Len(p) = 17 /\ MockCodeReloading(k)
    BY <1>1, <1>3, CodeReloadingSteps DEF MockInv
  <2>2. \/ k = 17
        \/ k < 17 /\ GoesOn /\ MakesDir(k + 1)' /\ MockCodeReloading(k + 1)'
    BY <1>1, <1>3, <2>1, MockCodeReloadingNext
  <2> QED BY <1>2, <1>3, <2>1, <2>2 DEF StepInv, MockInv
<1>4. CASE Test = "code_reloading_destroyed_entity"
  <2>1. Len(p) = 17 /\ MockDestroyedEntity(k) /\ ~mock.update_called
    BY <1>1, <1>4, DestroyedEntitySteps DEF MockInv
  <2>2. \/ k = 17
        \/ k < 17 /\ GoesOn /\ MakesDir(k + 1)' /\ MockDestroyedEntity(k + 1)' /\ ~mock'.update_called
    BY <1>1, <1>4, <2>1, MockDestroyedEntityNext
  <2> QED BY <1>2, <1>4, <2>1, <2>2 DEF StepInv, MockInv
<1>5. CASE Test = "code_reloading_empty_file"
  <2>1. Len(p) = 15 /\ MockEmptyFile(k) /\ ~mock.update_called
    BY <1>1, <1>5, EmptyFileSteps DEF MockInv
  <2>2. \/ k = 15
        \/ k < 15 /\ GoesOn /\ MakesDir(k + 1)' /\ MockEmptyFile(k + 1)' /\ ~mock'.update_called
    BY <1>1, <1>5, <2>1, MockEmptyFileNext
  <2> QED BY <1>2, <1>5, <2>1, <2>2 DEF StepInv, MockInv
<1>6. CASE Test = "code_reloading_new_file"
  <2>1. Len(p) = 8 /\ MockNewFile(k) /\ ~mock.update_called
    BY <1>1, <1>6, NewFileSteps DEF MockInv
  <2>2. \/ k = 8
        \/ k < 8 /\ GoesOn /\ MakesDir(k + 1)' /\ MockNewFile(k + 1)' /\ ~mock'.update_called
    BY <1>1, <1>6, <2>1, MockNewFileNext
  <2> QED BY <1>2, <1>6, <2>1, <2>2 DEF StepInv, MockInv
<1>7. CASE Test = "resource_reloading"
  <2>1. Len(p) = 20 /\ MockResources(k) /\ ~mock.update_called
    BY <1>1, <1>7, ResourceSteps DEF MockInv
  <2>2. \/ k = 20
        \/ k < 20 /\ GoesOn /\ MakesDir(k + 1)' /\ MockResources(k + 1)' /\ ~mock'.update_called
    BY <1>1, <1>7, <2>1, MockResourcesNext
  <2> QED BY <1>2, <1>7, <2>1, <2>2 DEF StepInv, MockInv
<1> QED BY <1>1, <1>3, <1>4, <1>5, <1>6, <1>7, AllTests

---------------------------------------------------------------------------
(* Every step of a run. *)

\* Only a call changes game_fn_initialize_x.
LEMMA OnlyCalls ==
  ASSUME InTest, Next, ~Restart, Head(code).do # "call"
  PROVE  game_fn_initialize_x' = game_fn_initialize_x
<1>1. ~BeginTest /\ ~NextRound /\ ~Finish /\ ~Ended
  BY DEF BeginTest, NextRound, Finish, Ended, InTest
<1>2. CASE create_local_temp_dir \/ MakeModDir \/ WriteFile \/ remove_dir_recursive
  BY <1>2 DEF create_local_temp_dir, MakeModDir, WriteFile, remove_dir_recursive, game
<1>3. CASE create_grug_state \/ destroy_grug_state \/ compile_grug_file \/ destroy_grug_file
  BY <1>3 DEF create_grug_state, destroy_grug_state, compile_grug_file, destroy_grug_file, game
<1>4. CASE create_entity \/ destroy_entity \/ call_export_fn
  BY <1>4 DEF create_entity, destroy_entity, call_export_fn, At, game
<1>5. CASE MockUpdate
  BY <1>5 DEF MockUpdate, game
<1>6. CASE Update
  BY <1>6 DEF Update, game
<1>7. CASE TestAsserts
  BY <1>7 DEF TestAsserts, game
<1> QED BY <1>1, <1>2, <1>3, <1>4, <1>5, <1>6, <1>7 DEF Next

\* A call of grug in the test that expects 1 of it does not set it to what an
\* empty script stands for.
LEMMA KeepsLeftBehind ==
  ASSUME NEW k, NEW p, p = Steps(Test), IsRest(p, code, k), code \in Seq(Step),
         GrugStep(p[k]), StepInv(k), implementation = "empty_replaces", Test # "code_reloading"
  PROVE  game_fn_initialize_x' = game_fn_initialize_x
<1>1. Head(code) = p[k] /\ InTest /\ Next /\ ~Restart /\ Test \in Tests /\ ~IsMock /\ IsRest(p, code, k)
  BY DEF GrugStep, InTest
<1>2. SUFFICES ASSUME p[k].do = "call"
               PROVE  game_fn_initialize_x' = game_fn_initialize_x
  BY <1>1, OnlyCalls
<1>3. CASE Test = "code_reloading_destroyed_entity"
  <2>1. p = Steps("code_reloading_destroyed_entity")
    BY <1>3
  <2>2. Len(p) = 17 /\ \A i \in 1..17 : p[i].do # "call"
    BY ONLY <2>1, DestroyedEntitySteps, FieldFacts DEF ExpectNoResources, ExpectResources
  <2> QED BY <1>1, <1>2, <2>2 DEF IsRest
<1>4. CASE Test = "code_reloading_empty_file"
  <2>1. k = 10
    <3>1. p = Steps("code_reloading_empty_file")
      BY <1>4
    <3>2. Len(p) = 15 /\ \A i \in 1..15 : i # 10 => p[i].do # "call"
      BY ONLY <3>1, EmptyFileSteps, FieldFacts
    <3> QED BY <1>1, <1>2, <3>2 DEF IsRest
  <2>2. Tracks({1}, Empty)
    BY <1>1, <1>4, <2>1 DEF StepInv, GrugInv, GrugEmptyFile
  <2>3. GrugStep(Do("call"))
    BY <1>4, <2>1, EmptyFileSteps
  <2> QED BY <2>2, <2>3, GrugCall
<1>5. CASE Test = "code_reloading_new_file"
  <2>1. p = Steps("code_reloading_new_file")
    BY <1>5
  <2>2. Len(p) = 8 /\ \A i \in 1..8 : p[i].do # "call"
    BY ONLY <2>1, NewFileSteps, FieldFacts DEF ExpectNoResources, ExpectResources
  <2> QED BY <1>1, <1>2, <2>2 DEF IsRest
<1>6. CASE Test = "resource_reloading"
  <2>1. p = Steps("resource_reloading")
    BY <1>6
  <2>2. Len(p) = 20 /\ \A i \in 1..20 : p[i].do # "call"
    BY ONLY <2>1, ResourceSteps, FieldFacts DEF ExpectNoResources, ExpectResources
  <2> QED BY <1>1, <1>2, <2>2 DEF IsRest
<1> QED BY <1>1, <1>3, <1>4, <1>5, <1>6, AllTests

\* What a test has shown when it is done.
LEMMA AtEnd ==
  ASSUME InTest, KindInv, StepInv(Len(Steps(Test)))
  PROVE  /\ Between
         /\ implementation \in Targets[Test] => Test \in rejected
         /\ implementation = "empty_replaces" /\ Test = "code_reloading"
               => game_fn_initialize_x # 1
<1>1. Test \in Tests
  BY DEF InTest
<1>2. CASE IsMock
  <2>1. MockInv(Len(Steps(Test)))
    BY <1>2 DEF StepInv
  <2>2. ~mock.update_called
    <3>1. CASE Test = "code_reloading"
      <4>1. MockCodeReloading(17)
        BY <2>1, <3>1, CodeReloadingSteps DEF MockInv
      <4> QED BY <4>1 DEF MockCodeReloading
    <3> QED BY <2>1, <3>1 DEF MockInv
  <2>3. implementation \notin Targets[Test] /\ implementation # "empty_replaces"
    BY <1>1, <1>2, AllTests DEF IsMock, Targets
  <2> QED BY <1>2, <2>2, <2>3 DEF Between
<1>3. CASE ~IsMock
  <2>1. GrugInv(Len(Steps(Test)))
    BY <1>3 DEF StepInv
  <2>2. CASE Test = "code_reloading"
    <3>1. GrugCodeReloading(17)
      BY <2>1, <2>2, CodeReloadingSteps DEF GrugInv
    <3> QED BY <1>3, <2>2, <3>1 DEF GrugCodeReloading, Starts, Rejects, Between, Targets
  <2>3. CASE Test = "code_reloading_destroyed_entity"
    <3>1. GrugDestroyedEntity(17)
      BY <2>1, <2>3, DestroyedEntitySteps DEF GrugInv
    <3> QED BY <1>3, <2>3, <3>1 DEF GrugDestroyedEntity, Starts, Rejects, Between, Targets
  <2>4. CASE Test = "code_reloading_empty_file"
    <3>1. GrugEmptyFile(15)
      BY <2>1, <2>4, EmptyFileSteps DEF GrugInv
    <3> QED BY <1>3, <2>4, <3>1 DEF GrugEmptyFile, Starts, Rejects, Between, Targets
  <2>5. CASE Test = "code_reloading_new_file"
    <3>1. GrugNewFile(8)
      BY <2>1, <2>5, NewFileSteps DEF GrugInv
    <3> QED BY <1>3, <2>5, <3>1 DEF GrugNewFile, Rejects, Between, Targets
  <2>6. CASE Test = "resource_reloading"
    <3>1. GrugResources(20)
      BY <2>1, <2>6, ResourceSteps DEF GrugInv
    <3> QED BY <1>3, <2>6, <3>1 DEF GrugResources, Rejects, Between, Targets
  <2> QED BY <1>1, <2>2, <2>3, <2>4, <2>5, <2>6, AllTests
<1> QED BY <1>2, <1>3

LEMMA KindInvNext ==
  ASSUME ProgramInv, KindInv, [Next]_vars
  PROVE  KindInv'
<1> DEFINE Fields == [update_called : BOOLEAN, update_count : Nat,
                      path : Tests \cup {NULL, "other"}, mods : Tests \cup {NULL}]
<1>1. implementation' = implementation
  <2>1. CASE BeginTest \/ NextRound \/ Finish \/ Restart \/ Ended \/ UNCHANGED vars
    BY <2>1 DEF BeginTest, NextRound, Finish, Restart, Ended, vars, suite, options
  <2>2. CASE create_local_temp_dir \/ MakeModDir \/ WriteFile \/ remove_dir_recursive
    BY <2>2 DEF create_local_temp_dir, MakeModDir, WriteFile, remove_dir_recursive, suite, options
  <2>3. CASE create_grug_state \/ destroy_grug_state \/ compile_grug_file \/ destroy_grug_file
    BY <2>3 DEF create_grug_state, destroy_grug_state, compile_grug_file, destroy_grug_file,
                suite, options
  <2>4. CASE create_entity \/ destroy_entity \/ call_export_fn \/ TestAsserts
    BY <2>4 DEF create_entity, destroy_entity, call_export_fn, TestAsserts, suite, options
  <2>5. CASE MockUpdate \/ Update
    BY <2>5 DEF MockUpdate, Update, suite, options
  <2> QED BY <2>1, <2>2, <2>3, <2>4, <2>5 DEF Next
<1>2. clock' \in Nat
  <2>1. clock \in Nat
    BY DEF KindInv
  <2>2. CASE WriteFile
    BY <2>1, <2>2 DEF WriteFile
  <2>3. CASE ~WriteFile
    <3>1. clock' = clock
      <4>1. CASE BeginTest \/ NextRound \/ Finish \/ Restart \/ Ended \/ UNCHANGED vars
        BY <4>1 DEF BeginTest, NextRound, Finish, Restart, Ended, vars, files
      <4>2. CASE create_local_temp_dir \/ MakeModDir \/ remove_dir_recursive
        BY <4>2 DEF create_local_temp_dir, MakeModDir, remove_dir_recursive
      <4>3. CASE create_grug_state \/ destroy_grug_state \/ compile_grug_file \/ destroy_grug_file
        BY <4>3 DEF create_grug_state, destroy_grug_state, compile_grug_file, destroy_grug_file,
                    files
      <4>4. CASE create_entity \/ destroy_entity \/ call_export_fn \/ TestAsserts
        BY <4>4 DEF create_entity, destroy_entity, call_export_fn, TestAsserts, files
      <4>5. CASE MockUpdate \/ Update
        BY <4>5 DEF MockUpdate, Update, files
      <4> QED BY <2>3, <4>1, <4>2, <4>3, <4>4, <4>5 DEF Next
    <3> QED BY <2>1, <3>1
  <2> QED BY <2>2, <2>3
<1>3. mock' \in Fields
  <2>1. mock \in Fields
    BY DEF KindInv
  <2>2. code # <<>> => Test \in Tests
    BY TailFacts DEF ProgramInv, Test
  <2>3. CASE BeginTest \/ Finish \/ Ended \/ UNCHANGED vars
    BY <2>1, <2>3 DEF BeginTest, Finish, Ended, vars, state
  <2>4. CASE NextRound
    BY <2>1, <2>4 DEF NextRound
  <2>5. CASE Restart
    BY <2>5 DEF Restart, MockStart
  <2>6. CASE create_local_temp_dir \/ MakeModDir \/ WriteFile \/ remove_dir_recursive
    BY <2>1, <2>6 DEF create_local_temp_dir, MakeModDir, WriteFile, remove_dir_recursive, state
  <2>7. CASE create_grug_state
    BY <2>1, <2>2, <2>7 DEF create_grug_state, At
  <2>8. CASE destroy_grug_state \/ destroy_grug_file \/ destroy_entity \/ Update
    BY <2>1, <2>8 DEF destroy_grug_state, destroy_grug_file, destroy_entity, Update
  <2>9. CASE compile_grug_file \/ create_entity
    BY <2>1, <2>2, <2>9 DEF compile_grug_file, create_entity, At
  <2>10. CASE call_export_fn
    BY <2>1, <2>10 DEF call_export_fn
  <2>11. CASE MockUpdate
    <3>1. \/ mock' = mock
          \/ mock' = [mock EXCEPT !.update_count = @ + 1]
          \/ mock' = [mock EXCEPT !.update_called = TRUE]
      BY <2>11 DEF MockUpdate
    <3>2. CASE mock' = mock
      BY <2>1, <3>2
    <3>3. CASE mock' = [mock EXCEPT !.update_count = @ + 1]
      BY <2>1, <3>3
    <3>4. CASE mock' = [mock EXCEPT !.update_called = TRUE]
      BY <2>1, <3>4
    <3> QED BY <3>1, <3>2, <3>3, <3>4
  <2>12. CASE TestAsserts
    BY <2>1, <2>12 DEF TestAsserts, state
  <2> QED BY <2>3, <2>4, <2>5, <2>6, <2>7, <2>8, <2>9, <2>10, <2>11, <2>12 DEF Next
<1> QED BY <1>1, <1>2, <1>3 DEF KindInv

---------------------------------------------------------------------------
(* RunInv is inductive. *)

LEMMA TestFacts ==
  ASSUME ProgramInv, DirInv, KindInv, status = "running", code # <<>>
  PROVE  InTest /\ code \in Seq(Step) /\ (selected = NULL \/ selected = Test)
<1>1. left \in Seq(Tests) /\ left # <<>> /\ code \in Seq(Step)
  BY DEF ProgramInv, Programs
<1>2. Test \in Tests /\ Test = left[1] /\ 1 \in 1..Len(left)
  BY <1>1, TailFacts DEF Test
<1>3. InTest
  BY <1>1, <1>2 DEF InTest, DirInv, KindInv
<1>4. selected = NULL \/ selected = Test
  <2> SUFFICES ASSUME selected # NULL
               PROVE  selected = Test
    OBVIOUS
  <2>1. PICK k \in 1..Len(TestsOf(selected)) : TestsOf(selected)[k] = left[1]
    BY <1>2 DEF ProgramInv
  <2>2. TestsOf(selected) = <<selected>>
    BY DEF TestsOf
  <2> QED BY <1>2, <2>1, <2>2
<1> QED BY <1>1, <1>3, <1>4

\* A test's last step.
LEMMA LastStepNext ==
  ASSUME InTest, KindInv, LeftBehindInv, TargetsInv, CorrectAccepted, left \in Seq(Tests),
         StepInv(Len(Steps(Test))), remove_dir_recursive, code' = <<>>
  PROVE  PlaceInv' /\ LeftBehindInv' /\ TargetsInv' /\ CorrectAccepted'
<1>1. /\ left' = Tail(left) /\ left # <<>>
      /\ UNCHANGED <<implementation, selected, rejected, status, entities, mock>>
      /\ game_fn_initialize_x' = game_fn_initialize_x
  BY DEF remove_dir_recursive, options, state, game, InTest
<1>2. /\ Between
      /\ implementation \in Targets[Test] => Test \in rejected
      /\ implementation = "empty_replaces" /\ Test = "code_reloading"
            => game_fn_initialize_x # 1
  BY AtEnd
<1>3. PlaceInv'
  BY <1>1, <1>2 DEF PlaceInv, Between, IsMock
<1>4. LeftBehindInv'
  BY <1>1, <1>2 DEF LeftBehindInv
<1>5. TargetsInv'
  <2>1. /\ Len(left) \in Nat /\ Test = left[1] /\ Len(left') = Len(left) - 1
        /\ \A k \in 1..Len(left') : left'[k] = left[k + 1]
    BY <1>1, TailFacts DEF Test
  <2>2. ASSUME NEW test \in Tests, selected \in {test, NULL}, implementation \in Targets[test],
               test \notin rejected
        PROVE  \E i \in 1..Len(left') : left'[i] = test
    <3>1. PICK i \in 1..Len(left) : left[i] = test
      BY <2>2 DEF TargetsInv
    <3>2. i # 1
      BY <1>2, <2>1, <2>2, <3>1
    <3>3. i - 1 \in 1..Len(left') /\ left'[i - 1] = left[i]
      BY <2>1, <3>2
    <3> QED BY <3>1, <3>3
  <2> QED BY <1>1, <2>2 DEF TargetsInv, Targets
<1>6. CorrectAccepted'
  BY <1>1 DEF CorrectAccepted
<1> QED BY <1>3, <1>4, <1>5, <1>6

LEMMA InTestNext ==
  ASSUME ProgramInv, DirInv, RunInv, status = "running", code # <<>>, Next, ~Restart
  PROVE  RunInv'
<1>0. PICK p : p = Steps(Test)
  OBVIOUS
<1> DEFINE n == Len(p)
<1>1. /\ InTest /\ code \in Seq(Step) /\ (selected = NULL \/ selected = Test) /\ Test \in Tests
      /\ KindInv /\ PlaceInv /\ LeftBehindInv /\ TargetsInv /\ CorrectAccepted
  BY TestFacts DEF RunInv, InTest
<1>2. PICK k \in 1..n : IsRest(p, code, k) /\ StepInv(k)
  BY <1>0, <1>1 DEF PlaceInv
<1>3. /\ n \in Nat /\ n > 2 /\ p[n] = Do("remove_dir")
      /\ IsRest(p, Cleanup, n - 1) /\ Cleanup # <<>>
  BY <1>0, <1>1, LastSteps DEF Cleanup
<1>4. /\ Head(code) = p[k]
      /\ k < n => Tail(code) # <<>> /\ IsRest(p, Tail(code), k + 1)
      /\ k = n => Tail(code) = <<>>
  BY <1>1, <1>2, <1>3, RestFacts
<1>5. KindInv'
  BY <1>1, KindInvNext
<1> HIDE DEF n
<1>6. \/ k = n
      \/ k < n /\ GoesOn /\ StepInv(k + 1)'
      \/ Fails /\ implementation \notin {"grug", "mock"} /\ StepInv(n - 1)'
  <2>1. CASE IsMock
    <3>1. MockStep(p[k])
      BY <1>1, <1>4, <2>1 DEF MockStep
    <3> QED BY <1>0, <1>2, <3>1, MockTestNext DEF n
  <2>2. CASE ~IsMock
    <3>1. GrugStep(p[k])
      BY <1>1, <1>4, <2>2 DEF GrugStep
    <3>2. \/ k = n
          \/ k < n /\ GoesOn /\ StepInv(k + 1)'
          \/ Fails /\ implementation # "grug" /\ StepInv(n - 1)'
      BY <1>0, <1>1, <1>2, <3>1, GrugTestNext DEF n
    <3> QED BY <2>2, <3>2 DEF IsMock
  <2> QED BY <2>1, <2>2
<1>7. GoesOn \/ Fails => LeftBehindInv' /\ TargetsInv' /\ Test' = Test
  <2>1. ASSUME GoesOn \/ Fails
        PROVE  /\ implementation' = implementation /\ selected' = selected /\ left' = left
               /\ Test' = Test /\ rejected \subseteq rejected'
    BY <2>1, SameTest DEF GoesOn, Fails
  <2>2. ASSUME implementation = "empty_replaces", Test # "code_reloading"
        PROVE  game_fn_initialize_x' = game_fn_initialize_x
    <3>1. GrugStep(p[k])
      BY <1>1, <1>4, <2>2 DEF GrugStep, IsMock
    <3> QED BY <1>0, <1>1, <1>2, <2>2, <3>1, KeepsLeftBehind
  <2>3. ASSUME GoesOn \/ Fails
        PROVE  LeftBehindInv'
    <3> SUFFICES ASSUME implementation = "empty_replaces",
                        \/ selected = NULL /\ left # <<>> /\ Test # "code_reloading"
                        \/ selected = "code_reloading_empty_file"
                 PROVE  game_fn_initialize_x' # 1
      BY <2>1, <2>3 DEF LeftBehindInv
    <3>1. NULL # "code_reloading_empty_file"
      BY ReloadingAssumption, OrderFacts
    <3>2. game_fn_initialize_x # 1 /\ Test # "code_reloading"
      BY <1>1, <3>1 DEF LeftBehindInv
    <3> QED BY <2>2, <3>2
  <2>4. GoesOn \/ Fails => TargetsInv'
    BY <1>1, <2>1 DEF TargetsInv
  <2> QED BY <2>1, <2>3, <2>4
<1>8. CASE k = n
  <2>1. remove_dir_recursive /\ code' = <<>>
    <3>1. remove_dir_recursive
      BY <1>1, <1>3, <1>4, <1>8, TheAction, FieldFacts
    <3> QED BY <1>4, <1>8, <3>1 DEF remove_dir_recursive, Advance
  <2>2. left \in Seq(Tests) /\ StepInv(Len(Steps(Test)))
    BY <1>0, <1>2, <1>8 DEF ProgramInv, n
  <2> QED BY <1>1, <1>5, <2>1, <2>2, LastStepNext DEF RunInv
<1>9. CASE k < n /\ GoesOn /\ StepInv(k + 1)'
  <2>1. code' = Tail(code) /\ code' # <<>> /\ IsRest(p, code', k + 1) /\ k + 1 \in 1..n
    BY <1>3, <1>4, <1>9 DEF GoesOn
  <2>2. PlaceInv'
    BY <1>0, <1>7, <1>9, <2>1 DEF PlaceInv, n
  <2>3. CorrectAccepted'
    BY <1>1, <1>9 DEF CorrectAccepted, GoesOn
  <2> QED BY <1>5, <1>7, <1>9, <2>2, <2>3 DEF RunInv
<1>10. CASE Fails /\ implementation \notin {"grug", "mock"} /\ StepInv(n - 1)'
  <2>1. status' = "running" => code' = Cleanup /\ n - 1 \in 1..n
    BY <1>3, <1>10 DEF Fails
  <2>2. PlaceInv'
    BY <1>0, <1>3, <1>7, <1>10, <2>1 DEF PlaceInv, n
  <2>3. CorrectAccepted'
    BY <1>10 DEF CorrectAccepted, Fails
  <2> QED BY <1>5, <1>7, <1>10, <2>2, <2>3 DEF RunInv
<1> QED BY <1>6, <1>8, <1>9, <1>10

\* A test begins with what the one before it has left.
LEMMA BeginTestNext ==
  ASSUME ProgramInv, RunInv, BeginTest
  PROVE  RunInv'
<1>1. /\ status = "running" /\ code = <<>> /\ left # <<>> /\ code' = Steps(Test)
      /\ game_fn_identity_call_count' = 0 /\ game_fn_initialize_x' = game_fn_initialize_x
      /\ UNCHANGED <<implementation, selected, left, rejected, status, entities, mock, clock>>
  BY DEF BeginTest, Steps, suite, options, state, files
<1>2. Test' = Test /\ IsMock' = IsMock
  BY <1>1 DEF Test, IsMock
<1>3. Between
  BY <1>1 DEF RunInv, PlaceInv
<1>4. Test \in Tests
  BY <1>1, TailFacts DEF ProgramInv, Test
<1>5. StepInv(1)'
  <2>1. MakesDir(1)'
    BY DEF MakesDir
  <2>2. IsMock => MockInv(1)'
    <3> SUFFICES ASSUME IsMock
                 PROVE  MockInv(1)'
      OBVIOUS
    <3>1. ~mock'.update_called /\ game_fn_identity_call_count' = 0
      BY <1>1, <1>3 DEF Between
    <3>2. MockCodeReloading(1)' /\ MockDestroyedEntity(1)'
      BY <3>1 DEF MockCodeReloading, MockDestroyedEntity
    <3>3. MockEmptyFile(1)' /\ MockNewFile(1)' /\ MockResources(1)'
      BY DEF MockEmptyFile, MockNewFile, MockResources
    <3> QED BY <3>1, <3>2, <3>3 DEF MockInv
  <2>3. ~IsMock => GrugInv(1)'
    <3> SUFFICES ASSUME ~IsMock
                 PROVE  GrugInv(1)'
      OBVIOUS
    <3>1. entities' = NoEntities /\ game_fn_identity_call_count' = 0
      BY <1>1, <1>3 DEF Between
    <3>2. \A last : Starts(6, last, 1)'
      BY <3>1 DEF Starts
    <3>3. GrugCodeReloading(1)'
      BY <3>2 DEF GrugCodeReloading
    <3>4. GrugDestroyedEntity(1)'
      BY <3>2 DEF GrugDestroyedEntity
    <3>5. GrugEmptyFile(1)'
      BY <3>2 DEF GrugEmptyFile
    <3>6. GrugNewFile(1)' /\ GrugResources(1)'
      BY DEF GrugNewFile, GrugResources
    <3> QED BY <3>3, <3>4, <3>5, <3>6 DEF GrugInv
  <2> QED BY <1>2, <2>1, <2>2, <2>3 DEF StepInv
<1>6. PlaceInv'
  <2>1. /\ Len(Steps(Test)) > 2 /\ Len(Steps(Test)) \in Nat
        /\ IsRest(Steps(Test), Steps(Test), 1)
    BY <1>4, LastSteps
  <2>2. code' # <<>> /\ 1 \in 1..Len(Steps(Test))
    BY <1>1, <2>1
  <2> QED BY <1>1, <1>2, <1>5, <2>1, <2>2 DEF PlaceInv
<1>7. KindInv' /\ LeftBehindInv' /\ TargetsInv' /\ CorrectAccepted'
  <2>1. KindInv' /\ LeftBehindInv'
    BY <1>1, <1>2 DEF RunInv, KindInv, LeftBehindInv
  <2>2. TargetsInv' /\ CorrectAccepted'
    BY <1>1 DEF RunInv, TargetsInv, CorrectAccepted
  <2> QED BY <2>1, <2>2
<1> QED BY <1>6, <1>7 DEF RunInv

\* A round, or a run, has all its tests before it.
LEMMA AllLeft ==
  ASSUME ProgramInv, left' = TestsOf(selected), selected' = selected
  PROVE  TargetsInv' /\ (selected = NULL => Test' = "code_reloading")
<1>1. ASSUME NEW test \in Tests, selected \in {test, NULL}
      PROVE  \E i \in 1..Len(left') : left'[i] = test
  <2>1. CASE selected = NULL
    BY <2>1, OrderFacts DEF TestsOf
  <2>2. CASE selected # NULL
    <3>1. left' = <<test>>
      BY <1>1, <2>2 DEF TestsOf
    <3> QED BY <3>1
  <2> QED BY <2>1, <2>2
<1>2. TargetsInv'
  BY <1>1 DEF TargetsInv
<1>3. selected = NULL => Test' = "code_reloading"
  BY DEF TestsOf, Order, Test
<1> QED BY <1>2, <1>3

LEMMA NextRoundNext ==
  ASSUME ProgramInv, RunInv, NextRound
  PROVE  RunInv'
<1>1. /\ status = "running" /\ code = <<>> /\ left' = TestsOf(selected) /\ code' = <<>>
      /\ UNCHANGED <<implementation, selected, rejected, status, entities>>
  BY DEF NextRound, options
<1>2. Between
  BY <1>1 DEF RunInv, PlaceInv
<1>3. Between'
  <2>1. mock'.update_called = mock.update_called
    <3>1. mock \in [update_called : BOOLEAN, update_count : Nat,
                    path : Tests \cup {NULL, "other"}, mods : Tests \cup {NULL}]
      BY DEF RunInv, KindInv
    <3>2. mock' = mock \/ mock' = [mock EXCEPT !.path = "other"]
      BY DEF NextRound
    <3> QED BY <3>1, <3>2
  <2> QED BY <1>1, <1>2, <2>1 DEF Between, IsMock
<1>4. KindInv'
  BY KindInvNext DEF RunInv, Next
<1>5. TargetsInv' /\ (selected = NULL => Test' = "code_reloading")
  BY <1>1, AllLeft
<1>6. LeftBehindInv'
  <2>1. selected # NULL => game_fn_initialize_x' = game_fn_initialize_x
    BY DEF NextRound
  <2>2. NULL # "code_reloading_empty_file"
    BY ReloadingAssumption, OrderFacts
  <2> QED BY <1>1, <1>5, <2>1, <2>2 DEF RunInv, LeftBehindInv
<1>7. PlaceInv' /\ CorrectAccepted'
  BY <1>1, <1>3 DEF RunInv, PlaceInv, CorrectAccepted
<1> QED BY <1>4, <1>5, <1>6, <1>7 DEF RunInv

LEMMA RestartNext ==
  ASSUME ProgramInv, RunInv, Restart
  PROVE  RunInv'
<1>1. /\ left' = TestsOf(selected) /\ code' = <<>> /\ rejected' = {} /\ status' = "running"
      /\ UNCHANGED <<implementation, selected>> /\ entities' = NoEntities
      /\ mock' = MockStart /\ game_fn_initialize_x' \in LeftBehind
  BY DEF Restart, options
<1>2. Between'
  BY <1>1 DEF Between, MockStart
<1>3. KindInv'
  BY KindInvNext DEF RunInv, Next
<1>4. TargetsInv' /\ (selected = NULL => Test' = "code_reloading")
  BY <1>1, AllLeft
<1>5. LeftBehindInv'
  <2>1. selected # NULL => game_fn_initialize_x' = 0
    BY <1>1 DEF LeftBehind
  <2>2. NULL # "code_reloading_empty_file"
    BY ReloadingAssumption, OrderFacts
  <2> QED BY <1>1, <1>4, <2>1, <2>2 DEF LeftBehindInv
<1>6. PlaceInv' /\ CorrectAccepted'
  BY <1>1, <1>2 DEF PlaceInv, CorrectAccepted
<1> QED BY <1>3, <1>4, <1>5, <1>6 DEF RunInv

\* The end of a run, and what comes after it.
LEMMA FinishNext ==
  ASSUME RunInv, Finish \/ Ended
  PROVE  RunInv'
<1>1. /\ status' # "running" /\ status' \in {"finished", status}
      /\ UNCHANGED <<implementation, selected, left, rejected, clock, mock, game_fn_initialize_x>>
  BY DEF Finish, Ended, vars, suite, options, files, state, game
<1>2. Test' = Test
  BY <1>1 DEF Test
<1>3. KindInv' /\ PlaceInv' /\ LeftBehindInv'
  BY <1>1, <1>2 DEF RunInv, KindInv, PlaceInv, LeftBehindInv
<1>4. TargetsInv' /\ CorrectAccepted'
  BY <1>1 DEF RunInv, TargetsInv, CorrectAccepted
<1> QED BY <1>3, <1>4 DEF RunInv

LEMMA StutterNext ==
  ASSUME RunInv, UNCHANGED vars
  PROVE  RunInv'
<1> USE DEF vars, suite, options, files, state, game
<1>1. Test' = Test /\ IsMock' = IsMock
  BY DEF Test, IsMock
<1>2. \A path, content : Is(path, content)' = Is(path, content)
  BY <1>1 DEF Is
<1>3. \A path : IsNoted(path)' = IsNoted(path) /\ IsStale(path)' = IsStale(path)
  BY <1>1 DEF IsNoted, IsStale
<1>4. ASSUME NEW k
      PROVE  StepInv(k)' = StepInv(k)
  <2>1. /\ \A ids, content : Tracks(ids, content)' = Tracks(ids, content)
        /\ \A faults : Rejects(faults)' = Rejects(faults)
        /\ \A first, last : Starts(first, last, k)' = Starts(first, last, k)
        /\ Present' = Present /\ NotesExisting' = NotesExisting /\ NotesNew' = NotesNew
    BY <1>1 DEF Tracks, Rejects, Starts, Present, NotesExisting, NotesNew
  <2>2. GrugCodeReloading(k)' = GrugCodeReloading(k)
    BY <1>1, <1>2, <1>3, <2>1 DEF GrugCodeReloading
  <2>3. GrugDestroyedEntity(k)' = GrugDestroyedEntity(k)
    BY <1>1, <1>2, <1>3, <2>1 DEF GrugDestroyedEntity
  <2>4. GrugEmptyFile(k)' = GrugEmptyFile(k)
    BY <1>1, <1>2, <1>3, <2>1 DEF GrugEmptyFile
  <2>5. GrugNewFile(k)' = GrugNewFile(k)
    BY <1>1, <1>2, <1>3, <2>1 DEF GrugNewFile
  <2>6. GrugResources(k)' = GrugResources(k)
    BY <1>1, <1>2, <1>3, <2>1 DEF GrugResources
  <2>7. GrugInv(k)' = GrugInv(k)
    BY <1>1, <2>2, <2>3, <2>4, <2>5, <2>6 DEF GrugInv
  <2>8. MockInv(k)' = MockInv(k)
    BY <1>1 DEF MockInv, MockCodeReloading, MockDestroyedEntity, MockEmptyFile, MockNewFile,
                MockResources
  <2>9. MakesDir(k)' = MakesDir(k)
    BY <1>1 DEF MakesDir
  <2> QED BY <1>1, <2>7, <2>8, <2>9 DEF StepInv
<1>5. PlaceInv'
  BY <1>1, <1>4 DEF RunInv, PlaceInv, Between
<1>6. KindInv' /\ LeftBehindInv' /\ TargetsInv' /\ CorrectAccepted'
  <2>1. KindInv' /\ LeftBehindInv'
    BY <1>1 DEF RunInv, KindInv, LeftBehindInv
  <2>2. TargetsInv' /\ CorrectAccepted'
    BY DEF RunInv, TargetsInv, CorrectAccepted
  <2> QED BY <2>1, <2>2
<1> QED BY <1>5, <1>6 DEF RunInv

LEMMA RunInvNext ==
  ASSUME ProgramInv, DirInv, RunInv, [Next]_vars
  PROVE  RunInv'
<1>1. CASE UNCHANGED vars
  BY <1>1, StutterNext
<1>2. CASE Restart
  BY <1>2, RestartNext
<1>3. CASE Next /\ ~Restart /\ status # "running"
  <2>1. Ended
    <3>1. ~BeginTest /\ ~NextRound /\ ~Finish
      BY <1>3 DEF BeginTest, NextRound, Finish
    <3>2. /\ ~create_local_temp_dir /\ ~MakeModDir /\ ~WriteFile /\ ~remove_dir_recursive
          /\ ~create_grug_state /\ ~destroy_grug_state /\ ~compile_grug_file /\ ~destroy_grug_file
      BY <1>3 DEF create_local_temp_dir, MakeModDir, WriteFile, remove_dir_recursive,
                  create_grug_state, destroy_grug_state, compile_grug_file, destroy_grug_file, At
    <3>3. /\ ~create_entity /\ ~destroy_entity /\ ~call_export_fn /\ ~MockUpdate /\ ~Update
          /\ ~TestAsserts
      BY <1>3 DEF create_entity, destroy_entity, call_export_fn, MockUpdate, Update,
                  TestAsserts, At
    <3> QED BY <1>3, <3>1, <3>2, <3>3 DEF Next
  <2> QED BY <2>1, FinishNext
<1>4. CASE Next /\ ~Restart /\ status = "running" /\ code # <<>>
  BY <1>4, InTestNext
<1>5. CASE Next /\ ~Restart /\ status = "running" /\ code = <<>>
  <2>1. BeginTest \/ NextRound \/ Finish
    <3>1. /\ ~create_local_temp_dir /\ ~MakeModDir /\ ~WriteFile /\ ~remove_dir_recursive
          /\ ~create_grug_state /\ ~destroy_grug_state /\ ~compile_grug_file /\ ~destroy_grug_file
      BY <1>5 DEF create_local_temp_dir, MakeModDir, WriteFile, remove_dir_recursive,
                  create_grug_state, destroy_grug_state, compile_grug_file, destroy_grug_file, At
    <3>2. /\ ~create_entity /\ ~destroy_entity /\ ~call_export_fn /\ ~MockUpdate /\ ~Update
          /\ ~TestAsserts /\ ~Ended
      BY <1>5 DEF create_entity, destroy_entity, call_export_fn, MockUpdate, Update,
                  TestAsserts, At, Ended
    <3> QED BY <1>5, <3>1, <3>2 DEF Next
  <2> QED BY <2>1, BeginTestNext, NextRoundNext, FinishNext
<1> QED BY <1>1, <1>2, <1>3, <1>4, <1>5

\* At every step of a test what the steps before it have made of the files, the
\* watcher and the mock is there, in every run.
LEMMA RunInvAlways == Spec => [](ProgramInv /\ RunInv)
<1>1. Init => ProgramInv /\ DirInv /\ RunInv
  <2> SUFFICES ASSUME Init
               PROVE  ProgramInv /\ DirInv /\ RunInv
    OBVIOUS
  <2>1. ProgramInv
    BY TestsOfFacts, ProgramFacts DEF Init, ProgramInv
  <2>2. DirInv
    BY DEF Init, DirInv
  <2>3. KindInv
    BY ReloadingAssumption DEF Init, KindInv, MockStart
  <2>4. PlaceInv
    BY DEF Init, PlaceInv, Between, MockStart
  <2>5. LeftBehindInv
    <3>1. selected = NULL => Test = "code_reloading"
      BY DEF Init, TestsOf, Order, Test
    <3>2. NULL # "code_reloading_empty_file"
      BY ReloadingAssumption, OrderFacts
    <3> QED BY <3>1, <3>2 DEF Init, LeftBehind, LeftBehindInv
  <2>6. TargetsInv
    <3>1. ASSUME NEW test \in Tests, selected \in {test, NULL}
          PROVE  \E i \in 1..Len(left) : left[i] = test
      <4>1. CASE selected = NULL
        BY <4>1, OrderFacts DEF Init, TestsOf
      <4>2. CASE selected # NULL
        <5>1. left = <<test>>
          BY <3>1, <4>2 DEF Init, TestsOf
        <5> QED BY <5>1
      <4> QED BY <4>1, <4>2
    <3> QED BY <3>1 DEF TargetsInv
  <2>7. CorrectAccepted
    BY DEF Init, CorrectAccepted
  <2> QED BY <2>1, <2>2, <2>3, <2>4, <2>5, <2>6, <2>7 DEF RunInv
<1>2. ProgramInv /\ DirInv /\ RunInv /\ [Next]_vars => (ProgramInv /\ DirInv /\ RunInv)'
  BY ProgramInvNext, DirInvNext, RunInvNext
<1> QED BY <1>1, <1>2, PTL DEF Spec

\* The mock and a watcher that does what the tests ask for pass all five tests
\* (RUN_TRACKED_TEST of test_code_reloading and the others in tests.c, update() in
\* smoketest.c), each of them run alone or after the others, in every round, and
\* again after a run that was killed at any point.
THEOREM CorrectAlwaysAccepted == Spec => []CorrectAccepted
<1>1. RunInv => CorrectAccepted
  BY DEF RunInv
<1> QED BY <1>1, RunInvAlways, PTL

\* A run that comes to its end has seen every faulty watcher fail every test that
\* is there to reject it (the assert_* calls of the five tests in tests.c), whatever
\* the tests before it and the runs that were killed have left.
THEOREM FaultsAlwaysRejected == Spec => []FaultsRejected
<1>1. ProgramInv /\ RunInv => FaultsRejected
  <2> SUFFICES ASSUME ProgramInv, RunInv, status = "finished",
                      NEW test \in Tests, selected \in {test, NULL},
                      implementation \in Targets[test]
               PROVE  test \in rejected
    BY DEF FaultsRejected
  <2>1. left = <<>>
    BY DEF ProgramInv
  <2> QED BY <2>1 DEF RunInv, TargetsInv
<1> QED BY <1>1, RunInvAlways, PTL
=============================================================================
