--------------------------- MODULE RuntimeErrors ---------------------------
(***************************************************************************)
(* Runtime errors: the calls that go back and forth between an err_runtime *)
(* test, the grug implementation that runs the test's script, the host     *)
(* functions the script calls, and grug_tests_runtime_error_handler, which *)
(* may call into grug again while the error it is told of is pending.      *)
(*                                                                         *)
(* The C call stack is explicit.  The implementation is one of             *)
(*   "mock"  smoketest.c, which replays what grug should do call by call;  *)
(*   "grug"  what the suite asks of an implementation that really runs the *)
(*           scripts of tests/err_runtime;                                 *)
(*   one of Faults, "grug" with one mistake in its handling of errors.     *)
(*                                                                         *)
(* An operator D_X is a faulty version of D: the mutation with which a run *)
(* of D's properties is seen to fail.                                      *)
(***************************************************************************)
EXTENDS Naturals, Sequences, SequencesExt, TLC

CONSTANTS
    Implementations,  \* those to consider
    Cases,            \* the err_runtime tests that are run, in any order
    LastExport,       \* export function the ok tests called last, or NULL
    NULL

\* The error does not stop its script, or not the caller; a call of grug made
\* by the handler forgets it, or is stopped by it; its function is misnamed; it
\* stops the next call_export_fn, or the next create_entity, after it is over.
Leaks  == {"leaks_into_calls", "leaks_into_entities"}
Faults == {"no_abort", "no_propagation", "handler_clears_error", "handler_blocked",
           "stale_name"} \cup Leaks

ASSUME ImplementationsAssumption == Implementations \subseteq {"mock", "grug"} \cup Faults

\* The tests of add_runtime_error_tests.
ErrRuntimeTests ==
    {"all", "stack_overflow", "time_limit_exceeded", "time_limit_exceeded_exponential_calls",
     "time_limit_exceeded_fibonacci", "game_fn_error", "game_fn_error_in_static_method",
     "game_fn_error_global_scope", "game_fn_error_once", "on_fn_calls_erroring_on_fn",
     "on_fn_errors_after_it_calls_other_on_fn", "on_fn_method_calls_erroring_on_fn",
     "reentrant_error_handler", "reentrant_error_handler_second_error",
     "finished_error_does_not_leak"}

\* Another name of an export function is as good as NULL: no test asks for it.
ASSUME CasesAssumption ==
    Cases \subseteq ErrRuntimeTests /\ LastExport \in {"a", "b", NULL}

\* The counters of tests.c that these tests look at: those of the host
\* functions, and error_handler_call_count.
Counters == {"nothing", "say", "utils", "get_opponent", "cause_game_fn_error",
             "Utils_cause_game_fn_error", "call_on_b_fn", "call_on_b_fn_number",
             "Utils_call_on_b_fn", "error_handler"}

AnyName == {"globals", "a", "b", NULL}

---------------------------------------------------------------------------
(* Scripts: what the functions of a script do, as a sequence of calls of    *)
(* host functions. "exceed_stack" and "exceed_time" stand for the code that *)
(* makes the implementation itself report an error, "restore_name" for an   *)
(* assignment of the mock.                                                  *)

Do(fn) == [fn |-> fn, arg |-> 0]

\* The branches over the argument x of game_fn_error/input-V.grug. The generic
\* host functions are bound to the same C functions as the others.
ErrorOf(x) == IF x % 2 = 0 THEN <<Do("cause_game_fn_error")>>
              ELSE <<Do("utils"), Do("Utils_cause_game_fn_error")>>

\* The global scope of a script, run by create_entity.
GlobalScope(case) ==
    CASE case = "game_fn_error_global_scope"   -> <<Do("cause_game_fn_error")>>
      [] case = "finished_error_does_not_leak" -> <<Do("get_opponent")>>
      [] OTHER                                 -> <<>>

\* The export functions of the script files.
Script(case, fn, x) ==
    CASE case \in {"all", "stack_overflow"} -> <<Do("exceed_stack")>>
      [] case \in {"time_limit_exceeded", "time_limit_exceeded_exponential_calls",
                   "time_limit_exceeded_fibonacci"} -> <<Do("exceed_time")>>
      [] case = "game_fn_error" ->
            IF fn = "b" \/ x < 4 THEN ErrorOf(x)
            ELSE <<[fn |-> "call_on_b_fn_number", arg |-> x - 4]>>
      [] case = "game_fn_error_in_static_method" -> <<Do("Utils_fail")>>
      [] case = "game_fn_error_once" ->
            IF fn = "a" THEN <<Do("cause_game_fn_error")>> ELSE <<Do("nothing")>>
      [] case = "on_fn_calls_erroring_on_fn" ->
            IF fn = "a" THEN <<Do("call_on_b_fn"), Do("nothing")>>
            ELSE <<Do("cause_game_fn_error")>>
      [] case = "on_fn_errors_after_it_calls_other_on_fn" ->
            IF fn = "a" THEN <<Do("call_on_b_fn"), Do("cause_game_fn_error")>>
            ELSE <<Do("nothing")>>
      [] case = "on_fn_method_calls_erroring_on_fn" ->
            IF fn = "a" THEN <<Do("utils"), Do("Utils_call_on_b_fn"), Do("nothing")>>
            ELSE <<Do("cause_game_fn_error")>>
      [] case = "reentrant_error_handler" ->
            IF fn = "a" THEN <<Do("cause_game_fn_error"), Do("nothing")>>
            ELSE <<Do("nothing"), Do("say")>>
      [] case = "reentrant_error_handler_second_error" ->
            IF fn = "a" THEN <<Do("cause_game_fn_error"), Do("nothing")>>
            ELSE <<Do("nothing"), Do("cause_game_fn_error"), Do("say")>>
      [] case = "finished_error_does_not_leak" ->
            IF fn = "a" THEN <<Do("cause_game_fn_error"), Do("nothing")>>
            ELSE <<Do("nothing")>>
      [] OTHER -> <<>>

\* The functions whose last call the mock leaves out by hand, because an error
\* before it ends the script.
CutShort ==
    {<<"on_fn_calls_erroring_on_fn", "a">>, <<"on_fn_method_calls_erroring_on_fn", "a">>,
     <<"reentrant_error_handler", "a">>, <<"reentrant_error_handler_second_error", "a">>,
     <<"reentrant_error_handler_second_error", "b">>, <<"finished_error_does_not_leak", "a">>}

\* call_export_fn of the mock. One branch sets saved_on_fn_name back after the
\* nested call has overwritten it.
MockScript(case, fn, x) ==
    CASE <<case, fn>> \in CutShort -> Front(Script(case, fn, x))
      [] case = "on_fn_errors_after_it_calls_other_on_fn" /\ fn = "a" ->
            <<Do("call_on_b_fn"), Do("restore_name"), Do("cause_game_fn_error")>>
      [] OTHER -> Script(case, fn, x)

---------------------------------------------------------------------------
(* Tests: what the runtime_error_* functions do, after the create_entity of *)
(* the driver.                                                              *)

Call(fn, x)        == [do |-> "call", fn |-> fn, arg |-> x]
CreateEntity       == [do |-> "create"]
Reenter(on)        == [do |-> "reenter", on |-> on]
ClearHadError      == [do |-> "clear"]
CheckCreated       == [do |-> "created"]
ExpectNoError      == [do |-> "expect_no_error"]
CheckSecondCreated == [do |-> "second_created"]

\* assert_call_count and assert_error_handler_call_count, of some counters.
Expect(counts) == [do |-> "expect", counts |-> counts]

\* assert_true(had_runtime_error) and the asserts on what the handler was told.
ExpectError(type, reason, names) ==
    [do |-> "expect_error", type |-> type, reason |-> reason, names |-> names]

GameFnError_AnyName(names) ==
    ExpectError("GAME_FN_ERROR", "cause_game_fn_error", AnyName)

GameFnError(names) == ExpectError("GAME_FN_ERROR", "cause_game_fn_error", names)

\* The k-th of the eight calls of runtime_error_game_fn_error, k from 0.
GameFnErrorCall(k) ==
    LET cause == IF k % 2 = 0 THEN "cause_game_fn_error" ELSE "Utils_cause_game_fn_error"
    IN <<Call("a", k),
         Expect([c \in {cause, "error_handler"} |-> IF c = cause THEN (k \div 2) + 1 ELSE k + 1]),
         ExpectError("GAME_FN_ERROR", cause, {IF k < 4 THEN "a" ELSE "b"})>>

\* The counters most tests look at.
Counts(handled, cause, nothing) ==
    [error_handler |-> handled, cause_game_fn_error |-> cause, nothing |-> nothing]

Caused(n) == [error_handler |-> n, cause_game_fn_error |-> n]

TestBody(case) ==
    CASE case \in {"all", "stack_overflow"} ->
            <<Call("a", 0), ExpectError("STACK_OVERFLOW", "Stack overflow", {"a"})>>
      [] case \in {"time_limit_exceeded", "time_limit_exceeded_exponential_calls",
                   "time_limit_exceeded_fibonacci"} ->
            <<Call("a", 0), ExpectError("TIME_LIMIT_EXCEEDED", "Took longer", {"a"})>>
      [] case = "game_fn_error" ->
            <<Expect(Caused(0))>> \o GameFnErrorCall(0) \o GameFnErrorCall(1)
              \o GameFnErrorCall(2) \o GameFnErrorCall(3) \o GameFnErrorCall(4)
              \o GameFnErrorCall(5) \o GameFnErrorCall(6) \o GameFnErrorCall(7)
      [] case = "game_fn_error_in_static_method" ->
            <<Expect(Caused(0)), Call("a", 0), Expect(Caused(1)), GameFnError(AnyName)>>
      [] case = "game_fn_error_global_scope" ->
            <<Expect(Caused(1)), GameFnError(AnyName)>>
      [] case = "game_fn_error_once" ->
            <<Expect(Caused(0)), Call("a", 0), Expect(Caused(1)), GameFnError({"a"}),
              ClearHadError, Expect(Counts(1, 1, 0)), Call("b", 0), Expect(Counts(1, 1, 1)),
              ExpectNoError>>
      [] case = "on_fn_calls_erroring_on_fn" ->
            <<Expect(Counts(0, 0, 0)), Expect([call_on_b_fn |-> 0]), Call("a", 0),
              Expect(Counts(1, 1, 0)), Expect([call_on_b_fn |-> 1]), GameFnError({"b"})>>
      [] case = "on_fn_errors_after_it_calls_other_on_fn" ->
            <<Expect(Counts(0, 0, 0)), Expect([call_on_b_fn |-> 0]), Call("a", 0),
              Expect(Counts(1, 1, 1)), Expect([call_on_b_fn |-> 1]), GameFnError({"a"})>>
      [] case = "on_fn_method_calls_erroring_on_fn" ->
            <<Expect(Counts(0, 0, 0)), Expect([utils |-> 0, Utils_call_on_b_fn |-> 0]), Call("a", 0),
              Expect(Counts(1, 1, 0)), Expect([utils |-> 1, Utils_call_on_b_fn |-> 1]),
              GameFnError({"b"})>>
      [] case = "reentrant_error_handler" ->
            <<Expect(Counts(0, 0, 0)), Expect([say |-> 0]), Reenter(TRUE), Call("a", 0),
              Reenter(FALSE), Expect([error_handler |-> 1, nothing |-> 1, say |-> 1]),
              GameFnError({"a"})>>
      [] case = "reentrant_error_handler_second_error" ->
            <<Expect(Counts(0, 0, 0)), Expect([say |-> 0]), Reenter(TRUE), Call("a", 0),
              Reenter(FALSE), Expect(Counts(2, 2, 1)), Expect([say |-> 0]), GameFnError({"b"})>>
      [] case = "finished_error_does_not_leak" ->
            <<Expect(Counts(0, 0, 0)), Expect([get_opponent |-> 1]), Call("a", 0),
              Expect(Counts(1, 1, 0)), GameFnError({"a"}), Call("b", 0), Expect([nothing |-> 1]),
              CreateEntity, CheckSecondCreated, Expect([get_opponent |-> 2])>>

---------------------------------------------------------------------------
(* State. *)

VARIABLES
    implementation,
    todo,              \* tests not begun
    case,              \* test being run
    stack,             \* the C call stack of the run, innermost frame first
    call_count,        \* the counters
    had_runtime_error,
    runtime_error,     \* what the handler recorded: type, reason, name, path
    reenter_from_error_handler,
    reenter_depth,
    saved_on_fn_name,     \* of the mock: the export function called last
    saved_grug_file_path, \* of the mock: the file compiled or instantiated last
    pending,           \* of grug: an error is stopping the script
    msg,               \* create_entity returned an error
    rejected           \* tests that failed

vars == <<implementation, todo, case, stack, call_count, had_runtime_error, runtime_error,
          reenter_from_error_handler, reenter_depth, saved_on_fn_name,
          saved_grug_file_path, pending, msg, rejected>>

\* Frames: the test function, a run of a script's global scope or of one of its
\* export functions, and the error handler when it calls into grug again.
\* "saved" is the error that was pending when grug was entered.
Frame(kind, fn, code, saved) == [kind |-> kind, fn |-> fn, code |-> code, saved |-> saved]

Top  == Head(stack)
Instr == Head(Top.code)
\* The stack once the top frame has gone past its next instruction.
Advanced == <<[Top EXCEPT !.code = Tail(@)]>> \o Tail(stack)

IsMock == implementation = "mock"

report     == <<had_runtime_error, runtime_error>>
reentrancy == <<reenter_from_error_handler, reenter_depth>>
grug       == <<saved_on_fn_name, saved_grug_file_path, pending, msg>>
suite      == <<implementation, todo, case, rejected>>

NoError == [type |-> "NONE", reason |-> "", name |-> NULL, path |-> NULL]

\* The tests before the err_runtime ones leave the counters and the error of
\* the last of them behind: reset() is what the first test relies on.
Init ==
    /\ implementation \in Implementations
    /\ todo = Cases
    /\ case = NULL
    /\ stack = <<>>
    /\ call_count = [c \in Counters |-> 1]
    /\ had_runtime_error = FALSE
    /\ runtime_error = NoError
    /\ reenter_from_error_handler = FALSE
    /\ reenter_depth = 0
    /\ saved_on_fn_name = LastExport
    /\ saved_grug_file_path = NULL
    /\ pending = FALSE
    /\ msg = FALSE
    /\ rejected = {}

\* The handler calls into grug again at most once at a time, and only while
\* the test that asked for it is waiting.
ReentryIsBounded ==
    /\ Cardinality({i \in DOMAIN stack : stack[i].kind = "handler"}) = reenter_depth
    /\ reenter_depth \in 0..1
    /\ stack = <<>> => ~reenter_from_error_handler

TypeOK ==
    /\ implementation \in Implementations
    /\ todo \subseteq Cases /\ rejected \subseteq Cases
    /\ case \in Cases \cup {NULL}
    /\ \A i \in DOMAIN stack :
        /\ stack[i].kind \in {"test", "script", "handler"}
        /\ stack[i].fn \in AnyName
        /\ stack[i].saved \in BOOLEAN
    /\ call_count \in [Counters -> Nat]
    /\ had_runtime_error \in BOOLEAN
    /\ runtime_error.name \in AnyName /\ runtime_error.path \in Cases \cup {NULL}
    /\ reenter_from_error_handler \in BOOLEAN
    /\ ReentryIsBounded
    /\ saved_on_fn_name \in AnyName /\ saved_grug_file_path \in Cases \cup {NULL}
    /\ pending \in BOOLEAN /\ msg \in BOOLEAN

---------------------------------------------------------------------------
(* The implementation. *)

call_export_fn(fn, x) ==
    /\ stack' = <<Frame("script", fn, IF IsMock THEN MockScript(case, fn, x)
                                                ELSE Script(case, fn, x), pending)>> \o Advanced
    /\ saved_on_fn_name' = fn
    \* An entry of grug starts without an error, whatever is pending outside.
    /\ pending' = (pending /\ \/ implementation = "handler_blocked"
                              \/ implementation = "leaks_into_calls" /\ Top.kind = "test")
    /\ UNCHANGED <<saved_grug_file_path, msg>>

create_entity ==
    /\ stack' = <<Frame("script", "globals", GlobalScope(case), pending)>> \o Advanced
    /\ saved_grug_file_path' = case
    /\ pending' = (pending /\ implementation = "leaks_into_entities")
    /\ UNCHANGED <<saved_on_fn_name, msg>>

\* An error stops a script between two of its calls.
Aborting == pending /\ implementation # "no_abort"

\* A script ends, or is stopped: the error it ends with stops its caller too,
\* unless that is the test, and so does the error that was pending before.
ScriptReturns ==
    /\ stack # <<>> /\ Top.kind = "script"
    /\ Top.code = <<>> \/ Aborting
    /\ stack' = Tail(stack)
    /\ msg' = IF Top.fn = "globals" THEN pending ELSE msg
    /\ pending' = CASE stack[2].kind = "test" -> implementation \in Leaks /\ (pending \/ Top.saved)
                    [] implementation = "no_propagation"       -> Top.saved
                    [] implementation = "handler_clears_error" -> pending
                    [] OTHER                                   -> pending \/ Top.saved
    /\ UNCHANGED <<suite, call_count, report, reentrancy, saved_on_fn_name,
                   saved_grug_file_path>>

---------------------------------------------------------------------------
(* The host functions and the error handler. *)

Count(fns) == call_count' = [c \in Counters |-> call_count[c] + IF c \in fns THEN 1 ELSE 0]

grug_tests_runtime_error_handler_Unguarded(type, reason, on_fn_name) ==
    /\ had_runtime_error' = TRUE
    /\ runtime_error' = [type |-> type, reason |-> reason, name |-> on_fn_name,
                         path |-> IF IsMock THEN saved_grug_file_path ELSE case]
    /\ IF reenter_from_error_handler
       THEN /\ reenter_depth' = reenter_depth + 1
            /\ stack' = <<Frame("handler", NULL, <<Call("b", 0)>>, FALSE)>> \o Advanced
       ELSE stack' = Advanced /\ UNCHANGED reenter_depth
    /\ pending' = ~IsMock
    /\ UNCHANGED <<suite, reenter_from_error_handler, saved_on_fn_name,
                   saved_grug_file_path, msg>>

grug_tests_runtime_error_handler(type, reason, on_fn_name) ==
    /\ had_runtime_error' = TRUE
    /\ runtime_error' = [type |-> type, reason |-> reason, name |-> on_fn_name,
                         path |-> IF IsMock THEN saved_grug_file_path ELSE case]
    /\ IF reenter_from_error_handler /\ reenter_depth = 0
       THEN /\ reenter_depth' = reenter_depth + 1
            /\ stack' = <<Frame("handler", NULL, <<Call("b", 0)>>, FALSE)>> \o Advanced
       ELSE stack' = Advanced /\ UNCHANGED reenter_depth
    /\ pending' = ~IsMock
    /\ UNCHANGED <<suite, reenter_from_error_handler, saved_on_fn_name,
                   saved_grug_file_path, msg>>

InScript == stack # <<>> /\ Top.kind = "script" /\ Top.code # <<>> /\ ~Aborting

\* nothing, say, utils, get_opponent: they only count their calls.
PlainHostFn ==
    /\ InScript /\ Instr.fn \in {"nothing", "say", "utils", "get_opponent"}
    /\ Count({Instr.fn})
    /\ stack' = Advanced
    /\ UNCHANGED <<suite, report, reentrancy, grug>>

\* call_on_b_fn, call_on_b_fn_number, Utils_call_on_b_fn.
CallOnBFn ==
    /\ InScript /\ Instr.fn \in {"call_on_b_fn", "call_on_b_fn_number", "Utils_call_on_b_fn"}
    /\ Count({Instr.fn})
    /\ call_export_fn("b", Instr.arg)
    /\ UNCHANGED <<suite, report, reentrancy>>

\* cause_game_fn_error, Utils_fail, Utils_cause_game_fn_error: game_fn_error
\* tells the handler which export function is running.
CauseGameFnError ==
    /\ InScript
    /\ Instr.fn \in {"cause_game_fn_error", "Utils_fail", "Utils_cause_game_fn_error"}
    /\ LET counter == IF Instr.fn = "Utils_fail" THEN "cause_game_fn_error" ELSE Instr.fn
       IN /\ Count({counter, "error_handler"})
          /\ grug_tests_runtime_error_handler("GAME_FN_ERROR", counter,
                IF implementation \in {"mock", "stale_name"} THEN saved_on_fn_name ELSE Top.fn)

\* The implementation stops a script that recurses or runs for too long.
ExceedLimit ==
    /\ InScript /\ Instr.fn \in {"exceed_stack", "exceed_time"}
    /\ Count({"error_handler"})
    /\ IF Instr.fn = "exceed_stack"
       THEN grug_tests_runtime_error_handler("STACK_OVERFLOW", "Stack overflow", Top.fn)
       ELSE grug_tests_runtime_error_handler("TIME_LIMIT_EXCEEDED", "Took longer", Top.fn)

RestoreName_Forgotten ==
    /\ InScript /\ Instr.fn = "restore_name"
    /\ stack' = Advanced
    /\ UNCHANGED <<suite, call_count, report, reentrancy, grug>>

RestoreName ==
    /\ InScript /\ Instr.fn = "restore_name"
    /\ saved_on_fn_name' = Top.fn
    /\ stack' = Advanced
    /\ UNCHANGED <<suite, call_count, report, reentrancy, saved_grug_file_path, pending, msg>>

HandlerReenters ==
    /\ stack # <<>> /\ Top.kind = "handler" /\ Top.code # <<>>
    /\ call_export_fn(Instr.fn, Instr.arg)
    /\ UNCHANGED <<suite, call_count, report, reentrancy>>

HandlerReturns ==
    /\ stack # <<>> /\ Top.kind = "handler" /\ Top.code = <<>>
    /\ reenter_depth' = reenter_depth - 1
    /\ stack' = Tail(stack)
    /\ UNCHANGED <<suite, call_count, report, reenter_from_error_handler, grug>>

---------------------------------------------------------------------------
(* The tests. *)

reset_KeepsCounters ==
    /\ had_runtime_error' = FALSE
    /\ runtime_error' = [runtime_error EXCEPT !.type = "STACK_OVERFLOW"]
    /\ UNCHANGED call_count

reset ==
    /\ had_runtime_error' = FALSE
    /\ runtime_error' = [runtime_error EXCEPT !.type = "STACK_OVERFLOW"]  \* 0
    /\ call_count' = [c \in Counters |-> 0]

BeginTest ==
    /\ stack = <<>>
    /\ \E c \in todo :
        /\ todo' = todo \ {c}
        /\ case' = c
        /\ stack' = <<Frame("test", NULL, <<CreateEntity, CheckCreated>> \o TestBody(c), FALSE)>>
    /\ reset
    /\ UNCHANGED <<implementation, rejected, reentrancy, grug>>

InTest(step) ==
    stack # <<>> /\ Top.kind = "test" /\ Top.code # <<>> /\ Instr.do = step

EndTest == stack' = <<>> /\ case' = NULL

fail_current_test == rejected' = rejected \cup {case} /\ EndTest

TestCreatesEntity ==
    /\ InTest("create")
    /\ create_entity
    /\ UNCHANGED <<suite, call_count, report, reentrancy>>

TestCalls ==
    /\ InTest("call")
    /\ call_export_fn(Instr.fn, Instr.arg)
    /\ UNCHANGED <<suite, call_count, report, reentrancy>>

\* An error in the first create_entity ends the test, and it has passed; one
\* in the second fails it.
TestChecksCreated ==
    /\ \/ /\ InTest("created") \/ InTest("second_created")
          /\ ~msg
          /\ stack' = Advanced
          /\ UNCHANGED <<case, rejected>>
       \/ InTest("created") /\ msg /\ EndTest /\ UNCHANGED rejected
       \/ InTest("second_created") /\ msg /\ fail_current_test
    /\ UNCHANGED <<implementation, todo, call_count, report, reentrancy, grug>>

TestSetsReentry ==
    /\ InTest("reenter")
    /\ reenter_from_error_handler' = Instr.on
    /\ stack' = Advanced
    /\ UNCHANGED <<suite, call_count, report, reenter_depth, grug>>

TestClearsHadError ==
    /\ InTest("clear")
    /\ had_runtime_error' = FALSE
    /\ stack' = Advanced
    /\ UNCHANGED <<suite, call_count, runtime_error, reentrancy, grug>>

\* What an assertion of a test asks of the state.
Holds(step) ==
    CASE step.do = "expect" -> \A c \in DOMAIN step.counts : call_count[c] = step.counts[c]
      [] step.do = "expect_no_error" -> ~had_runtime_error
      [] step.do = "expect_error" ->
            /\ had_runtime_error
            /\ runtime_error.type = step.type /\ runtime_error.reason = step.reason
            /\ runtime_error.name \in step.names
            /\ case # "game_fn_error_in_static_method" => runtime_error.path = case

TestAsserts ==
    /\ InTest("expect") \/ InTest("expect_error") \/ InTest("expect_no_error")
    /\ IF Holds(Instr) THEN stack' = Advanced /\ UNCHANGED <<case, rejected>>
                       ELSE fail_current_test
    /\ UNCHANGED <<implementation, todo, call_count, report, reentrancy, grug>>

TestReturns ==
    /\ stack # <<>> /\ Top.kind = "test" /\ Top.code = <<>>
    /\ EndTest
    /\ UNCHANGED <<implementation, todo, rejected, call_count, report, reentrancy, grug>>

Finished == stack = <<>> /\ todo = {} /\ UNCHANGED vars

Next ==
    \/ ScriptReturns \/ PlainHostFn \/ CallOnBFn \/ CauseGameFnError \/ ExceedLimit
    \/ RestoreName \/ HandlerReenters \/ HandlerReturns
    \/ BeginTest \/ TestCreatesEntity \/ TestCalls \/ TestChecksCreated \/ TestSetsReentry
    \/ TestClearsHadError \/ TestAsserts \/ TestReturns
    \/ Finished

\* One thread: no step is ever postponed for ever.
Spec == Init /\ [][Next]_vars /\ WF_vars(Next)
---------------------------------------------------------------------------
(* Properties. *)

\* The tests accept what the suite asks for and what the mock replays, in
\* whatever order they come: nothing one test leaves behind fails another.
CorrectAccepted == implementation \in {"mock", "grug"} => rejected = {}

HandlerCalled == call_count'["error_handler"] > call_count["error_handler"]

\* The handler is told the export function that runs: the innermost of those
\* that have not returned, though others may have been called since it was.
NamesRunningFunction ==
    [][HandlerCalled /\ implementation \in {"mock", "grug"} /\ Top.fn # "globals"
        => runtime_error'.name = Top.fn]_vars

\* Faults that need not be noticed: with an error of create_entity an
\* err_runtime test ends, and has passed.
Unnoticed == {"leaks_into_entities"}

\* Each of the other faulty implementations has some test fail, in every order
\* of the tests.
FaultsRejected == <>(implementation \in Faults \ Unnoticed => rejected # {})
=============================================================================
