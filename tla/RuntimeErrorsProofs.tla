------------------------ MODULE RuntimeErrorsProofs ------------------------
(***************************************************************************)
(* Runtime errors, for every set of implementations and of err_runtime     *)
(* tests: the C call stack keeps its shape, the handler is inside at most  *)
(* one call of grug, and it is told the name of the function that runs.    *)
(*                                                                         *)
(* The invariant has three parts: TypeInv, what the stack is made of;      *)
(* ReentryInv, how reenter_depth and reenter_from_error_handler follow it; *)
(* and NameInv, what the mock's saved_on_fn_name says of it.               *)
(***************************************************************************)
EXTENDS RuntimeErrors, FiniteSetTheorems, SequenceTheorems, TLAPS

---------------------------------------------------------------------------
(* What programs are made of. *)

Exports == {"a", "b"}

\* Host functions that come back without an error and without running a script.
Plain  == {"nothing", "say", "utils", "get_opponent", "restore_name"}
\* Those that make game_fn_error report, and those that run a function "b".
Causes == {"cause_game_fn_error", "Utils_fail", "Utils_cause_game_fn_error"}
Nested == {"call_on_b_fn", "call_on_b_fn_number", "Utils_call_on_b_fn"}
Limits == {"exceed_stack", "exceed_time"}

ScriptStep == [fn : Plain \cup Causes \cup Nested \cup Limits, arg : Nat]

\* Some counters, and what is expected of them.
Tally == UNION {[C -> Nat] : C \in SUBSET Counters}

ErrorTypes == {"NONE", "STACK_OVERFLOW", "TIME_LIMIT_EXCEEDED", "GAME_FN_ERROR"}
Reasons == Counters \cup {"", "Stack overflow", "Took longer"}

\* Steps of a test that leave the option to reenter alone.
OtherStep ==
    [do : {"call"}, fn : Exports, arg : Nat]
      \cup [do : {"create", "clear", "created", "expect_no_error", "second_created"}]
      \cup [do : {"expect"}, counts : Tally]
      \cup [do : {"expect_error"}, type : ErrorTypes, reason : Reasons, names : SUBSET AnyName]
TestStep == OtherStep \cup [do : {"reenter"}, on : BOOLEAN]

TestFrame    == [kind : {"test"}, fn : {NULL}, code : Seq(TestStep), saved : BOOLEAN]
ScriptFrame  == [kind : {"script"}, fn : Exports \cup {"globals"}, code : Seq(ScriptStep),
                 saved : BOOLEAN]
HandlerFrame == [kind : {"handler"}, fn : {NULL}, code : Seq([do : {"call"}, fn : Exports, arg : Nat]),
                 saved : BOOLEAN]
Frames == TestFrame \cup ScriptFrame \cup HandlerFrame

---------------------------------------------------------------------------
(* The invariant. *)

\* The test is the outermost frame, and there is one while it runs.
ShapeInv ==
    /\ stack \in Seq(Frames)
    /\ stack # <<>> => stack[Len(stack)].kind = "test" /\ case \in Cases
    /\ \A i \in 1..Len(stack) : stack[i].kind = "test" => i = Len(stack)

DataInv ==
    /\ implementation \in Implementations
    /\ todo \subseteq Cases /\ rejected \subseteq Cases
    /\ case \in Cases \cup {NULL}
    /\ call_count \in [Counters -> Nat]
    /\ had_runtime_error \in BOOLEAN
    /\ runtime_error \in [type : ErrorTypes, reason : Reasons, name : AnyName,
                          path : Cases \cup {NULL}]
    /\ reenter_from_error_handler \in BOOLEAN
    /\ saved_on_fn_name \in AnyName /\ saved_grug_file_path \in Cases \cup {NULL}
    /\ pending \in BOOLEAN /\ msg \in BOOLEAN

TypeInv == ShapeInv /\ DataInv

\* A test that switches the option on makes one call and switches it off.
SwitchesOn(step)  == step.do = "reenter" /\ step.on
SwitchesOff(step) == step.do = "reenter" /\ ~step.on

Paired(code) ==
    \A k \in 1..Len(code) : SwitchesOn(code[k]) =>
        k + 2 <= Len(code) /\ code[k + 1].do = "call" /\ SwitchesOff(code[k + 2])

\* While it is on, the test has nothing to do but that call and the switching off.
WillSwitchOff(code) ==
    \/ Len(code) >= 1 /\ SwitchesOff(code[1])
    \/ Len(code) >= 2 /\ code[1].do = "call" /\ SwitchesOff(code[2])

SwitchInv ==
    /\ stack # <<>> => Paired(stack[Len(stack)].code)
    /\ reenter_from_error_handler => stack # <<>> /\ WillSwitchOff(stack[Len(stack)].code)

\* reenter_depth counts the frames of the handler.
DepthInv ==
    \/ reenter_depth = 0 /\ \A i \in 1..Len(stack) : stack[i].kind # "handler"
    \/ reenter_depth = 1 /\ \E i \in 1..Len(stack) :
          \A k \in 1..Len(stack) : stack[k].kind = "handler" <=> k = i

ReentryInv == SwitchInv /\ DepthInv

\* No error is caused before saved_on_fn_name has been set back.
RestoresFirst(code) ==
    \A k \in 1..Len(code) : code[k].fn \in Causes =>
        \E j \in 1..(k - 1) : code[j].fn = "restore_name"

\* Nor between a call that may overwrite it and the next setting back.
Careful(code) ==
    \A i, k \in 1..Len(code) :
        i < k /\ code[i].fn \notin Plain /\ code[k].fn \in Causes =>
            \E j \in (i + 1)..(k - 1) : code[j].fn = "restore_name"

\* Of the mock: only the innermost frame may rely on saved_on_fn_name.
NameInv ==
    implementation = "mock" =>
        \A i \in 1..Len(stack) :
            stack[i].kind = "script" /\ stack[i].fn # "globals" =>
                /\ Careful(stack[i].code)
                /\ RestoresFirst(stack[i].code) \/ (i = 1 /\ saved_on_fn_name = stack[i].fn)
---------------------------------------------------------------------------
(* Sequences. *)

LEMMA ConcatFacts ==
  ASSUME NEW S, NEW p \in Seq(S), NEW q \in Seq(S)
  PROVE  /\ p \o q \in Seq(S) /\ Len(p \o q) = Len(p) + Len(q)
         /\ \A k \in 1..Len(p) : (p \o q)[k] = p[k]
         /\ \A k \in 1..Len(q) : (p \o q)[Len(p) + k] = q[k]
OBVIOUS

LEMMA TailFacts ==
  ASSUME NEW S, NEW p \in Seq(S), p # <<>>
  PROVE  /\ Len(p) \in Nat /\ Len(p) > 0 /\ Head(p) = p[1] /\ Head(p) \in S
         /\ Tail(p) \in Seq(S) /\ Len(Tail(p)) = Len(p) - 1
         /\ \A k \in 1..Len(Tail(p)) : Tail(p)[k] = p[k + 1]
OBVIOUS

LEMMA ConsFacts ==
  ASSUME NEW S, NEW x \in S, NEW q \in Seq(S)
  PROVE  /\ <<x>> \o q \in Seq(S) /\ Len(<<x>> \o q) = Len(q) + 1
         /\ (<<x>> \o q)[1] = x
         /\ \A k \in 1..Len(q) : (<<x>> \o q)[k + 1] = q[k]
OBVIOUS

LEMMA FrontFacts ==
  ASSUME NEW S, NEW p \in Seq(S), p # <<>>
  PROVE  /\ Front(p) \in Seq(S) /\ Len(Front(p)) = Len(p) - 1
         /\ \A k \in 1..(Len(p) - 1) : Front(p)[k] = p[k]
<1> DEFINE n == Len(p) - 1
<1>1. n \in Nat /\ 1 \in Int /\ \A k \in 1..n : p[k] \in S
  OBVIOUS
<1>2. Front(p) = SubSeq(p, 1, n)
  BY DEF Front
<1> HIDE DEF n
<1>3. /\ Front(p) \in Seq(S) /\ Len(Front(p)) = IF 1 <= n THEN n - 1 + 1 ELSE 0
      /\ \A k \in 1..(n - 1 + 1) : Front(p)[k] = p[1 + k - 1]
  BY <1>1, <1>2, SubSeqProperties
<1>4. Len(Front(p)) = n /\ \A k \in 1..n : Front(p)[k] = p[k]
  BY <1>1, <1>3
<1> QED BY <1>3, <1>4 DEF n

LEMMA SameSequence ==
  ASSUME NEW S, NEW p \in Seq(S), NEW q \in Seq(S), Len(p) = Len(q),
         \A k \in 1..Len(p) : p[k] = q[k]
  PROVE  p = q
OBVIOUS

---------------------------------------------------------------------------
(* Scripts. *)

LEMMA DoFacts ==
  ASSUME NEW fn \in Plain \cup Causes \cup Nested \cup Limits
  PROVE  Do(fn) \in ScriptStep /\ Do(fn).fn = fn
BY DEF Do, ScriptStep

\* A script is careful when only its last call can overwrite the name.
LEMMA CarefulFacts ==
  ASSUME NEW p \in Seq(ScriptStep),
         \A k \in 1..(Len(p) - 1) : p[k].fn \in Plain
  PROVE  Careful(p)
BY DEF Careful

LEMMA OneStep ==
  ASSUME NEW step \in ScriptStep
  PROVE  <<step>> \in Seq(ScriptStep) /\ Careful(<<step>>)
<1>1. <<step>> \in Seq(ScriptStep) /\ Len(<<step>>) = 1
  OBVIOUS
<1>2. 1..(1 - 1) = {}
  OBVIOUS
<1> QED BY <1>1, <1>2, CarefulFacts

LEMMA TwoSteps ==
  ASSUME NEW first \in ScriptStep, NEW second \in ScriptStep
  PROVE  /\ <<first, second>> \in Seq(ScriptStep)
         /\ first.fn \in Plain => Careful(<<first, second>>)
         /\ Front(<<first, second>>) = <<first>>
<1>1. /\ <<first, second>> \in Seq(ScriptStep) /\ Len(<<first, second>>) = 2
      /\ <<first, second>>[1] = first
  OBVIOUS
<1>3. ASSUME first.fn \in Plain
      PROVE  Careful(<<first, second>>)
  <2> DEFINE p == <<first, second>>
  <2> HIDE DEF p
  <2>1. p \in Seq(ScriptStep) /\ Len(p) = 2 /\ p[1] = first
    BY <1>1 DEF p
  <2>2. ASSUME NEW k \in 1..(Len(p) - 1)
        PROVE  p[k].fn \in Plain
    <3>1. k = 1
      BY <2>1
    <3> QED BY <1>3, <2>1, <3>1
  <2>3. Careful(p)
    BY <2>1, <2>2, CarefulFacts
  <2> QED BY <2>3 DEF p
<1>4. Front(<<first, second>>) = <<first>>
  <2> DEFINE p == <<first, second>>
             f == Front(p)
             q == <<first>>
  <2>1. /\ p \in Seq(ScriptStep) /\ Len(p) = 2 /\ p[1] = first /\ p # <<>>
        /\ q \in Seq(ScriptStep) /\ Len(q) = 1 /\ q[1] = first
    OBVIOUS
  <2> HIDE DEF p, q
  <2>2. f \in Seq(ScriptStep) /\ Len(f) = 2 - 1 /\ \A k \in 1..(2 - 1) : f[k] = p[k]
    <3>1. /\ f \in Seq(ScriptStep) /\ Len(f) = Len(p) - 1
          /\ \A k \in 1..(Len(p) - 1) : f[k] = p[k]
      BY <2>1, FrontFacts, Zenon
    <3> QED BY <2>1, <3>1
  <2> HIDE DEF f
  <2>3. f = q
    BY <2>1, <2>2, SameSequence
  <2> QED BY <2>3 DEF f, p, q
<1> QED BY <1>1, <1>3, <1>4

LEMMA ThreeSteps ==
  ASSUME NEW first \in ScriptStep, NEW second \in ScriptStep, NEW third \in ScriptStep
  PROVE  /\ <<first, second, third>> \in Seq(ScriptStep)
         /\ first.fn \in Plain /\ second.fn \in Plain => Careful(<<first, second, third>>)
         /\ second.fn = "restore_name" => Careful(<<first, second, third>>)
         /\ Front(<<first, second, third>>) = <<first, second>>
<1> DEFINE p == <<first, second, third>>
<1>1. /\ p \in Seq(ScriptStep) /\ Len(p) = 3
      /\ p[1] = first /\ p[2] = second
  OBVIOUS
<1>4. Front(p) = <<first, second>>
  <2> DEFINE f == Front(p)
             q == <<first, second>>
  <2>1. q \in Seq(ScriptStep) /\ Len(q) = 2 /\ q[1] = first /\ q[2] = second /\ p # <<>>
    OBVIOUS
  <2> HIDE DEF p, q
  <2>2. f \in Seq(ScriptStep) /\ Len(f) = 3 - 1 /\ \A k \in 1..(3 - 1) : f[k] = p[k]
    <3>1. /\ f \in Seq(ScriptStep) /\ Len(f) = Len(p) - 1
          /\ \A k \in 1..(Len(p) - 1) : f[k] = p[k]
      BY <1>1, <2>1, FrontFacts, Zenon
    <3> QED BY <1>1, <2>1, <3>1
  <2> HIDE DEF f
  <2>4. \A k \in 1..2 : k = 1 \/ k = 2
    OBVIOUS
  <2>3. f = q
    BY <1>1, <2>1, <2>2, <2>4, SameSequence
  <2> QED BY <2>3 DEF f, q
<1> HIDE DEF p
<1>3. ASSUME first.fn \in Plain, second.fn \in Plain
      PROVE  Careful(p)
  <2>1. ASSUME NEW k \in 1..(Len(p) - 1)
        PROVE  p[k].fn \in Plain
    <3>1. k = 1 \/ k = 2
      BY <1>1
    <3> QED BY <1>1, <1>3, <3>1
  <2> QED BY <1>1, <2>1, CarefulFacts
<1>5. ASSUME second.fn = "restore_name"
      PROVE  Careful(p)
  <2> SUFFICES ASSUME NEW i \in 1..3, NEW k \in 1..3, i < k,
                      p[i].fn \notin Plain, p[k].fn \in Causes
               PROVE  \E j \in (i + 1)..(k - 1) : p[j].fn = "restore_name"
    BY <1>1 DEF Careful
  <2>1. i # 2
    BY <1>1, <1>5 DEF Plain
  <2>2. k # 2
    BY <1>1, <1>5 DEF Causes
  <2>3. 2 \in (i + 1)..(k - 1)
    BY <2>1, <2>2
  <2> QED BY <1>1, <1>5, <2>3
<1> QED BY <1>1, <1>3, <1>4, <1>5 DEF p

LEMMA GlobalScopeFacts ==
  ASSUME NEW c \in Cases
  PROVE  GlobalScope(c) \in Seq(ScriptStep)
BY DoFacts, OneStep DEF GlobalScope, Plain, Causes

LEMMA ErrorOfFacts ==
  ASSUME NEW x \in Nat
  PROVE  ErrorOf(x) \in Seq(ScriptStep) /\ Careful(ErrorOf(x))
BY DoFacts, OneStep, TwoSteps DEF ErrorOf, Plain, Causes

\* What an export function does, of grug and of the mock.
LEMMA ScriptFacts ==
  ASSUME NEW c \in Cases, NEW fn \in Exports, NEW x \in Nat
  PROVE  /\ Script(c, fn, x) \in Seq(ScriptStep)
         /\ MockScript(c, fn, x) \in Seq(ScriptStep) /\ Careful(MockScript(c, fn, x))
<1> USE DoFacts, OneStep, TwoSteps, ThreeSteps DEF Plain, Causes, Nested, Limits, Exports
<1>1. CASE c \in {"all", "stack_overflow"}
  BY <1>1 DEF Script, MockScript, CutShort
<1>10. CASE c \in {"time_limit_exceeded", "time_limit_exceeded_exponential_calls",
                   "time_limit_exceeded_fibonacci"}
  BY <1>10 DEF Script, MockScript, CutShort
<1>11. CASE c = "game_fn_error_in_static_method"
  BY <1>11 DEF Script, MockScript, CutShort
<1>12. CASE c = "game_fn_error_once"
  BY <1>12 DEF Script, MockScript, CutShort
<1>2. CASE c = "game_fn_error"
  <2>1. CASE fn = "b" \/ x < 4
    BY <1>2, <2>1, ErrorOfFacts DEF Script, MockScript, CutShort
  <2>2. CASE ~(fn = "b" \/ x < 4)
    <3>1. [fn |-> "call_on_b_fn_number", arg |-> x - 4] \in ScriptStep
      BY <2>2 DEF ScriptStep
    <3> QED BY <1>2, <2>2, <3>1 DEF Script, MockScript, CutShort
  <2> QED BY <2>1, <2>2
<1>3. CASE c = "on_fn_calls_erroring_on_fn"
  <2>1. CASE fn = "a"
    <3> DEFINE first == Do("call_on_b_fn")
               second == Do("nothing")
    <3>1. first \in ScriptStep /\ second \in ScriptStep
      OBVIOUS
    <3>2. Script(c, fn, x) = <<first, second>>
      BY <1>3, <2>1 DEF Script
    <3>3. MockScript(c, fn, x) = Front(Script(c, fn, x))
      BY <1>3, <2>1 DEF MockScript, CutShort
    <3> HIDE DEF first, second
    <3>4. <<first, second>> \in Seq(ScriptStep) /\ Front(<<first, second>>) = <<first>>
      BY ONLY <3>1, TwoSteps
    <3>5. <<first>> \in Seq(ScriptStep) /\ Careful(<<first>>)
      BY ONLY <3>1, OneStep
    <3> QED BY ONLY <3>2, <3>3, <3>4, <3>5
  <2>2. CASE fn = "b"
    BY <1>3, <2>2 DEF Script, MockScript, CutShort
  <2> QED BY <2>1, <2>2
<1>4. CASE c = "on_fn_errors_after_it_calls_other_on_fn"
  <2>1. CASE fn = "a"
    BY <1>4, <2>1 DEF Script, MockScript, CutShort
  <2>2. CASE fn = "b"
    BY <1>4, <2>2 DEF Script, MockScript, CutShort
  <2> QED BY <2>1, <2>2
<1>5. CASE c = "on_fn_method_calls_erroring_on_fn"
  <2>1. CASE fn = "a"
    <3> DEFINE first == Do("utils")
               second == Do("Utils_call_on_b_fn")
               third == Do("nothing")
    <3>1. /\ first \in ScriptStep /\ second \in ScriptStep /\ third \in ScriptStep
          /\ first.fn \in Plain
      OBVIOUS
    <3>2. /\ Script(c, fn, x) = <<first, second, third>>
          /\ MockScript(c, fn, x) = Front(<<first, second, third>>)
      BY <1>5, <2>1 DEF Script, MockScript, CutShort
    <3> HIDE DEF first, second, third
    <3>3. /\ <<first, second, third>> \in Seq(ScriptStep)
          /\ Front(<<first, second, third>>) = <<first, second>>
      BY ONLY <3>1, ThreeSteps
    <3>4. <<first, second>> \in Seq(ScriptStep) /\ Careful(<<first, second>>)
      BY ONLY <3>1, TwoSteps
    <3> QED BY ONLY <3>2, <3>3, <3>4
  <2>2. CASE fn = "b"
    BY <1>5, <2>2 DEF Script, MockScript, CutShort
  <2> QED BY <2>1, <2>2
<1>6. CASE c = "reentrant_error_handler"
  <2>1. CASE fn = "a"
    <3> DEFINE first == Do("cause_game_fn_error")
               second == Do("nothing")
    <3>1. first \in ScriptStep /\ second \in ScriptStep
      OBVIOUS
    <3>2. Script(c, fn, x) = <<first, second>>
      BY <1>6, <2>1 DEF Script
    <3>3. MockScript(c, fn, x) = Front(Script(c, fn, x))
      BY <1>6, <2>1 DEF MockScript, CutShort
    <3> HIDE DEF first, second
    <3>4. <<first, second>> \in Seq(ScriptStep) /\ Front(<<first, second>>) = <<first>>
      BY ONLY <3>1, TwoSteps
    <3>5. <<first>> \in Seq(ScriptStep) /\ Careful(<<first>>)
      BY ONLY <3>1, OneStep
    <3> QED BY ONLY <3>2, <3>3, <3>4, <3>5
  <2>2. CASE fn = "b"
    BY <1>6, <2>2 DEF Script, MockScript, CutShort
  <2> QED BY <2>1, <2>2
<1>7. CASE c = "reentrant_error_handler_second_error"
  <2>1. CASE fn = "a"
    <3> DEFINE first == Do("cause_game_fn_error")
               second == Do("nothing")
    <3>1. first \in ScriptStep /\ second \in ScriptStep
      OBVIOUS
    <3>2. Script(c, fn, x) = <<first, second>>
      BY <1>7, <2>1 DEF Script
    <3>3. MockScript(c, fn, x) = Front(Script(c, fn, x))
      BY <1>7, <2>1 DEF MockScript, CutShort
    <3> HIDE DEF first, second
    <3>4. <<first, second>> \in Seq(ScriptStep) /\ Front(<<first, second>>) = <<first>>
      BY ONLY <3>1, TwoSteps
    <3>5. <<first>> \in Seq(ScriptStep) /\ Careful(<<first>>)
      BY ONLY <3>1, OneStep
    <3> QED BY ONLY <3>2, <3>3, <3>4, <3>5
  <2>2. CASE fn = "b"
    <3> DEFINE first == Do("nothing")
               second == Do("cause_game_fn_error")
               third == Do("say")
    <3>1. /\ first \in ScriptStep /\ second \in ScriptStep /\ third \in ScriptStep
          /\ first.fn \in Plain
      OBVIOUS
    <3>2. /\ Script(c, fn, x) = <<first, second, third>>
          /\ MockScript(c, fn, x) = Front(<<first, second, third>>)
      BY <1>7, <2>2 DEF Script, MockScript, CutShort
    <3> HIDE DEF first, second, third
    <3>3. /\ <<first, second, third>> \in Seq(ScriptStep)
          /\ Front(<<first, second, third>>) = <<first, second>>
      BY ONLY <3>1, ThreeSteps
    <3>4. <<first, second>> \in Seq(ScriptStep) /\ Careful(<<first, second>>)
      BY ONLY <3>1, TwoSteps
    <3> QED BY ONLY <3>2, <3>3, <3>4
  <2> QED BY <2>1, <2>2
<1>8. CASE c = "finished_error_does_not_leak"
  <2>1. CASE fn = "a"
    <3> DEFINE first == Do("cause_game_fn_error")
               second == Do("nothing")
    <3>1. first \in ScriptStep /\ second \in ScriptStep
      OBVIOUS
    <3>2. Script(c, fn, x) = <<first, second>>
      BY <1>8, <2>1 DEF Script
    <3>3. MockScript(c, fn, x) = Front(Script(c, fn, x))
      BY <1>8, <2>1 DEF MockScript, CutShort
    <3> HIDE DEF first, second
    <3>4. <<first, second>> \in Seq(ScriptStep) /\ Front(<<first, second>>) = <<first>>
      BY ONLY <3>1, TwoSteps
    <3>5. <<first>> \in Seq(ScriptStep) /\ Careful(<<first>>)
      BY ONLY <3>1, OneStep
    <3> QED BY ONLY <3>2, <3>3, <3>4, <3>5
  <2>2. CASE fn = "b"
    BY <1>8, <2>2 DEF Script, MockScript, CutShort
  <2> QED BY <2>1, <2>2
<1>9. CASE c = "game_fn_error_global_scope"
  <2>1. Script(c, fn, x) = <<>> /\ MockScript(c, fn, x) = <<>>
    BY <1>9 DEF Script, MockScript, CutShort
  <2>2. <<>> \in Seq(ScriptStep) /\ Careful(<<>>)
    BY DEF Careful
  <2> QED BY <2>1, <2>2
<1> QED BY <1>1, <1>2, <1>3, <1>4, <1>5, <1>6, <1>7, <1>8, <1>9, <1>10,
        <1>11, <1>12, CasesAssumption DEF ErrRuntimeTests

---------------------------------------------------------------------------
(* Tests. *)

LEMMA CountsFacts ==
  /\ \A m, n, k \in Nat : Counts(m, n, k) \in Tally
  /\ \A n \in Nat : Caused(n) \in Tally
  /\ \A n \in Nat : /\ [call_on_b_fn |-> n] \in Tally /\ [say |-> n] \in Tally
                    /\ [get_opponent |-> n] \in Tally /\ [nothing |-> n] \in Tally
  /\ \A m, n \in Nat : [utils |-> m, Utils_call_on_b_fn |-> n] \in Tally
  /\ \A m, n, k \in Nat : [error_handler |-> m, nothing |-> n, say |-> k] \in Tally
  /\ \A C \in SUBSET Counters : [C -> Nat] \subseteq Tally
<1>1. \A C \in SUBSET Counters : [C -> Nat] \subseteq Tally
  BY DEF Tally
<1>2. ASSUME NEW m \in Nat, NEW n \in Nat, NEW k \in Nat
      PROVE  Counts(m, n, k) \in Tally
  <2>1. Counts(m, n, k) \in [{"error_handler", "cause_game_fn_error", "nothing"} -> Nat]
    BY DEF Counts
  <2> QED BY <1>1, <2>1 DEF Counters
<1>3. ASSUME NEW n \in Nat
      PROVE  Caused(n) \in Tally
  <2>1. Caused(n) \in [{"error_handler", "cause_game_fn_error"} -> Nat]
    BY DEF Caused
  <2> QED BY <1>1, <2>1 DEF Counters
<1>4. ASSUME NEW n \in Nat
      PROVE  /\ [call_on_b_fn |-> n] \in Tally /\ [say |-> n] \in Tally
             /\ [get_opponent |-> n] \in Tally /\ [nothing |-> n] \in Tally
  <2>1. /\ [call_on_b_fn |-> n] \in [{"call_on_b_fn"} -> Nat]
        /\ [say |-> n] \in [{"say"} -> Nat]
        /\ [get_opponent |-> n] \in [{"get_opponent"} -> Nat]
        /\ [nothing |-> n] \in [{"nothing"} -> Nat]
    OBVIOUS
  <2> QED BY <1>1, <2>1 DEF Counters
<1>5. ASSUME NEW m \in Nat, NEW n \in Nat
      PROVE  [utils |-> m, Utils_call_on_b_fn |-> n] \in Tally
  <2>1. [utils |-> m, Utils_call_on_b_fn |-> n] \in [{"utils", "Utils_call_on_b_fn"} -> Nat]
    OBVIOUS
  <2> QED BY <1>1, <2>1 DEF Counters
<1>6. ASSUME NEW m \in Nat, NEW n \in Nat, NEW k \in Nat
      PROVE  [error_handler |-> m, nothing |-> n, say |-> k] \in Tally
  <2>1. [error_handler |-> m, nothing |-> n, say |-> k]
           \in [{"error_handler", "nothing", "say"} -> Nat]
    OBVIOUS
  <2> QED BY <1>1, <2>1 DEF Counters
<1> QED BY <1>1, <1>2, <1>3, <1>4, <1>5, <1>6

LEMMA StepFacts ==
  /\ \A fn \in Exports, x \in Nat : Call(fn, x) \in OtherStep
  /\ CreateEntity \in OtherStep /\ ClearHadError \in OtherStep /\ CheckCreated \in OtherStep
  /\ ExpectNoError \in OtherStep /\ CheckSecondCreated \in OtherStep
  /\ \A counts \in Tally : Expect(counts) \in OtherStep
  /\ \A type \in ErrorTypes, reason \in Reasons, names \in SUBSET AnyName :
        ExpectError(type, reason, names) \in OtherStep
  /\ \A names \in SUBSET AnyName : GameFnError(names) \in OtherStep
  /\ \A on \in BOOLEAN : Reenter(on) \in TestStep
  /\ OtherStep \subseteq TestStep
  /\ \A step \in OtherStep : step.do # "reenter"
<1>1. \A type \in ErrorTypes, reason \in Reasons, names \in SUBSET AnyName :
        ExpectError(type, reason, names) \in OtherStep
  BY DEF ExpectError, OtherStep
<1>2. \A names \in SUBSET AnyName : GameFnError(names) \in OtherStep
  BY <1>1 DEF GameFnError, ErrorTypes, Reasons, Counters
<1>3. \A counts \in Tally : Expect(counts) \in OtherStep
  BY DEF Expect, OtherStep
<1>4. \A fn \in Exports, x \in Nat : Call(fn, x) \in OtherStep
  BY DEF Call, OtherStep
<1>5. \A step \in OtherStep : step.do # "reenter"
  BY DEF OtherStep
<1>6. /\ OtherStep \subseteq TestStep
      /\ \A on \in BOOLEAN : Reenter(on) \in TestStep
  BY DEF TestStep, Reenter
<1>7. /\ CreateEntity \in OtherStep /\ ClearHadError \in OtherStep /\ CheckCreated \in OtherStep
      /\ ExpectNoError \in OtherStep /\ CheckSecondCreated \in OtherStep
  BY DEF OtherStep, CreateEntity, ClearHadError, CheckCreated, ExpectNoError,
         CheckSecondCreated
<1> QED BY <1>1, <1>2, <1>3, <1>4, <1>5, <1>6, <1>7

LEMMA GameFnErrorCallFacts ==
  ASSUME NEW k \in 0..7
  PROVE  GameFnErrorCall(k) \in Seq(OtherStep)
<1> DEFINE cause == IF k % 2 = 0 THEN "cause_game_fn_error" ELSE "Utils_cause_game_fn_error"
           fn == IF k < 4 THEN "a" ELSE "b"
           n == (k \div 2) + 1
           first == Call("a", k)
           counts == [c \in {cause, "error_handler"} |-> IF c = cause THEN n ELSE k + 1]
           second == Expect(counts)
           third == ExpectError("GAME_FN_ERROR", cause, {fn})
<1>1. n \in Nat /\ k \in Nat /\ k + 1 \in Nat
  OBVIOUS
<1>2. cause \in Counters /\ "error_handler" \in Counters /\ cause \in Reasons
      /\ fn \in AnyName /\ "GAME_FN_ERROR" \in ErrorTypes
  BY DEF Counters, Reasons, AnyName, ErrorTypes
<1> HIDE DEF cause, n, fn
<1>3. first \in OtherStep
  BY <1>1, StepFacts DEF Exports
<1>4. second \in OtherStep
  <2>1. counts \in [{cause, "error_handler"} -> Nat]
    BY <1>1
  <2>2. {cause, "error_handler"} \in SUBSET Counters
    BY <1>2
  <2> HIDE DEF counts
  <2>3. counts \in Tally
    BY <2>1, <2>2, CountsFacts
  <2> QED BY <2>3, StepFacts
<1>5. third \in OtherStep
  BY <1>2, StepFacts
<1>6. GameFnErrorCall(k) = <<first, second, third>>
  BY DEF GameFnErrorCall, cause, n, fn
<1> HIDE DEF first, second, third
<1> QED BY <1>3, <1>4, <1>5, <1>6

LEMMA BodySteps ==
  /\ Call("a", 0) \in OtherStep /\ Call("b", 0) \in OtherStep
  /\ CreateEntity \in OtherStep /\ ClearHadError \in OtherStep
  /\ ExpectNoError \in OtherStep /\ CheckSecondCreated \in OtherStep
  /\ Expect(Caused(0)) \in OtherStep /\ Expect(Caused(1)) \in OtherStep
  /\ \A m, n, k \in {0, 1, 2} : Expect(Counts(m, n, k)) \in OtherStep
  /\ \A n \in {0, 1, 2} : /\ Expect([call_on_b_fn |-> n]) \in OtherStep
                          /\ Expect([say |-> n]) \in OtherStep
                          /\ Expect([get_opponent |-> n]) \in OtherStep
                          /\ Expect([nothing |-> n]) \in OtherStep
                          /\ Expect([utils |-> n, Utils_call_on_b_fn |-> n]) \in OtherStep
                          /\ Expect([error_handler |-> n, nothing |-> n, say |-> n]) \in OtherStep
  /\ GameFnError({"a"}) \in OtherStep /\ GameFnError({"b"}) \in OtherStep
  /\ GameFnError(AnyName) \in OtherStep
  /\ ExpectError("STACK_OVERFLOW", "Stack overflow", {"a"}) \in OtherStep
  /\ ExpectError("TIME_LIMIT_EXCEEDED", "Took longer", {"a"}) \in OtherStep
<1>1. {"a"} \in SUBSET AnyName /\ {"b"} \in SUBSET AnyName /\ AnyName \in SUBSET AnyName
  BY DEF AnyName
<1>2. /\ "STACK_OVERFLOW" \in ErrorTypes /\ "TIME_LIMIT_EXCEEDED" \in ErrorTypes
      /\ "Stack overflow" \in Reasons /\ "Took longer" \in Reasons
  BY DEF ErrorTypes, Reasons
<1>3. {0, 1, 2} \subseteq Nat
  OBVIOUS
<1>4. /\ Call("a", 0) \in OtherStep /\ Call("b", 0) \in OtherStep
      /\ CreateEntity \in OtherStep /\ ClearHadError \in OtherStep
      /\ ExpectNoError \in OtherStep /\ CheckSecondCreated \in OtherStep
  BY StepFacts DEF Exports
<1>5. Expect(Caused(0)) \in OtherStep /\ Expect(Caused(1)) \in OtherStep
  BY StepFacts, CountsFacts
<1>6. \A m, n, k \in {0, 1, 2} : Expect(Counts(m, n, k)) \in OtherStep
  BY <1>3, StepFacts, CountsFacts
<1>7. ASSUME NEW n \in {0, 1, 2}
      PROVE  /\ Expect([call_on_b_fn |-> n]) \in OtherStep
             /\ Expect([say |-> n]) \in OtherStep
             /\ Expect([get_opponent |-> n]) \in OtherStep
             /\ Expect([nothing |-> n]) \in OtherStep
             /\ Expect([utils |-> n, Utils_call_on_b_fn |-> n]) \in OtherStep
             /\ Expect([error_handler |-> n, nothing |-> n, say |-> n]) \in OtherStep
  BY StepFacts, CountsFacts
<1>8. /\ GameFnError({"a"}) \in OtherStep /\ GameFnError({"b"}) \in OtherStep
      /\ GameFnError(AnyName) \in OtherStep
  BY <1>1, StepFacts
<1>9. /\ ExpectError("STACK_OVERFLOW", "Stack overflow", {"a"}) \in OtherStep
      /\ ExpectError("TIME_LIMIT_EXCEEDED", "Took longer", {"a"}) \in OtherStep
  BY <1>1, <1>2, StepFacts
<1> QED BY <1>4, <1>5, <1>6, <1>7, <1>8, <1>9

LEMMA Tuples ==
  /\ \A s1 \in OtherStep : <<s1>> \in Seq(OtherStep)
  /\ \A s1, s2 \in OtherStep : <<s1, s2>> \in Seq(OtherStep)
  /\ \A s1, s2, s3, s4 \in OtherStep : <<s1, s2, s3, s4>> \in Seq(OtherStep)
  /\ \A s1, s2, s3, s4, s5, s6 \in OtherStep : <<s1, s2, s3, s4, s5, s6>> \in Seq(OtherStep)
  /\ \A s1, s2, s3, s4, s5, s6, s7, s8, s9 \in OtherStep : <<s1, s2, s3, s4, s5, s6, s7, s8, s9>> \in Seq(OtherStep)
  /\ \A s1, s2, s3, s4, s5, s6, s7, s8, s9, s10 \in OtherStep : <<s1, s2, s3, s4, s5, s6, s7, s8, s9, s10>> \in Seq(OtherStep)
<1>1. ASSUME NEW s1 \in OtherStep
      PROVE  <<s1>> \in Seq(OtherStep)
  OBVIOUS
<1>2. ASSUME NEW s1 \in OtherStep, NEW s2 \in OtherStep
      PROVE  <<s1, s2>> \in Seq(OtherStep)
  OBVIOUS
<1>3. ASSUME NEW s1 \in OtherStep, NEW s2 \in OtherStep, NEW s3 \in OtherStep, NEW s4 \in OtherStep
      PROVE  <<s1, s2, s3, s4>> \in Seq(OtherStep)
  OBVIOUS
<1>4. ASSUME NEW s1 \in OtherStep, NEW s2 \in OtherStep, NEW s3 \in OtherStep, NEW s4 \in OtherStep, NEW s5 \in OtherStep, NEW s6 \in OtherStep
      PROVE  <<s1, s2, s3, s4, s5, s6>> \in Seq(OtherStep)
  OBVIOUS
<1>5. ASSUME NEW s1 \in OtherStep, NEW s2 \in OtherStep, NEW s3 \in OtherStep, NEW s4 \in OtherStep, NEW s5 \in OtherStep, NEW s6 \in OtherStep, NEW s7 \in OtherStep, NEW s8 \in OtherStep, NEW s9 \in OtherStep
      PROVE  <<s1, s2, s3, s4, s5, s6, s7, s8, s9>> \in Seq(OtherStep)
  OBVIOUS
<1>6. ASSUME NEW s1 \in OtherStep, NEW s2 \in OtherStep, NEW s3 \in OtherStep, NEW s4 \in OtherStep, NEW s5 \in OtherStep, NEW s6 \in OtherStep, NEW s7 \in OtherStep, NEW s8 \in OtherStep, NEW s9 \in OtherStep, NEW s10 \in OtherStep
      PROVE  <<s1, s2, s3, s4, s5, s6, s7, s8, s9, s10>> \in Seq(OtherStep)
  OBVIOUS
<1> QED BY <1>1, <1>2, <1>3, <1>4, <1>5, <1>6

\* The tests that leave the option alone.
LEMMA OtherBody ==
  ASSUME NEW c \in Cases,
         c \notin {"reentrant_error_handler", "reentrant_error_handler_second_error"}
  PROVE  TestBody(c) \in Seq(OtherStep)
<1>1. CASE c \in {"all", "stack_overflow"}
  <2> DEFINE body ==
           <<Call("a", 0), ExpectError("STACK_OVERFLOW", "Stack overflow", {"a"})>>
  <2>1. TestBody(c) = body
    BY ONLY <1>1 DEF TestBody
  <2>2. body \in Seq(OtherStep)
    BY ONLY BodySteps, Tuples, Zenon
  <2> HIDE DEF body
  <2> QED BY ONLY <2>1, <2>2
<1>2. CASE c \in {"time_limit_exceeded", "time_limit_exceeded_exponential_calls",
                 "time_limit_exceeded_fibonacci"}
  <2> DEFINE body ==
           <<Call("a", 0), ExpectError("TIME_LIMIT_EXCEEDED", "Took longer", {"a"})>>
  <2>1. TestBody(c) = body
    BY ONLY <1>2 DEF TestBody
  <2>2. body \in Seq(OtherStep)
    BY ONLY BodySteps, Tuples, Zenon
  <2> HIDE DEF body
  <2> QED BY ONLY <2>1, <2>2
<1>3. CASE c = "game_fn_error"
  <2>1. TestBody(c) =
         <<Expect(Caused(0))>> \o GameFnErrorCall(0) \o GameFnErrorCall(1)
         \o GameFnErrorCall(2) \o GameFnErrorCall(3) \o GameFnErrorCall(4)
         \o GameFnErrorCall(5) \o GameFnErrorCall(6) \o GameFnErrorCall(7)
    BY ONLY <1>3 DEF TestBody
  <2>2. \A k \in {0, 1, 2, 3, 4, 5, 6, 7} : GameFnErrorCall(k) \in Seq(OtherStep)
    BY GameFnErrorCallFacts
  <2>3. <<Expect(Caused(0))>> \in Seq(OtherStep)
    BY ONLY BodySteps, Tuples
  <2>4. \A p, q \in Seq(OtherStep) : p \o q \in Seq(OtherStep)
    BY ConcatFacts
  <2> QED BY ONLY <2>1, <2>2, <2>3, <2>4
<1>4. CASE c = "game_fn_error_in_static_method"
  <2> DEFINE body ==
           <<Expect(Caused(0)), Call("a", 0), Expect(Caused(1)), GameFnError(AnyName)>>
  <2>1. TestBody(c) = body
    BY ONLY <1>4 DEF TestBody
  <2>2. body \in Seq(OtherStep)
    BY ONLY BodySteps, Tuples, Zenon
  <2> HIDE DEF body
  <2> QED BY ONLY <2>1, <2>2
<1>5. CASE c = "game_fn_error_global_scope"
  <2> DEFINE body ==
           <<Expect(Caused(1)), GameFnError(AnyName)>>
  <2>1. TestBody(c) = body
    BY ONLY <1>5 DEF TestBody
  <2>2. body \in Seq(OtherStep)
    BY ONLY BodySteps, Tuples, Zenon
  <2> HIDE DEF body
  <2> QED BY ONLY <2>1, <2>2
<1>6. CASE c = "game_fn_error_once"
  <2> DEFINE body ==
           <<Expect(Caused(0)), Call("a", 0), Expect(Caused(1)), GameFnError({"a"}),
           ClearHadError, Expect(Counts(1, 1, 0)), Call("b", 0), Expect(Counts(1, 1, 1)),
           ExpectNoError>>
  <2>1. TestBody(c) = body
    BY ONLY <1>6 DEF TestBody
  <2>2. body \in Seq(OtherStep)
    BY ONLY BodySteps, Tuples, Zenon
  <2> HIDE DEF body
  <2> QED BY ONLY <2>1, <2>2
<1>7. CASE c = "on_fn_calls_erroring_on_fn"
  <2> DEFINE body ==
           <<Expect(Counts(0, 0, 0)), Expect([call_on_b_fn |-> 0]), Call("a", 0),
           Expect(Counts(1, 1, 0)), Expect([call_on_b_fn |-> 1]), GameFnError({"b"})>>
  <2>1. TestBody(c) = body
    BY ONLY <1>7 DEF TestBody
  <2>2. body \in Seq(OtherStep)
    BY ONLY BodySteps, Tuples, Zenon
  <2> HIDE DEF body
  <2> QED BY ONLY <2>1, <2>2
<1>8. CASE c = "on_fn_errors_after_it_calls_other_on_fn"
  <2> DEFINE body ==
           <<Expect(Counts(0, 0, 0)), Expect([call_on_b_fn |-> 0]), Call("a", 0),
           Expect(Counts(1, 1, 1)), Expect([call_on_b_fn |-> 1]), GameFnError({"a"})>>
  <2>1. TestBody(c) = body
    BY ONLY <1>8 DEF TestBody
  <2>2. body \in Seq(OtherStep)
    BY ONLY BodySteps, Tuples, Zenon
  <2> HIDE DEF body
  <2> QED BY ONLY <2>1, <2>2
<1>9. CASE c = "on_fn_method_calls_erroring_on_fn"
  <2> DEFINE body ==
           <<Expect(Counts(0, 0, 0)), Expect([utils |-> 0, Utils_call_on_b_fn |-> 0]), Call("a", 0),
           Expect(Counts(1, 1, 0)), Expect([utils |-> 1, Utils_call_on_b_fn |-> 1]),
           GameFnError({"b"})>>
  <2>1. TestBody(c) = body
    BY ONLY <1>9 DEF TestBody
  <2>2. body \in Seq(OtherStep)
    BY ONLY BodySteps, Tuples, Zenon
  <2> HIDE DEF body
  <2> QED BY ONLY <2>1, <2>2
<1>10. CASE c = "finished_error_does_not_leak"
  <2> DEFINE body ==
           <<Expect(Counts(0, 0, 0)), Expect([get_opponent |-> 1]), Call("a", 0),
           Expect(Counts(1, 1, 0)), GameFnError({"a"}), Call("b", 0), Expect([nothing |-> 1]),
           CreateEntity, CheckSecondCreated, Expect([get_opponent |-> 2])>>
  <2>1. TestBody(c) = body
    BY ONLY <1>10 DEF TestBody
  <2>2. body \in Seq(OtherStep)
    BY ONLY BodySteps, Tuples, Zenon
  <2> HIDE DEF body
  <2> QED BY ONLY <2>1, <2>2
<1> QED BY <1>1, <1>2, <1>3, <1>4, <1>5, <1>6, <1>7, <1>8, <1>9, <1>10, CasesAssumption
        DEF ErrRuntimeTests

\* Nothing to pair without a "reenter", and a prefix without one does not matter.
LEMMA PairedFacts ==
  /\ \A p \in Seq(OtherStep) : p \in Seq(TestStep) /\ Paired(p)
  /\ \A p \in Seq(OtherStep), q \in Seq(TestStep) :
        Paired(q) => p \o q \in Seq(TestStep) /\ Paired(p \o q)
  /\ \A p \in Seq(TestStep) : p # <<>> /\ Paired(p) => Paired(Tail(p))
<1>1. ASSUME NEW p \in Seq(OtherStep)
      PROVE  p \in Seq(TestStep) /\ Paired(p)
  <2>1. p \in Seq(TestStep)
    BY StepFacts
  <2>2. \A k \in 1..Len(p) : p[k].do # "reenter"
    BY StepFacts
  <2> QED BY <2>1, <2>2 DEF Paired, SwitchesOn
<1>2. ASSUME NEW p \in Seq(OtherStep), NEW q \in Seq(TestStep), Paired(q)
      PROVE  p \o q \in Seq(TestStep) /\ Paired(p \o q)
  <2> DEFINE pq == p \o q
             n == Len(p)
             m == Len(q)
  <2>1. p \in Seq(TestStep) /\ n \in Nat /\ m \in Nat /\ \A k \in 1..n : p[k].do # "reenter"
    BY StepFacts
  <2>2. /\ pq \in Seq(TestStep) /\ Len(pq) = n + m
        /\ \A k \in 1..n : pq[k] = p[k]
        /\ \A k \in 1..m : pq[n + k] = q[k]
    BY <2>1, ConcatFacts
  <2>3. \A k \in 1..m : SwitchesOn(q[k]) =>
            k + 2 <= m /\ q[k + 1].do = "call" /\ SwitchesOff(q[k + 2])
    BY <1>2 DEF Paired
  <2> HIDE DEF pq, n, m
  <2>4. ASSUME NEW k \in 1..(n + m), SwitchesOn(pq[k])
        PROVE  k + 2 <= n + m /\ pq[k + 1].do = "call" /\ SwitchesOff(pq[k + 2])
    <3>1. k \notin 1..n
      BY <2>1, <2>2, <2>4 DEF SwitchesOn
    <3>2. PICK j \in 1..m : k = n + j
      <4>1. k - n \in 1..m /\ k = n + (k - n)
        BY <2>1, <3>1
      <4> QED BY <4>1
    <3>3. /\ SwitchesOn(q[j]) /\ j + 2 <= m /\ q[j + 1].do = "call" /\ SwitchesOff(q[j + 2])
      BY <2>2, <2>3, <2>4, <3>2
    <3>4. j + 1 \in 1..m /\ j + 2 \in 1..m
      BY <2>1, <3>3
    <3>5. pq[n + (j + 1)] = q[j + 1] /\ pq[n + (j + 2)] = q[j + 2]
      BY <2>2, <3>4
    <3>6. k + 1 = n + (j + 1) /\ k + 2 = n + (j + 2) /\ k + 2 <= n + m
      BY <2>1, <3>2, <3>3
    <3> QED BY <3>3, <3>5, <3>6
  <2> QED BY <2>2, <2>4 DEF Paired, pq
<1>3. ASSUME NEW p \in Seq(TestStep), p # <<>>, Paired(p)
      PROVE  Paired(Tail(p))
  <2> DEFINE t == Tail(p)
             n == Len(p)
             m == Len(t)
  <2>1. n \in Nat /\ n > 0 /\ m = n - 1 /\ \A k \in 1..m : t[k] = p[k + 1]
    BY <1>3, TailFacts
  <2>2. \A k \in 1..n : SwitchesOn(p[k]) =>
            k + 2 <= n /\ p[k + 1].do = "call" /\ SwitchesOff(p[k + 2])
    BY <1>3 DEF Paired
  <2> HIDE DEF t, n, m
  <2>3. ASSUME NEW k \in 1..m, SwitchesOn(t[k])
        PROVE  k + 2 <= m /\ t[k + 1].do = "call" /\ SwitchesOff(t[k + 2])
    <3>1. k + 1 \in 1..n /\ SwitchesOn(p[k + 1])
      BY <2>1, <2>3
    <3>2. /\ (k + 1) + 2 <= n /\ p[(k + 1) + 1].do = "call" /\ SwitchesOff(p[(k + 1) + 2])
      BY <2>2, <3>1
    <3>3. k + 1 \in 1..m /\ k + 2 \in 1..m /\ k + 2 <= m
      BY <2>1, <3>2
    <3>4. t[k + 1] = p[(k + 1) + 1] /\ t[k + 2] = p[(k + 1) + 2]
      BY <2>1, <3>3
    <3> QED BY <3>2, <3>3, <3>4
  <2> QED BY <2>3 DEF Paired, t, m
<1> QED BY <1>1, <1>2, <1>3

\* One call between the switching on and the switching off.
LEMMA Switching7 ==
  ASSUME NEW s1 \in OtherStep, NEW s2 \in OtherStep, NEW s6 \in OtherStep,
         NEW s7 \in OtherStep,
         NEW on \in TestStep, NEW call \in OtherStep, NEW off \in TestStep,
         call.do = "call", SwitchesOff(off)
  PROVE  <<s1, s2, on, call, off, s6, s7>> \in Seq(TestStep) /\ Paired(<<s1, s2, on, call, off, s6, s7>>)
<1> DEFINE p == <<s1, s2, on, call, off, s6, s7>>
<1>1. /\ s1 \in TestStep /\ s2 \in TestStep /\ s6 \in TestStep /\ call \in TestStep
      /\ s7 \in TestStep
  BY StepFacts
<1>2. /\ ~SwitchesOn(s1) /\ ~SwitchesOn(s2) /\ ~SwitchesOn(s6)
      /\ ~SwitchesOn(s7)
      /\ ~SwitchesOn(call) /\ ~SwitchesOn(off)
  BY StepFacts DEF SwitchesOn, SwitchesOff
<1>3. p \in Seq(TestStep) /\ Len(p) = 7
  BY <1>1
<1>4. /\ p[1] = s1 /\ p[2] = s2 /\ p[3] = on /\ p[4] = call /\ p[5] = off /\ p[6] = s6 /\ p[7] = s7
  OBVIOUS
<1> HIDE DEF p
<1>5. ASSUME NEW k \in 1..7, SwitchesOn(p[k])
      PROVE  k + 2 <= 7 /\ p[k + 1].do = "call" /\ SwitchesOff(p[k + 2])
  <2>1. k = 1 \/ k = 2 \/ k = 3 \/ k = 4 \/ k = 5 \/ k = 6 \/ k = 7
    OBVIOUS
  <2>2. k = 3
    BY <1>2, <1>4, <1>5, <2>1
  <2> QED BY <1>4, <2>2
<1>6. Paired(p)
  BY <1>3, <1>5 DEF Paired
<1> QED BY <1>3, <1>6 DEF p

LEMMA Switching8 ==
  ASSUME NEW s1 \in OtherStep, NEW s2 \in OtherStep, NEW s6 \in OtherStep,
         NEW s7 \in OtherStep, NEW s8 \in OtherStep,
         NEW on \in TestStep, NEW call \in OtherStep, NEW off \in TestStep,
         call.do = "call", SwitchesOff(off)
  PROVE  <<s1, s2, on, call, off, s6, s7, s8>> \in Seq(TestStep) /\ Paired(<<s1, s2, on, call, off, s6, s7, s8>>)
<1> DEFINE p == <<s1, s2, on, call, off, s6, s7, s8>>
<1>1. /\ s1 \in TestStep /\ s2 \in TestStep /\ s6 \in TestStep /\ call \in TestStep
      /\ s7 \in TestStep /\ s8 \in TestStep
  BY StepFacts
<1>2. /\ ~SwitchesOn(s1) /\ ~SwitchesOn(s2) /\ ~SwitchesOn(s6)
      /\ ~SwitchesOn(s7) /\ ~SwitchesOn(s8)
      /\ ~SwitchesOn(call) /\ ~SwitchesOn(off)
  BY StepFacts DEF SwitchesOn, SwitchesOff
<1>3. p \in Seq(TestStep) /\ Len(p) = 8
  BY <1>1
<1>4. /\ p[1] = s1 /\ p[2] = s2 /\ p[3] = on /\ p[4] = call /\ p[5] = off /\ p[6] = s6 /\ p[7] = s7 /\ p[8] = s8
  OBVIOUS
<1> HIDE DEF p
<1>5. ASSUME NEW k \in 1..8, SwitchesOn(p[k])
      PROVE  k + 2 <= 8 /\ p[k + 1].do = "call" /\ SwitchesOff(p[k + 2])
  <2>1. k = 1 \/ k = 2 \/ k = 3 \/ k = 4 \/ k = 5 \/ k = 6 \/ k = 7 \/ k = 8
    OBVIOUS
  <2>2. k = 3
    BY <1>2, <1>4, <1>5, <2>1
  <2> QED BY <1>4, <2>2
<1>6. Paired(p)
  BY <1>3, <1>5 DEF Paired
<1> QED BY <1>3, <1>6 DEF p

\* The program of a test.
LEMMA ProgramFacts ==
  ASSUME NEW c \in Cases
  PROVE  /\ <<CreateEntity, CheckCreated>> \o TestBody(c) \in Seq(TestStep)
         /\ Paired(<<CreateEntity, CheckCreated>> \o TestBody(c))
<1>1. TestBody(c) \in Seq(TestStep) /\ Paired(TestBody(c))
  <2>1. CASE c \notin {"reentrant_error_handler", "reentrant_error_handler_second_error"}
    BY <2>1, OtherBody, PairedFacts
  <2> DEFINE s1 == Expect(Counts(0, 0, 0))
             s2 == Expect([say |-> 0])
             on == Reenter(TRUE)
             call == Call("a", 0)
             off == Reenter(FALSE)
  <2>2. /\ s1 \in OtherStep /\ s2 \in OtherStep /\ call \in OtherStep /\ call.do = "call"
        /\ on \in TestStep /\ off \in TestStep /\ SwitchesOff(off)
    BY BodySteps, StepFacts DEF Call, Reenter, SwitchesOff
  <2>3. CASE c = "reentrant_error_handler"
    <3> DEFINE s6 == Expect([error_handler |-> 1, nothing |-> 1, say |-> 1])
               s7 == GameFnError({"a"})
    <3>1. TestBody(c) = <<s1, s2, on, call, off, s6, s7>>
      BY ONLY <2>3 DEF TestBody
    <3>2. s6 \in OtherStep /\ s7 \in OtherStep
      BY BodySteps
    <3> HIDE DEF s1, s2, on, call, off, s6, s7
    <3> QED BY ONLY <2>2, <3>1, <3>2, Switching7
  <2>4. CASE c = "reentrant_error_handler_second_error"
    <3> DEFINE s6 == Expect(Counts(2, 2, 1))
               s7 == Expect([say |-> 0])
               s8 == GameFnError({"b"})
               body == <<s1, s2, on, call, off, s6, s7, s8>>
    <3>1. TestBody(c) = body
      BY ONLY <2>4 DEF TestBody
    <3>2. s6 \in OtherStep /\ s7 \in OtherStep /\ s8 \in OtherStep
      BY BodySteps
    <3> HIDE DEF s1, s2, on, call, off, s6, s7, s8
    <3>3. body \in Seq(TestStep) /\ Paired(body)
      BY ONLY <2>2, <3>2, Switching8, Zenon
    <3> HIDE DEF body
    <3> QED BY ONLY <3>1, <3>3
  <2> QED BY <2>1, <2>3, <2>4
<1>2. <<CreateEntity, CheckCreated>> \in Seq(OtherStep)
  BY ONLY StepFacts, Tuples, Zenon
<1> QED BY <1>1, <1>2, PairedFacts

---------------------------------------------------------------------------
(* What a step does to the stack. *)

\* The innermost frame goes past its next instruction.
Advances(new) ==
    /\ new \in Seq(Frames) /\ Len(new) = Len(stack)
    /\ \A k \in 1..Len(stack) : new[k].kind = stack[k].kind /\ new[k].fn = stack[k].fn
    /\ new[1].code = Tail(stack[1].code)
    /\ \A k \in 2..Len(stack) : new[k] = stack[k]

\* And a new frame is put on it.
Pushes(new, f) ==
    /\ new \in Seq(Frames) /\ Len(new) = Len(stack) + 1
    /\ new[1] = f
    /\ \A k \in 1..Len(stack) : new[k + 1].kind = stack[k].kind /\ new[k + 1].fn = stack[k].fn
    /\ new[2].code = Tail(stack[1].code)
    /\ \A k \in 2..Len(stack) : new[k + 1] = stack[k]

Pops(new) ==
    /\ new \in Seq(Frames) /\ Len(new) = Len(stack) - 1
    /\ \A k \in 1..(Len(stack) - 1) : new[k] = stack[k + 1]

LEMMA TopFacts ==
  ASSUME ShapeInv, stack # <<>>
  PROVE  /\ Len(stack) \in Nat /\ Len(stack) > 0 /\ 1 \in 1..Len(stack)
         /\ Top = stack[1] /\ Top \in Frames
         /\ Top.kind = "test" => Top \in TestFrame
         /\ Top.kind = "script" => Top \in ScriptFrame
         /\ Top.kind = "handler" => Top \in HandlerFrame
<1>1. /\ Len(stack) \in Nat /\ Len(stack) > 0 /\ 1 \in 1..Len(stack)
      /\ Top = stack[1] /\ Top \in Frames
  BY TailFacts DEF ShapeInv, Top
<1>2. \A f \in Frames : /\ f.kind = "test" => f \in TestFrame
                        /\ f.kind = "script" => f \in ScriptFrame
                        /\ f.kind = "handler" => f \in HandlerFrame
  BY DEF Frames, TestFrame, ScriptFrame, HandlerFrame
<1> QED BY <1>1, <1>2

LEMMA InstrFacts ==
  ASSUME ShapeInv, stack # <<>>, Top.code # <<>>
  PROVE  /\ Instr = stack[1].code[1]
         /\ Top.kind = "test" => /\ Instr \in TestStep
                                 /\ Instr.do = "call" => Instr.fn \in Exports /\ Instr.arg \in Nat
                                 /\ Instr.do = "reenter" => Instr.on \in BOOLEAN
         /\ Top.kind = "script" => /\ Instr \in ScriptStep
                                   /\ Instr.fn \in Plain \cup Causes \cup Nested \cup Limits
                                   /\ Instr.arg \in Nat
         /\ Top.kind = "handler" => Instr.fn \in Exports /\ Instr.arg \in Nat
<1>1. CASE Top.kind = "test"
  <2>1. Top.code \in Seq(TestStep)
    BY <1>1, TopFacts DEF TestFrame
  <2>2. Instr \in TestStep /\ Instr = stack[1].code[1]
    BY <2>1, TailFacts, TopFacts DEF Instr
  <2>3. \A step \in TestStep :
            /\ step.do = "call" => step.fn \in Exports /\ step.arg \in Nat
            /\ step.do = "reenter" => step.on \in BOOLEAN
    BY DEF TestStep, OtherStep
  <2> QED BY <1>1, <2>2, <2>3
<1>2. CASE Top.kind = "script"
  <2>1. Top.code \in Seq(ScriptStep)
    BY <1>2, TopFacts DEF ScriptFrame
  <2>2. Instr \in ScriptStep /\ Instr = stack[1].code[1]
    BY <2>1, TailFacts, TopFacts DEF Instr
  <2> QED BY <1>2, <2>2 DEF ScriptStep
<1>3. CASE Top.kind = "handler"
  <2> DEFINE S == [do : {"call"}, fn : Exports, arg : Nat]
  <2>1. Top.code \in Seq(S)
    BY <1>3, TopFacts DEF HandlerFrame
  <2>2. \A step \in S : step.fn \in Exports /\ step.arg \in Nat
    OBVIOUS
  <2> HIDE DEF S
  <2>3. Instr \in S /\ Instr = stack[1].code[1]
    BY <2>1, TailFacts, TopFacts DEF Instr
  <2> QED BY <1>3, <2>2, <2>3
<1> QED BY <1>1, <1>2, <1>3, TopFacts DEF Frames, TestFrame, ScriptFrame, HandlerFrame

LEMMA StackFacts ==
  ASSUME ShapeInv, stack # <<>>
  PROVE  /\ Top.code # <<>> => Advances(Advanced)
         /\ \A f \in Frames : Top.code # <<>> => Pushes(<<f>> \o Advanced, f)
         /\ Pops(Tail(stack))
<1> DEFINE n == Len(stack)
           rest == Tail(stack)
           top == [Top EXCEPT !.code = Tail(@)]
<1>1. /\ n \in Nat /\ n > 0 /\ rest \in Seq(Frames) /\ Len(rest) = n - 1
      /\ \A k \in 1..(n - 1) : rest[k] = stack[k + 1]
  BY TailFacts DEF ShapeInv
<1>2. Pops(rest)
  BY <1>1 DEF Pops
<1>3. ASSUME Top.code # <<>>
      PROVE  /\ Advances(Advanced)
             /\ \A f \in Frames : Pushes(<<f>> \o Advanced, f)
  <2>1. top.kind = Top.kind /\ top.fn = Top.fn /\ top.code = Tail(Top.code) /\ top \in Frames
    <3>1. \A S : \A p \in Seq(S) : p # <<>> => Tail(p) \in Seq(S)
      BY TailFacts
    <3>2. CASE Top \in TestFrame
      BY <1>3, <3>1, <3>2 DEF Frames, TestFrame
    <3>3. CASE Top \in ScriptFrame
      BY <1>3, <3>1, <3>3 DEF Frames, ScriptFrame
    <3>4. CASE Top \in HandlerFrame
      BY <1>3, <3>1, <3>4 DEF Frames, HandlerFrame
    <3> QED BY <3>2, <3>3, <3>4, TopFacts DEF Frames
  <2>2. Advanced = <<top>> \o rest
    BY DEF Advanced
  <2> HIDE DEF top, rest
  <2>3. /\ <<top>> \o rest \in Seq(Frames) /\ Len(<<top>> \o rest) = Len(rest) + 1
        /\ (<<top>> \o rest)[1] = top
        /\ \A k \in 1..Len(rest) : (<<top>> \o rest)[k + 1] = rest[k]
    BY <1>1, <2>1, ConsFacts
  <2> HIDE DEF n
  <2>4. /\ Advanced \in Seq(Frames) /\ Len(Advanced) = (n - 1) + 1 /\ Advanced[1] = top
        /\ \A k \in 1..(n - 1) : Advanced[k + 1] = rest[k]
    BY <1>1, <2>2, <2>3
  <2>5. Len(Advanced) = n /\ Advanced[1] = top
    BY <1>1, <2>4
  <2>6. \A k \in 2..n : Advanced[k] = stack[k]
    <3> SUFFICES ASSUME NEW k \in 2..n
                 PROVE  Advanced[k] = stack[k]
      OBVIOUS
    <3>1. k - 1 \in 1..(n - 1) /\ (k - 1) + 1 = k
      BY <1>1
    <3> QED BY <1>1, <2>4, <3>1
  <2>7. Top = stack[1]
    BY TopFacts
  <2>8. \A k \in 1..n : k = 1 \/ k \in 2..n
    BY <1>1
  <2>9. Advances(Advanced)
    BY <2>1, <2>4, <2>5, <2>6, <2>7, <2>8 DEF Advances, n
  <2>10. ASSUME NEW f \in Frames
         PROVE  Pushes(<<f>> \o Advanced, f)
    <3> DEFINE new == <<f>> \o Advanced
    <3>1. /\ new \in Seq(Frames) /\ Len(new) = Len(Advanced) + 1 /\ new[1] = f
          /\ \A k \in 1..Len(Advanced) : new[k + 1] = Advanced[k]
      BY <2>4, ConsFacts
    <3> HIDE DEF new
    <3>2. new \in Seq(Frames)
      BY <3>1
    <3>4. \A k \in 1..n : new[k + 1] = Advanced[k]
      BY <2>5, <3>1
    <3>3. new[1] = f /\ new[2] = top
      <4>1. 1 \in 1..n /\ 1 + 1 = 2
        BY <1>1
      <4> QED BY <2>5, <3>1, <3>4, <4>1
    <3>5. \A k \in 2..n : new[k + 1] = stack[k]
      BY <1>1, <2>6, <2>8, <3>4
    <3>6. Len(new) = n + 1
      BY <2>5, <3>1
    <3>7. Pushes(new, f)
      BY <2>1, <2>5, <2>6, <2>7, <2>8, <3>2, <3>3, <3>4, <3>5, <3>6 DEF Pushes, n
    <3> QED BY <3>7 DEF new
  <2> QED BY <2>9, <2>10
<1> QED BY <1>2, <1>3
---------------------------------------------------------------------------
(* The kinds of steps. *)

Running == stack # <<>> /\ Top.code # <<>>

\* The innermost frame goes on.
Goes ==
    /\ Running /\ Advances(stack')
    /\ UNCHANGED <<implementation, case, reenter_depth>>
    /\ Top.kind = "test" => Instr.do \notin {"call", "create"}
    /\ reenter_from_error_handler' = IF Top.kind = "test" /\ Instr.do = "reenter"
                                     THEN Instr.on ELSE reenter_from_error_handler
    /\ saved_on_fn_name' = IF Top.kind = "script" /\ Instr.fn = "restore_name"
                           THEN Top.fn ELSE saved_on_fn_name

\* A script is entered.
Enters(f) ==
    /\ Running /\ Pushes(stack', f)
    /\ UNCHANGED <<implementation, case, reentrancy>>
    /\ Top.kind = "test" => Instr.do \in {"call", "create"}
    /\ Top.kind = "script" => Instr.fn \notin Plain
    /\ f.fn # "globals" => /\ saved_on_fn_name' = f.fn
                           /\ implementation = "mock" => Careful(f.code)

\* The handler is called, and will call into grug.
Reports(f) ==
    /\ Running /\ Pushes(stack', f)
    /\ Top.kind = "script" /\ Instr.fn \notin Plain
    /\ reenter_depth = 0 /\ reenter_depth' = 1
    /\ UNCHANGED <<implementation, case, reenter_from_error_handler, saved_on_fn_name>>

\* A script or the handler returns.
Returns ==
    /\ stack # <<>> /\ Pops(stack')
    /\ UNCHANGED <<implementation, case, reenter_from_error_handler, saved_on_fn_name>>
    /\ \/ Top.kind = "script" /\ reenter_depth' = reenter_depth
       \/ Top.kind = "handler" /\ reenter_depth' = reenter_depth - 1

\* A test ends.
Ends ==
    /\ stack # <<>> /\ Top.kind = "test"
    /\ Top.code # <<>> => Instr.do \notin {"call", "create", "reenter"}
    /\ stack' = <<>>
    /\ UNCHANGED <<implementation, reentrancy>>

\* A test begins.
Begins(f) ==
    /\ stack = <<>> /\ stack' = <<f>>
    /\ case' \in Cases /\ Paired(f.code)
    /\ UNCHANGED <<implementation, reentrancy>>

Stands == UNCHANGED <<implementation, stack, case, reentrancy, saved_on_fn_name>>

\* What call_export_fn and create_entity put on the stack.
LEMMA CallEnters ==
  ASSUME TypeInv, Running,
         NEW fn \in Exports, NEW x \in Nat, call_export_fn(fn, x),
         Top.kind = "test" => Instr.do \in {"call", "create"},
         Top.kind = "script" => Instr.fn \notin Plain,
         UNCHANGED <<implementation, case, reentrancy>>
  PROVE  \E f \in ScriptFrame : Enters(f)
<1> DEFINE code == IF IsMock THEN MockScript(case, fn, x) ELSE Script(case, fn, x)
           f == Frame("script", fn, code, pending)
<1>1. case \in Cases /\ pending \in BOOLEAN
  BY DEF TypeInv, ShapeInv, DataInv, Running
<1>2. code \in Seq(ScriptStep) /\ (implementation = "mock" => Careful(code))
  BY <1>1, ScriptFacts DEF IsMock
<1>3. stack' = <<f>> \o Advanced /\ saved_on_fn_name' = fn
  BY DEF call_export_fn
<1> HIDE DEF code
<1>4. f \in ScriptFrame /\ f.fn = fn /\ f.code = code
  BY <1>1, <1>2 DEF Frame, ScriptFrame
<1> HIDE DEF f
<1>5. Pushes(stack', f)
  BY <1>3, <1>4, StackFacts DEF TypeInv, Running, Frames
<1>6. Enters(f)
  BY <1>2, <1>3, <1>4, <1>5 DEF Enters
<1> QED BY <1>4, <1>6

LEMMA CreateEnters ==
  ASSUME TypeInv, Running, create_entity, Top.kind = "test", Instr.do = "create",
         UNCHANGED <<implementation, case, reentrancy>>
  PROVE  \E f \in ScriptFrame : Enters(f)
<1> DEFINE code == GlobalScope(case)
           f == Frame("script", "globals", code, pending)
<1>1. case \in Cases /\ pending \in BOOLEAN
  BY DEF TypeInv, ShapeInv, DataInv, Running
<1>2. code \in Seq(ScriptStep)
  BY <1>1, GlobalScopeFacts
<1>3. stack' = <<f>> \o Advanced
  BY DEF create_entity
<1> HIDE DEF code
<1>4. f \in ScriptFrame /\ f.fn = "globals"
  BY <1>1, <1>2 DEF Frame, ScriptFrame
<1> HIDE DEF f
<1>5. Pushes(stack', f)
  BY <1>3, <1>4, StackFacts DEF TypeInv, Running, Frames
<1>6. Enters(f)
  BY <1>4, <1>5 DEF Enters
<1> QED BY <1>4, <1>6

\* What the handler does to the stack.
LEMMA HandlerFacts ==
  ASSUME TypeInv, Running, Top.kind = "script", Instr.fn \notin Plain,
         NEW type, NEW reason, NEW on_fn_name,
         grug_tests_runtime_error_handler(type, reason, on_fn_name)
  PROVE  Goes \/ \E f \in HandlerFrame : Reports(f)
<1>1. UNCHANGED <<implementation, case, reenter_from_error_handler, saved_on_fn_name>>
  BY DEF grug_tests_runtime_error_handler, suite
<1>2. CASE stack' = Advanced /\ reenter_depth' = reenter_depth
  <2>1. Advances(stack')
    BY <1>2, StackFacts DEF TypeInv, Running
  <2> QED BY <1>1, <1>2, <2>1 DEF Goes, Plain
<1>3. CASE /\ reenter_depth = 0 /\ reenter_depth' = reenter_depth + 1
           /\ stack' = <<Frame("handler", NULL, <<Call("b", 0)>>, FALSE)>> \o Advanced
  <2> DEFINE code == <<Call("b", 0)>>
             f == Frame("handler", NULL, code, FALSE)
             S == [do : {"call"}, fn : Exports, arg : Nat]
             call == Call("b", 0)
  <2>1. call \in S
    BY DEF Call, Exports
  <2> HIDE DEF S, call
  <2>2. <<call>> \in Seq(S)
    BY <2>1
  <2>3. code \in Seq(S)
    BY <2>2 DEF call
  <2> HIDE DEF code
  <2>4. f \in HandlerFrame
    BY <2>3 DEF Frame, HandlerFrame, S
  <2>5. stack' = <<f>> \o Advanced
    BY <1>3 DEF code
  <2> HIDE DEF f
  <2>6. Pushes(stack', f)
    BY <2>4, <2>5, StackFacts DEF TypeInv, Running, Frames
  <2> QED BY <1>1, <1>3, <2>4, <2>6 DEF Reports
<1> QED BY <1>2, <1>3 DEF grug_tests_runtime_error_handler

LEMMA Kinds ==
  ASSUME TypeInv, Next
  PROVE  \/ Goes \/ Returns \/ Ends \/ Stands
         \/ \E f \in ScriptFrame : Enters(f)
         \/ \E f \in HandlerFrame : Reports(f)
         \/ \E f \in TestFrame : Begins(f)
<1>1. ASSUME Running
      PROVE  Advances(Advanced)
  BY <1>1, StackFacts DEF TypeInv, Running
<1>2. CASE ScriptReturns
  <2>1. Pops(stack')
    BY <1>2, StackFacts DEF TypeInv, ScriptReturns
  <2> QED BY <1>2, <2>1 DEF ScriptReturns, Returns, suite, reentrancy
<1>3. CASE PlainHostFn
  BY <1>1, <1>3 DEF PlainHostFn, InScript, Goes, Running, suite, reentrancy, grug
<1>4. CASE CallOnBFn
  <2>1. /\ Running /\ Top.kind = "script" /\ Instr.fn \in Nested
        /\ call_export_fn("b", Instr.arg)
        /\ UNCHANGED <<implementation, case, reentrancy>>
    BY <1>4 DEF CallOnBFn, InScript, Running, Nested, suite
  <2>2. Instr.arg \in Nat /\ "b" \in Exports /\ Instr.fn \notin Plain
    BY <2>1, InstrFacts DEF TypeInv, Running, Exports, Nested, Plain
  <2> QED BY <2>1, <2>2, CallEnters
<1>5. CASE CauseGameFnError
  <2>1. Running /\ Top.kind = "script" /\ Instr.fn \notin Plain
    BY <1>5 DEF CauseGameFnError, InScript, Running, Plain
  <2>2. \E type, reason, on_fn_name : grug_tests_runtime_error_handler(type, reason, on_fn_name)
    BY <1>5 DEF CauseGameFnError
  <2> QED BY <2>1, <2>2, HandlerFacts
<1>6. CASE ExceedLimit
  <2>1. Running /\ Top.kind = "script" /\ Instr.fn \notin Plain
    BY <1>6 DEF ExceedLimit, InScript, Running, Plain
  <2>2. \E type, reason, on_fn_name : grug_tests_runtime_error_handler(type, reason, on_fn_name)
    BY <1>6 DEF ExceedLimit
  <2> QED BY <2>1, <2>2, HandlerFacts
<1>7. CASE RestoreName
  BY <1>1, <1>7 DEF RestoreName, InScript, Goes, Running, suite, reentrancy
<1>8. CASE HandlerReenters
  <2>1. /\ Running /\ Top.kind = "handler" /\ call_export_fn(Instr.fn, Instr.arg)
        /\ UNCHANGED <<implementation, case, reentrancy>>
    BY <1>8 DEF HandlerReenters, Running, suite
  <2>2. Instr.fn \in Exports /\ Instr.arg \in Nat
    BY <2>1, InstrFacts DEF TypeInv, Running
  <2> QED BY <2>1, <2>2, CallEnters
<1>9. CASE HandlerReturns
  <2>1. Pops(stack')
    BY <1>9, StackFacts DEF TypeInv, HandlerReturns
  <2> QED BY <1>9, <2>1 DEF HandlerReturns, Returns, suite, grug
<1>10. CASE BeginTest
  <2>1. PICK c \in todo :
           /\ case' = c
           /\ stack' = <<Frame("test", NULL, <<CreateEntity, CheckCreated>> \o TestBody(c), FALSE)>>
    BY <1>10 DEF BeginTest
  <2> DEFINE code == <<CreateEntity, CheckCreated>> \o TestBody(c)
             f == Frame("test", NULL, code, FALSE)
  <2>2. c \in Cases
    BY DEF TypeInv, DataInv
  <2>3. code \in Seq(TestStep) /\ Paired(code)
    BY <2>2, ProgramFacts
  <2> HIDE DEF code
  <2>4. f \in TestFrame /\ f.code = code
    BY <2>3 DEF Frame, TestFrame
  <2>5. stack' = <<f>>
    BY <2>1 DEF code
  <2> HIDE DEF f
  <2>6. Begins(f)
    BY <1>10, <2>1, <2>2, <2>3, <2>4, <2>5 DEF Begins, BeginTest
  <2> QED BY <2>4, <2>6
<1>11. CASE TestCreatesEntity
  BY <1>11, CreateEnters DEF TestCreatesEntity, InTest, Running, suite
<1>12. CASE TestCalls
  <2>1. /\ Running /\ Top.kind = "test" /\ Instr.do = "call"
        /\ call_export_fn(Instr.fn, Instr.arg)
        /\ UNCHANGED <<implementation, case, reentrancy>>
    BY <1>12 DEF TestCalls, InTest, Running, suite
  <2>2. Instr.fn \in Exports /\ Instr.arg \in Nat
    BY <2>1, InstrFacts DEF TypeInv, Running
  <2> QED BY <2>1, <2>2, CallEnters
<1>13. CASE TestChecksCreated
  <2>1. /\ Running /\ Top.kind = "test" /\ Instr.do \in {"created", "second_created"}
        /\ UNCHANGED <<implementation, reentrancy, grug>>
        /\ (stack' = Advanced /\ case' = case) \/ stack' = <<>>
    BY <1>13 DEF TestChecksCreated, InTest, Running, EndTest, fail_current_test
  <2> QED BY <1>1, <2>1 DEF Goes, Ends, Running, reentrancy, grug
<1>14. CASE TestSetsReentry
  BY <1>1, <1>14 DEF TestSetsReentry, InTest, Goes, Running, suite, grug
<1>15. CASE TestClearsHadError
  BY <1>1, <1>15 DEF TestClearsHadError, InTest, Goes, Running, suite, reentrancy, grug
<1>16. CASE TestAsserts
  <2>1. /\ Running /\ Top.kind = "test"
        /\ Instr.do \in {"expect", "expect_error", "expect_no_error"}
        /\ UNCHANGED <<implementation, reentrancy, grug>>
        /\ (stack' = Advanced /\ case' = case) \/ stack' = <<>>
    BY <1>16 DEF TestAsserts, InTest, Running, EndTest, fail_current_test
  <2> QED BY <1>1, <2>1 DEF Goes, Ends, Running, reentrancy, grug
<1>17. CASE TestReturns
  BY <1>17 DEF TestReturns, EndTest, Ends
<1>18. CASE Finished
  BY <1>18 DEF Finished, Stands, vars, reentrancy
<1> QED BY <1>2, <1>3, <1>4, <1>5, <1>6, <1>7, <1>8, <1>9, <1>10, <1>11, <1>12, <1>13,
           <1>14, <1>15, <1>16, <1>17, <1>18 DEF Next

LEMMA StepKinds ==
  ASSUME TypeInv, [Next]_vars
  PROVE  \/ Goes \/ Returns \/ Ends \/ Stands
         \/ \E f \in ScriptFrame : Enters(f)
         \/ \E f \in HandlerFrame : Reports(f)
         \/ \E f \in TestFrame : Begins(f)
<1>1. CASE UNCHANGED vars
  BY <1>1 DEF vars, Stands, reentrancy
<1> QED BY <1>1, Kinds

---------------------------------------------------------------------------
(* The stack keeps its shape. *)

LEMMA ShapeNext ==
  ASSUME TypeInv, [Next]_vars
  PROVE  ShapeInv'
<1> DEFINE n == Len(stack)
           new == stack'
           m == Len(new)
<1>1. /\ n \in Nat /\ (stack # <<>> => n > 0 /\ stack[n].kind = "test" /\ case \in Cases)
      /\ \A i \in 1..n : stack[i].kind = "test" => i = n
      /\ stack \in Seq(Frames)
  BY TopFacts DEF TypeInv, ShapeInv
<1>2. stack # <<>> => Top = stack[1]
  BY TopFacts DEF TypeInv
<1> HIDE DEF n, new, m
<1>3. SUFFICES /\ new \in Seq(Frames)
               /\ m # 0 => new[m].kind = "test" /\ case' \in Cases
               /\ \A i \in 1..m : new[i].kind = "test" => i = m
  <2>1. new \in Seq(Frames) => (m = 0 <=> new = <<>>)
    BY DEF m
  <2> QED BY <2>1 DEF ShapeInv, new, m
<1>4. CASE Goes
  <2>1. /\ new \in Seq(Frames) /\ m = n
        /\ \A k \in 1..n : new[k].kind = stack[k].kind
        /\ stack # <<>> /\ case' = case
    BY <1>4 DEF Goes, Running, Advances, n, new, m
  <2>2. n \in 1..n
    BY <1>1, <2>1
  <2> QED BY <1>1, <2>1, <2>2
<1>5. ASSUME NEW f \in Frames, f.kind # "test", Running, Pushes(stack', f), case' = case
      PROVE  /\ new \in Seq(Frames)
             /\ m # 0 => new[m].kind = "test" /\ case' \in Cases
             /\ \A i \in 1..m : new[i].kind = "test" => i = m
  <2>1. /\ new \in Seq(Frames) /\ m = n + 1 /\ new[1] = f
        /\ \A k \in 1..n : new[k + 1].kind = stack[k].kind
        /\ stack # <<>>
    BY <1>5 DEF Pushes, Running, n, new, m
  <2>2. n \in 1..n
    BY <1>1, <2>1
  <2>3. ASSUME NEW i \in 1..m, new[i].kind = "test"
        PROVE  i = m
    <3>1. i # 1
      BY <1>5, <2>1, <2>3
    <3>2. i - 1 \in 1..n /\ (i - 1) + 1 = i
      BY <1>1, <2>1, <3>1
    <3>3. stack[i - 1].kind = "test"
      BY <2>1, <2>3, <3>2
    <3>4. i - 1 = n
      BY <1>1, <3>2, <3>3
    <3> QED BY <1>1, <2>1, <3>4
  <2> QED BY <1>1, <1>5, <2>1, <2>2, <2>3
<1>6. CASE \E f \in ScriptFrame : Enters(f)
  <2>1. PICK f \in ScriptFrame : Enters(f)
    BY <1>6
  <2>2. f \in Frames /\ f.kind # "test"
    BY DEF Frames, ScriptFrame
  <2> QED BY <1>5, <2>1, <2>2 DEF Enters
<1>7. CASE \E f \in HandlerFrame : Reports(f)
  <2>1. PICK f \in HandlerFrame : Reports(f)
    BY <1>7
  <2>2. f \in Frames /\ f.kind # "test"
    BY DEF Frames, HandlerFrame
  <2> QED BY <1>5, <2>1, <2>2 DEF Reports
<1>8. CASE Returns
  <2>1. /\ new \in Seq(Frames) /\ m = n - 1
        /\ \A k \in 1..(n - 1) : new[k] = stack[k + 1]
        /\ stack # <<>> /\ case' = case /\ stack[1].kind # "test"
    BY <1>2, <1>8 DEF Returns, Pops, n, new, m
  <2>2. n # 1
    BY <1>1, <2>1
  <2>3. m \in 1..(n - 1) /\ m + 1 = n
    BY <1>1, <2>1, <2>2
  <2>4. new[m].kind = "test"
    BY <1>1, <2>1, <2>3
  <2>5. ASSUME NEW i \in 1..m, new[i].kind = "test"
        PROVE  i = m
    <3>1. i + 1 \in 1..n /\ i \in 1..(n - 1)
      BY <1>1, <2>1
    <3>2. i + 1 = n
      BY <1>1, <2>1, <2>5, <3>1
    <3> QED BY <1>1, <2>1, <3>2
  <2> QED BY <1>1, <2>1, <2>4, <2>5
<1>9. CASE Ends
  <2>1. new = <<>>
    BY <1>9 DEF Ends, new
  <2>2. new \in Seq(Frames) /\ m = 0
    BY <2>1 DEF m
  <2>3. 1..m = {}
    BY <2>2
  <2> QED BY <2>2, <2>3
<1>10. CASE \E f \in TestFrame : Begins(f)
  <2>1. PICK f \in TestFrame : Begins(f)
    BY <1>10
  <2>2. f \in Frames /\ f.kind = "test" /\ new = <<f>> /\ case' \in Cases
    BY <2>1 DEF Frames, TestFrame, Begins, new
  <2>3. new \in Seq(Frames) /\ m = 1 /\ new[1] = f
    BY <2>2 DEF m
  <2> QED BY <2>2, <2>3
<1>11. CASE Stands
  BY <1>1, <1>11 DEF Stands, n, new, m
<1> QED BY <1>4, <1>6, <1>7, <1>8, <1>9, <1>10, <1>11, StepKinds

---------------------------------------------------------------------------
(* The handler is inside at most one call of grug. *)

LEMMA DepthNext ==
  ASSUME TypeInv, DepthInv, [Next]_vars
  PROVE  DepthInv'
<1> DEFINE n == Len(stack)
           new == stack'
           m == Len(new)
<1>1. /\ n \in Nat /\ (stack # <<>> => n > 0)
      /\ \A i \in 1..n : stack[i].kind = "test" => i = n
  BY TopFacts DEF TypeInv, ShapeInv
<1>2. stack # <<>> => Top = stack[1]
  BY TopFacts DEF TypeInv
<1>3. \/ reenter_depth = 0 /\ \A i \in 1..n : stack[i].kind # "handler"
      \/ reenter_depth = 1 /\ \E i \in 1..n : \A k \in 1..n : stack[k].kind = "handler" <=> k = i
  BY DEF DepthInv
<1> HIDE DEF n, new, m
<1>4. SUFFICES \/ reenter_depth' = 0 /\ \A i \in 1..m : new[i].kind # "handler"
               \/ /\ reenter_depth' = 1
                  /\ \E i \in 1..m : \A k \in 1..m : new[k].kind = "handler" <=> k = i
  BY DEF DepthInv, new, m
<1>5. CASE Goes
  <2>1. /\ m = n /\ \A k \in 1..n : new[k].kind = stack[k].kind
        /\ reenter_depth' = reenter_depth
    BY <1>5 DEF Goes, Advances, n, new, m
  <2> QED BY <1>3, <2>1
<1>6. CASE \E f \in ScriptFrame : Enters(f)
  <2>1. PICK f \in ScriptFrame : Enters(f)
    BY <1>6
  <2>2. /\ m = n + 1 /\ new[1].kind # "handler" /\ reenter_depth' = reenter_depth
        /\ \A k \in 1..n : new[k + 1].kind = stack[k].kind
    BY <2>1 DEF Enters, Pushes, ScriptFrame, reentrancy, n, new, m
  <2>3. ASSUME NEW k \in 1..m, k # 1
        PROVE  k - 1 \in 1..n /\ new[k].kind = stack[k - 1].kind
    <3>1. k - 1 \in 1..n /\ (k - 1) + 1 = k
      BY <1>1, <2>2, <2>3
    <3> QED BY <2>2, <3>1
  <2>4. CASE reenter_depth = 0 /\ \A i \in 1..n : stack[i].kind # "handler"
    BY <2>2, <2>3, <2>4
  <2>5. ASSUME reenter_depth = 1, NEW i \in 1..n,
               \A k \in 1..n : stack[k].kind = "handler" <=> k = i
        PROVE  \E j \in 1..m : \A k \in 1..m : new[k].kind = "handler" <=> k = j
    <3>1. i + 1 \in 1..m /\ i + 1 # 1
      BY <1>1, <2>2
    <3>2. ASSUME NEW k \in 1..m
          PROVE  new[k].kind = "handler" <=> k = i + 1
      <4>1. CASE k = 1
        BY <2>2, <3>1, <4>1
      <4>2. CASE k # 1
        <5>1. k - 1 = i <=> k = i + 1
          BY <1>1
        <5> QED BY <2>3, <2>5, <4>2, <5>1
      <4> QED BY <4>1, <4>2
    <3> QED BY <3>1, <3>2
  <2> QED BY <1>3, <2>2, <2>4, <2>5
<1>7. CASE \E f \in HandlerFrame : Reports(f)
  <2>1. PICK f \in HandlerFrame : Reports(f)
    BY <1>7
  <2>2. /\ m = n + 1 /\ new[1].kind = "handler" /\ reenter_depth = 0 /\ reenter_depth' = 1
        /\ \A k \in 1..n : new[k + 1].kind = stack[k].kind
    BY <2>1 DEF Reports, Pushes, HandlerFrame, n, new, m
  <2>3. 1 \in 1..m
    BY <1>1, <2>2
  <2>4. ASSUME NEW k \in 1..m
        PROVE  new[k].kind = "handler" <=> k = 1
    <3>1. CASE k # 1
      <4>1. k - 1 \in 1..n /\ (k - 1) + 1 = k
        BY <1>1, <2>2, <3>1
      <4>2. new[k].kind = stack[k - 1].kind
        BY <2>2, <4>1
      <4> QED BY <1>3, <2>2, <3>1, <4>1, <4>2
    <3> QED BY <2>2, <3>1
  <2> QED BY <2>2, <2>3, <2>4
<1>8. CASE Returns
  <2>1. /\ m = n - 1 /\ \A k \in 1..(n - 1) : new[k] = stack[k + 1]
        /\ stack # <<>>
        /\ \/ stack[1].kind = "script" /\ reenter_depth' = reenter_depth
           \/ stack[1].kind = "handler" /\ reenter_depth' = reenter_depth - 1
    BY <1>2, <1>8 DEF Returns, Pops, n, new, m
  <2>2. 1 \in 1..n /\ \A k \in 1..m : k + 1 \in 1..n /\ k + 1 # 1 /\ new[k].kind = stack[k + 1].kind
    BY <1>1, <2>1
  <2>3. CASE stack[1].kind = "handler"
    <3>1. reenter_depth = 1 /\ \A k \in 1..n : stack[k].kind = "handler" => k = 1
      BY <1>3, <2>2, <2>3
    <3>2. reenter_depth' = 0
      BY <2>1, <2>3, <3>1
    <3> QED BY <2>2, <3>1, <3>2
  <2>4. CASE stack[1].kind = "script"
    <3>1. reenter_depth' = reenter_depth
      BY <2>1, <2>4
    <3>2. CASE reenter_depth = 0 /\ \A i \in 1..n : stack[i].kind # "handler"
      BY <2>2, <3>1, <3>2
    <3>3. ASSUME reenter_depth = 1, NEW i \in 1..n,
                 \A k \in 1..n : stack[k].kind = "handler" <=> k = i
          PROVE  \E j \in 1..m : \A k \in 1..m : new[k].kind = "handler" <=> k = j
      <4>1. i # 1
        BY <2>2, <2>4, <3>3
      <4>2. i - 1 \in 1..m
        BY <1>1, <2>1, <4>1
      <4>3. ASSUME NEW k \in 1..m
            PROVE  new[k].kind = "handler" <=> k = i - 1
        <5>1. k + 1 = i <=> k = i - 1
          BY <1>1
        <5> QED BY <2>2, <3>3, <5>1
      <4> QED BY <4>2, <4>3
    <3> QED BY <1>3, <3>1, <3>2, <3>3
  <2> QED BY <2>1, <2>3, <2>4
<1>9. CASE Ends
  <2>1. new = <<>> /\ reenter_depth' = reenter_depth /\ stack # <<>> /\ stack[1].kind = "test"
    BY <1>2, <1>9 DEF Ends, reentrancy, new
  <2>2. 1 \in 1..n
    BY <1>1, <2>1
  <2>3. n = 1
    BY <1>1, <2>1, <2>2
  <2>4. \A i \in 1..n : stack[i].kind # "handler"
    BY <2>1, <2>3
  <2>5. reenter_depth = 0
    BY <1>3, <2>4
  <2>6. m = 0
    BY <2>1 DEF m
  <2> QED BY <2>1, <2>5, <2>6
<1>10. CASE \E f \in TestFrame : Begins(f)
  <2>1. PICK f \in TestFrame : Begins(f)
    BY <1>10
  <2>2. /\ stack = <<>> /\ new = <<f>> /\ f.kind = "test" /\ reenter_depth' = reenter_depth
    BY <2>1 DEF TestFrame, Begins, reentrancy, new
  <2>3. n = 0
    BY <2>2 DEF n
  <2>4. reenter_depth = 0
    BY <1>3, <2>3
  <2>5. m = 1 /\ new[1] = f
    BY <2>2 DEF m
  <2> QED BY <2>2, <2>4, <2>5
<1>11. CASE Stands
  BY <1>3, <1>11 DEF Stands, reentrancy, n, new, m
<1> QED BY <1>5, <1>6, <1>7, <1>8, <1>9, <1>10, <1>11, StepKinds

---------------------------------------------------------------------------
(* The option to reenter is off when no test runs. *)

LEMMA SwitchNext ==
  ASSUME TypeInv, SwitchInv, [Next]_vars
  PROVE  SwitchInv'
<1> DEFINE n == Len(stack)
           new == stack'
           m == Len(new)
           code == stack[1].code
<1>1. /\ n \in Nat /\ (stack # <<>> => n > 0)
      /\ \A i \in 1..n : stack[i].kind = "test" => i = n
      /\ stack # <<>> => stack[n].kind = "test"
  BY TopFacts DEF TypeInv, ShapeInv
<1>2. stack # <<>> => Top = stack[1]
  BY TopFacts DEF TypeInv
<1>3. /\ stack # <<>> => Paired(stack[n].code)
      /\ reenter_from_error_handler => stack # <<>> /\ WillSwitchOff(stack[n].code)
  BY DEF SwitchInv
<1>4. new \in Seq(Frames) /\ (m = 0 <=> new = <<>>)
  <2>1. ShapeInv'
    BY ShapeNext
  <2> QED BY <2>1 DEF ShapeInv
<1> HIDE DEF n, new, m
<1>5. SUFFICES /\ new # <<>> => Paired(new[m].code)
               /\ reenter_from_error_handler' => new # <<>> /\ WillSwitchOff(new[m].code)
  BY DEF SwitchInv, new, m
\* The frame of the test is not touched.
<1>6. ASSUME new # <<>>, new[m] = stack[n], stack # <<>>,
             reenter_from_error_handler' = reenter_from_error_handler
      PROVE  /\ new # <<>> => Paired(new[m].code)
             /\ reenter_from_error_handler' => new # <<>> /\ WillSwitchOff(new[m].code)
  BY <1>3, <1>6
\* The test goes past its next instruction.
<1>7. ASSUME Running, Top.kind = "test"
      PROVE  /\ n = 1 /\ code \in Seq(TestStep) /\ code # <<>> /\ Instr = code[1]
             /\ Paired(code) /\ Paired(Tail(code))
             /\ reenter_from_error_handler =>
                  /\ Instr.do # "reenter" => Instr.do = "call" /\ WillSwitchOff(Tail(code))
                  /\ Instr.do = "reenter" => ~Instr.on
             /\ Instr.do = "reenter" /\ Instr.on => WillSwitchOff(Tail(code))
  <2>1. n = 1
    <3>1. 1 \in 1..n /\ stack[1].kind = "test"
      BY <1>1, <1>2, <1>7 DEF Running
    <3> QED BY <1>1, <3>1
  <2>2. code \in Seq(TestStep) /\ code # <<>> /\ Instr = code[1]
    BY <1>2, <1>7, TopFacts, InstrFacts DEF TypeInv, Running, TestFrame
  <2>3. Paired(code) /\ Paired(Tail(code))
    BY <1>3, <1>7, <2>1, <2>2, PairedFacts DEF Running
  <2> HIDE DEF code
  <2> DEFINE c == Len(code)
             t == Tail(code)
             d == Len(t)
  <2>4. c \in Nat /\ c > 0 /\ d = c - 1 /\ \A k \in 1..d : t[k] = code[k + 1]
    BY <2>2, TailFacts
  <2>5. Instr.do = "reenter" /\ Instr.on =>
            c >= 3 /\ code[2].do = "call" /\ SwitchesOff(code[3])
    <3>1. 1 \in 1..c /\ 1 + 1 = 2 /\ 1 + 2 = 3
      BY <2>4
    <3>2. SwitchesOn(code[1]) => 1 + 2 <= c /\ code[1 + 1].do = "call" /\ SwitchesOff(code[1 + 2])
      BY <2>3, <3>1 DEF Paired
    <3> QED BY <2>2, <2>4, <3>1, <3>2 DEF SwitchesOn
  <2>6. reenter_from_error_handler =>
            \/ SwitchesOff(code[1])
            \/ c >= 2 /\ code[1].do = "call" /\ SwitchesOff(code[2])
    BY <1>3, <2>1 DEF WillSwitchOff, code
  <2> HIDE DEF t, c, d
  <2>7. c >= 2 => 1 \in 1..d /\ t[1] = code[2] /\ d >= 1
    <3> SUFFICES ASSUME c >= 2
                 PROVE  1 \in 1..d /\ t[1] = code[2] /\ d >= 1
      OBVIOUS
    <3>1. 1 \in 1..d /\ 1 + 1 = 2 /\ d >= 1
      BY <2>4
    <3> QED BY <2>4, <3>1
  <2>8. c >= 3 => 2 \in 1..d /\ t[2] = code[3] /\ d >= 2
    <3> SUFFICES ASSUME c >= 3
                 PROVE  2 \in 1..d /\ t[2] = code[3] /\ d >= 2
      OBVIOUS
    <3>1. 2 \in 1..d /\ 2 + 1 = 3 /\ d >= 2
      BY <2>4
    <3> QED BY <2>4, <3>1
  <2>9. Instr.do = "reenter" /\ Instr.on => WillSwitchOff(t)
    BY <2>4, <2>5, <2>7, <2>8 DEF WillSwitchOff, d
  <2>10. reenter_from_error_handler =>
            /\ Instr.do # "reenter" => Instr.do = "call" /\ WillSwitchOff(t)
            /\ Instr.do = "reenter" => ~Instr.on
    BY <2>2, <2>6, <2>7 DEF WillSwitchOff, SwitchesOff, d
  <2> QED BY <2>1, <2>2, <2>3, <2>9, <2>10 DEF t, code
<1>8. ASSUME Running, Top.kind # "test"
      PROVE  n \in 2..n
  <2>1. n # 1
    BY <1>1, <1>2, <1>8 DEF Running
  <2> QED BY <1>1, <1>8, <2>1 DEF Running
<1>9. CASE Goes
  <2>1. /\ Running /\ m = n /\ new[1].code = Tail(code)
        /\ \A k \in 2..n : new[k] = stack[k]
    BY <1>9 DEF Goes, Advances, n, new, m
  <2>2. new # <<>> /\ stack # <<>>
    BY <1>1, <1>4, <2>1 DEF Running
  <2>3. CASE Top.kind = "test"
    <3>1. n = 1 /\ Instr.do \notin {"call", "create"}
      BY <1>7, <1>9, <2>1, <2>3 DEF Goes
    <3>2. reenter_from_error_handler' =
             IF Instr.do = "reenter" THEN Instr.on ELSE reenter_from_error_handler
      BY <1>9, <2>3 DEF Goes
    <3>3. Paired(new[m].code)
      BY <1>7, <2>1, <2>3, <3>1
    <3>4. reenter_from_error_handler' => WillSwitchOff(new[m].code)
      BY <1>7, <2>1, <2>3, <3>1, <3>2
    <3> QED BY <2>2, <3>3, <3>4
  <2>4. CASE Top.kind # "test"
    <3>1. new[m] = stack[n]
      BY <1>8, <2>1, <2>4
    <3>2. reenter_from_error_handler' = reenter_from_error_handler
      BY <1>9, <2>4 DEF Goes
    <3> QED BY <1>6, <2>2, <3>1, <3>2
  <2> QED BY <2>3, <2>4
<1>10. ASSUME NEW f, Running, Pushes(stack', f),
              Top.kind = "test" => Instr.do \in {"call", "create"},
              reenter_from_error_handler' = reenter_from_error_handler
       PROVE  /\ new # <<>> => Paired(new[m].code)
              /\ reenter_from_error_handler' => new # <<>> /\ WillSwitchOff(new[m].code)
  <2>1. /\ m = n + 1 /\ new[2].code = Tail(code)
        /\ \A k \in 2..n : new[k + 1] = stack[k]
    BY <1>10 DEF Pushes, n, new, m
  <2>2. new # <<>> /\ stack # <<>>
    BY <1>1, <1>4, <1>10, <2>1 DEF Running
  <2>3. CASE Top.kind = "test"
    <3>1. n = 1 /\ m = 2 /\ Instr.do # "reenter"
      BY <1>7, <1>10, <2>1, <2>3
    <3>2. Paired(new[m].code)
      BY <1>7, <1>10, <2>1, <2>3, <3>1
    <3>3. reenter_from_error_handler' => WillSwitchOff(new[m].code)
      BY <1>7, <1>10, <2>1, <2>3, <3>1
    <3> QED BY <2>2, <3>2, <3>3
  <2>4. CASE Top.kind # "test"
    <3>1. new[m] = stack[n]
      BY <1>8, <1>10, <2>1, <2>4
    <3> QED BY <1>6, <1>10, <2>2, <3>1
  <2> QED BY <2>3, <2>4
<1>11. CASE \E f \in ScriptFrame : Enters(f)
  BY <1>10, <1>11 DEF Enters, reentrancy
<1>12. CASE \E f \in HandlerFrame : Reports(f)
  BY <1>10, <1>12 DEF Reports
<1>13. CASE Returns
  <2>1. /\ stack # <<>> /\ Top.kind # "test" /\ m = n - 1
        /\ \A k \in 1..(n - 1) : new[k] = stack[k + 1]
        /\ reenter_from_error_handler' = reenter_from_error_handler
    BY <1>13 DEF Returns, Pops, n, new, m
  <2>2. n # 1
    BY <1>1, <1>2, <2>1
  <2>3. m \in 1..(n - 1) /\ m + 1 = n
    BY <1>1, <2>1, <2>2
  <2>4. new[m] = stack[n] /\ new # <<>>
    BY <1>4, <2>1, <2>3
  <2> QED BY <1>6, <2>1, <2>4
<1>14. CASE Ends
  <2>1. /\ stack # <<>> /\ Top.kind = "test" /\ new = <<>>
        /\ Top.code # <<>> => Instr.do \notin {"call", "create", "reenter"}
        /\ reenter_from_error_handler' = reenter_from_error_handler
    BY <1>14 DEF Ends, reentrancy, new
  <2>2. CASE Top.code = <<>>
    <3>1. 1 \in 1..n
      BY <1>1, <2>1
    <3>2. n = 1
      BY <1>1, <1>2, <2>1, <3>1
    <3>3. ~WillSwitchOff(stack[n].code)
      BY <1>2, <2>1, <2>2, <3>2 DEF WillSwitchOff
    <3> QED BY <1>3, <2>1, <3>3
  <2>3. CASE Top.code # <<>>
    BY <1>7, <2>1, <2>3 DEF Running
  <2> QED BY <2>2, <2>3
<1>15. CASE \E f \in TestFrame : Begins(f)
  <2>1. PICK f \in TestFrame : Begins(f)
    BY <1>15
  <2>2. /\ stack = <<>> /\ new = <<f>> /\ Paired(f.code)
        /\ reenter_from_error_handler' = reenter_from_error_handler
    BY <2>1 DEF Begins, reentrancy, new
  <2>3. m = 1 /\ new[1] = f
    BY <2>2 DEF m
  <2> QED BY <1>3, <2>2, <2>3
<1>16. CASE Stands
  BY <1>3, <1>16 DEF Stands, reentrancy, n, new, m
<1> QED BY <1>9, <1>11, <1>12, <1>13, <1>14, <1>15, <1>16, StepKinds

---------------------------------------------------------------------------
(* The mock knows which function runs. *)

LEMMA CarefulTail ==
  ASSUME NEW p \in Seq(ScriptStep), p # <<>>
  PROVE  /\ Careful(p) => Careful(Tail(p))
         /\ Careful(p) /\ p[1].fn \notin Plain => RestoresFirst(Tail(p))
         /\ RestoresFirst(p) =>
              /\ p[1].fn \notin Causes
              /\ p[1].fn # "restore_name" => RestoresFirst(Tail(p))
<1> DEFINE t == Tail(p)
           n == Len(p)
           m == Len(t)
<1>1. n \in Nat /\ n > 0 /\ m = n - 1 /\ \A k \in 1..m : t[k] = p[k + 1]
  BY TailFacts
<1> HIDE DEF t, n, m
<1>2. \A k \in 1..m : k + 1 \in 1..n /\ t[k] = p[k + 1]
  BY <1>1
\* A step of p between two others is one of t, one place earlier.
<1>3. ASSUME NEW i \in 1..n, NEW k \in 1..m,
             \E j \in (i + 1)..((k + 1) - 1) : p[j].fn = "restore_name"
      PROVE  \E j \in i..(k - 1) : t[j].fn = "restore_name"
  <2>1. PICK j \in (i + 1)..((k + 1) - 1) : p[j].fn = "restore_name"
    BY <1>3
  <2>2. j - 1 \in i..(k - 1) /\ j - 1 \in 1..m /\ (j - 1) + 1 = j
    BY <1>1
  <2> QED BY <1>2, <2>1, <2>2
<1>4. ASSUME Careful(p)
      PROVE  Careful(t)
  <2>1. \A i, k \in 1..n :
            i < k /\ p[i].fn \notin Plain /\ p[k].fn \in Causes =>
                \E j \in (i + 1)..(k - 1) : p[j].fn = "restore_name"
    BY <1>4 DEF Careful, n
  <2>2. ASSUME NEW i \in 1..m, NEW k \in 1..m, i < k,
               t[i].fn \notin Plain, t[k].fn \in Causes
        PROVE  \E j \in (i + 1)..(k - 1) : t[j].fn = "restore_name"
    <3>1. /\ i + 1 \in 1..n /\ k + 1 \in 1..n /\ i + 1 < k + 1
          /\ p[i + 1].fn \notin Plain /\ p[k + 1].fn \in Causes
      BY <1>2, <2>2
    <3>2. \E j \in ((i + 1) + 1)..((k + 1) - 1) : p[j].fn = "restore_name"
      BY <2>1, <3>1
    <3> QED BY <1>3, <3>1, <3>2
  <2> QED BY <2>2 DEF Careful, m
<1>5. ASSUME Careful(p), p[1].fn \notin Plain
      PROVE  RestoresFirst(t)
  <2>1. \A i, k \in 1..n :
            i < k /\ p[i].fn \notin Plain /\ p[k].fn \in Causes =>
                \E j \in (i + 1)..(k - 1) : p[j].fn = "restore_name"
    BY <1>5 DEF Careful, n
  <2>2. ASSUME NEW k \in 1..m, t[k].fn \in Causes
        PROVE  \E j \in 1..(k - 1) : t[j].fn = "restore_name"
    <3>1. 1 \in 1..n /\ k + 1 \in 1..n /\ 1 < k + 1 /\ p[k + 1].fn \in Causes
      BY <1>1, <1>2, <2>2
    <3>2. \E j \in (1 + 1)..((k + 1) - 1) : p[j].fn = "restore_name"
      BY <1>5, <2>1, <3>1
    <3> QED BY <1>3, <3>1, <3>2
  <2> QED BY <2>2 DEF RestoresFirst, m
<1>6. ASSUME RestoresFirst(p)
      PROVE  /\ p[1].fn \notin Causes
             /\ p[1].fn # "restore_name" => RestoresFirst(t)
  <2>1. \A k \in 1..n : p[k].fn \in Causes => \E j \in 1..(k - 1) : p[j].fn = "restore_name"
    BY <1>6 DEF RestoresFirst, n
  <2>2. p[1].fn \notin Causes
    <3>1. 1 \in 1..n /\ 1..(1 - 1) = {}
      BY <1>1
    <3> QED BY <2>1, <3>1
  <2>3. ASSUME p[1].fn # "restore_name", NEW k \in 1..m, t[k].fn \in Causes
        PROVE  \E j \in 1..(k - 1) : t[j].fn = "restore_name"
    <3>1. k + 1 \in 1..n /\ p[k + 1].fn \in Causes
      BY <1>2, <2>3
    <3>2. PICK j \in 1..((k + 1) - 1) : p[j].fn = "restore_name"
      BY <2>1, <3>1
    <3>3. j # 1
      BY <2>3, <3>2
    <3>4. j \in (1 + 1)..((k + 1) - 1) /\ 1 \in 1..n
      BY <1>1, <3>3
    <3> QED BY <1>3, <3>2, <3>4
  <2> QED BY <2>2, <2>3 DEF RestoresFirst, m
<1> QED BY <1>4, <1>5, <1>6 DEF t

\* What NameInv says of a frame.
Named(f, top) ==
    f.kind = "script" /\ f.fn # "globals" =>
        Careful(f.code) /\ (RestoresFirst(f.code) \/ (top /\ saved_on_fn_name = f.fn))

LEMMA NameNext ==
  ASSUME TypeInv, NameInv, [Next]_vars
  PROVE  NameInv'
<1> DEFINE n == Len(stack)
           new == stack'
           m == Len(new)
           code == stack[1].code
           Good(f) == f.kind = "script" /\ f.fn # "globals" => Careful(f.code) /\ RestoresFirst(f.code)
<1>1. SUFFICES ASSUME implementation = "mock"
               PROVE  NameInv'
  <2>1. implementation' = implementation
    BY StepKinds DEF Goes, Returns, Ends, Stands, Enters, Reports, Begins
  <2> QED BY <2>1 DEF NameInv
<1>2. n \in Nat /\ (stack # <<>> => n > 0) /\ (stack # <<>> => Top = stack[1])
  BY TopFacts DEF TypeInv, ShapeInv
<1>3. /\ n > 0 => Named(stack[1], TRUE)
      /\ \A k \in 2..n : Good(stack[k])
  <2>1. \A i \in 1..n : stack[i].kind = "script" /\ stack[i].fn # "globals" =>
                /\ Careful(stack[i].code)
                /\ RestoresFirst(stack[i].code) \/ (i = 1 /\ saved_on_fn_name = stack[i].fn)
    BY <1>1 DEF NameInv
  <2>2. n > 0 => 1 \in 1..n
    BY <1>2
  <2>3. \A k \in 2..n : k \in 1..n /\ k # 1
    BY <1>2
  <2> QED BY <2>1, <2>2, <2>3 DEF Named
<1> HIDE DEF n, new, m
<1>4. SUFFICES /\ m > 0 /\ new[1].kind = "script" /\ new[1].fn # "globals" =>
                    /\ Careful(new[1].code)
                    /\ RestoresFirst(new[1].code) \/ saved_on_fn_name' = new[1].fn
               /\ \A k \in 2..m : Good(new[k])
  <2>1. m \in Nat
    <3>1. ShapeInv'
      BY ShapeNext
    <3> QED BY <3>1 DEF ShapeInv, new, m
  <2>2. \A i \in 1..m : i = 1 \/ i \in 2..m
    BY <2>1
  <2> QED BY <2>1, <2>2 DEF NameInv, new, m
<1> HIDE DEF Good
\* The innermost frame when it has gone past an instruction.
<1>5. ASSUME Running, NEW f, f.kind = Top.kind, f.fn = Top.fn, f.code = Tail(code)
      PROVE  /\ f.kind = "script" /\ f.fn # "globals" =>
                  /\ Careful(f.code)
                  /\ Instr.fn # "restore_name" /\ saved_on_fn_name' = saved_on_fn_name
                       => RestoresFirst(f.code) \/ saved_on_fn_name' = f.fn
             /\ (Top.kind = "script" => Instr.fn \notin Plain) => Good(f)
  <2>1. SUFFICES ASSUME Top.kind = "script", Top.fn # "globals"
                 PROVE  /\ Careful(f.code)
                        /\ Instr.fn # "restore_name" /\ saved_on_fn_name' = saved_on_fn_name
                             => RestoresFirst(f.code) \/ saved_on_fn_name' = f.fn
                        /\ Instr.fn \notin Plain => RestoresFirst(f.code)
    BY <1>5 DEF Good
  <2>2. code \in Seq(ScriptStep) /\ code # <<>> /\ Instr = code[1]
    BY <1>2, <1>5, <2>1, TopFacts, InstrFacts DEF TypeInv, Running, ScriptFrame
  <2>3. Careful(code) /\ (RestoresFirst(code) \/ saved_on_fn_name = Top.fn)
    BY <1>2, <1>3, <1>5, <2>1 DEF Named, Running
  <2> HIDE DEF code
  <2> QED BY <1>5, <2>2, <2>3, CarefulTail
<1>6. CASE Goes
  <2>1. /\ Running /\ m = n /\ new[1].kind = stack[1].kind /\ new[1].fn = stack[1].fn
        /\ new[1].code = Tail(code)
        /\ \A k \in 2..n : new[k] = stack[k]
        /\ saved_on_fn_name' = IF Top.kind = "script" /\ Instr.fn = "restore_name"
                               THEN Top.fn ELSE saved_on_fn_name
    <3>1. Running /\ 1 \in 1..n
      BY <1>2, <1>6 DEF Goes, Running
    <3> QED BY <1>6, <3>1 DEF Goes, Advances, n, new, m
  <2>2. Top = stack[1]
    BY <1>2, <2>1 DEF Running
  <2>3. new[1].kind = Top.kind /\ new[1].fn = Top.fn
    BY <2>1, <2>2
  <2>4. new[1].kind = "script" /\ new[1].fn # "globals" =>
            /\ Careful(new[1].code)
            /\ RestoresFirst(new[1].code) \/ saved_on_fn_name' = new[1].fn
    BY <1>5, <2>1, <2>3
  <2> QED BY <1>3, <2>1, <2>4
<1>7. ASSUME NEW f, Running, Pushes(stack', f), Top.kind = "script" => Instr.fn \notin Plain,
             f.kind = "script" /\ f.fn # "globals" => Careful(f.code) /\ saved_on_fn_name' = f.fn
      PROVE  /\ m > 0 /\ new[1].kind = "script" /\ new[1].fn # "globals" =>
                    /\ Careful(new[1].code)
                    /\ RestoresFirst(new[1].code) \/ saved_on_fn_name' = new[1].fn
             /\ \A k \in 2..m : Good(new[k])
  <2>1. /\ m = n + 1 /\ new[1] = f
        /\ new[2].kind = stack[1].kind /\ new[2].fn = stack[1].fn /\ new[2].code = Tail(code)
        /\ \A k \in 2..n : new[k + 1] = stack[k]
    <3>1. 1 \in 1..n /\ 1 + 1 = 2
      BY <1>2, <1>7 DEF Running
    <3> QED BY <1>7, <3>1 DEF Pushes, n, new, m
  <2>2. Top = stack[1]
    BY <1>2, <1>7 DEF Running
  <2>3. new[2].kind = Top.kind /\ new[2].fn = Top.fn
    BY <2>1, <2>2
  <2>4. Good(new[2])
    BY <1>5, <1>7, <2>1, <2>3
  <2>5. ASSUME NEW k \in 2..m
        PROVE  Good(new[k])
    <3>1. CASE k = 2
      BY <2>4, <3>1
    <3>2. CASE k # 2
      <4>1. k - 1 \in 2..n /\ (k - 1) + 1 = k
        BY <1>2, <2>1, <3>2
      <4> QED BY <1>3, <2>1, <4>1
    <3> QED BY <3>1, <3>2
  <2> QED BY <1>7, <2>1, <2>5
<1>8. CASE \E f \in ScriptFrame : Enters(f)
  <2>1. PICK f \in ScriptFrame : Enters(f)
    BY <1>8
  <2>2. /\ Running /\ Pushes(stack', f) /\ (Top.kind = "script" => Instr.fn \notin Plain)
        /\ f.fn # "globals" => Careful(f.code) /\ saved_on_fn_name' = f.fn
    BY <1>1, <2>1 DEF Enters
  <2> QED BY <1>7, <2>2
<1>9. CASE \E f \in HandlerFrame : Reports(f)
  <2>1. PICK f \in HandlerFrame : Reports(f)
    BY <1>9
  <2>2. Running /\ Pushes(stack', f) /\ Instr.fn \notin Plain /\ f.kind # "script"
    BY <2>1 DEF Reports, HandlerFrame
  <2> QED BY <1>7, <2>2
<1>10. CASE Returns
  <2>1. /\ stack # <<>> /\ m = n - 1 /\ \A k \in 1..(n - 1) : new[k] = stack[k + 1]
    BY <1>10 DEF Returns, Pops, n, new, m
  <2>2. \A k \in 1..m : k + 1 \in 2..n /\ new[k] = stack[k + 1]
    BY <1>2, <2>1
  <2>3. \A k \in 1..m : Good(new[k])
    BY <1>3, <2>2
  <2>4. /\ m > 0 => 1 \in 1..m
        /\ \A k \in 2..m : k \in 1..m
    BY <1>2, <2>1
  <2> QED BY <2>3, <2>4 DEF Good
<1>11. CASE Ends
  <2>1. m = 0
    BY <1>11 DEF Ends, new, m
  <2>2. 2..m = {}
    BY <2>1
  <2> QED BY <2>1, <2>2
<1>12. CASE \E f \in TestFrame : Begins(f)
  <2>1. PICK f \in TestFrame : Begins(f)
    BY <1>12
  <2>2. new = <<f>> /\ f.kind # "script"
    BY <2>1 DEF Begins, TestFrame, new
  <2>3. m = 1 /\ new[1] = f
    BY <2>2 DEF m
  <2>4. 2..m = {}
    BY <2>3
  <2> QED BY <2>2, <2>3, <2>4
<1>13. CASE Stands
  <2>1. new = stack /\ m = n /\ saved_on_fn_name' = saved_on_fn_name
    BY <1>13 DEF Stands, n, new, m
  <2> QED BY <1>3, <2>1 DEF Named
<1> QED BY <1>6, <1>8, <1>9, <1>10, <1>11, <1>12, <1>13, StepKinds

---------------------------------------------------------------------------
(* The rest of the state. *)

LEMMA CountFacts ==
  ASSUME call_count \in [Counters -> Nat], NEW fns, Count(fns)
  PROVE  /\ call_count' \in [Counters -> Nat]
         /\ "error_handler" \notin fns => ~HandlerCalled
<1>1. call_count' \in [Counters -> Nat]
  BY DEF Count
<1>2. "error_handler" \notin fns => call_count'["error_handler"] = call_count["error_handler"]
  BY DEF Count, Counters
<1>3. call_count["error_handler"] \in Nat
  BY DEF Counters
<1> QED BY <1>1, <1>2, <1>3 DEF HandlerCalled

LEMMA ReportedFacts ==
  ASSUME DataInv, case \in Cases, NEW type \in ErrorTypes, NEW reason \in Reasons,
         NEW on_fn_name \in AnyName,
         grug_tests_runtime_error_handler(type, reason, on_fn_name)
  PROVE  /\ UNCHANGED <<implementation, todo, case, rejected, reenter_from_error_handler,
                        saved_on_fn_name, saved_grug_file_path, msg>>
         /\ had_runtime_error' \in BOOLEAN /\ pending' \in BOOLEAN
         /\ runtime_error' \in [type : ErrorTypes, reason : Reasons, name : AnyName,
                                path : Cases \cup {NULL}]
         /\ runtime_error'.name = on_fn_name
BY DEF grug_tests_runtime_error_handler, DataInv, IsMock, suite

LEMMA EnteredFacts ==
  ASSUME DataInv, case \in Cases, UNCHANGED <<suite, report, reentrancy>>,
         call_count' \in [Counters -> Nat],
         create_entity \/ \E fn \in Exports, x \in Nat : call_export_fn(fn, x)
  PROVE  DataInv'
<1> USE DEF DataInv, suite, report, reentrancy
<1>1. CASE create_entity
  BY <1>1 DEF create_entity
<1>2. ASSUME NEW fn \in Exports, NEW x \in Nat, call_export_fn(fn, x)
      PROVE  DataInv'
  BY <1>2 DEF call_export_fn, Exports, AnyName
<1> QED BY <1>1, <1>2

LEMMA DataNext ==
  ASSUME TypeInv, [Next]_vars
  PROVE  DataInv'
<1> USE DEF DataInv
<1>1. DataInv /\ (stack # <<>> => case \in Cases)
  BY DEF TypeInv, ShapeInv
<1>2. CASE ScriptReturns
  <2> DEFINE flag == \/ pending' = (implementation \in Leaks /\ (pending \/ Top.saved))
                     \/ pending' = Top.saved
                     \/ pending' = pending
                     \/ pending' = (pending \/ Top.saved)
  <2>1. pending' \in BOOLEAN
    <3>1. Top.saved \in BOOLEAN
      BY <1>2, TopFacts DEF ScriptReturns, TypeInv, ScriptFrame
    <3>2. flag
      <4>1. CASE stack[2].kind = "test"
        BY <1>2, <4>1 DEF ScriptReturns
      <4>2. CASE stack[2].kind # "test"
        BY <1>2, <4>2, SMT DEF ScriptReturns
      <4> QED BY <4>1, <4>2
    <3> QED BY <1>1, <3>1, <3>2, Zenon
  <2> QED BY <1>1, <1>2, <2>1 DEF ScriptReturns, suite, report, reentrancy
<1>3. CASE PlainHostFn
  <2>1. call_count' \in [Counters -> Nat]
    BY <1>1, <1>3, CountFacts DEF PlainHostFn
  <2> QED BY <1>1, <1>3, <2>1 DEF PlainHostFn, suite, report, reentrancy, grug
<1>4. CASE CallOnBFn
  <2>1. call_count' \in [Counters -> Nat]
    BY <1>1, <1>4, CountFacts DEF CallOnBFn
  <2>2. Instr.arg \in Nat /\ "b" \in Exports
    BY <1>4, InstrFacts DEF CallOnBFn, InScript, TypeInv, Exports
  <2>3. case \in Cases
    BY <1>1, <1>4 DEF CallOnBFn, InScript
  <2> QED BY <1>1, <1>4, <2>1, <2>2, <2>3, EnteredFacts DEF CallOnBFn
<1>5. CASE CauseGameFnError
  <2> DEFINE counter == IF Instr.fn = "Utils_fail" THEN "cause_game_fn_error" ELSE Instr.fn
             name == IF implementation \in {"mock", "stale_name"} THEN saved_on_fn_name ELSE Top.fn
  <2>1. /\ Count({counter, "error_handler"})
        /\ grug_tests_runtime_error_handler("GAME_FN_ERROR", counter, name)
        /\ stack # <<>> /\ Top.kind = "script" /\ Instr.fn \in Causes
    BY <1>5 DEF CauseGameFnError, InScript, Causes
  <2>2. counter \in Reasons /\ "GAME_FN_ERROR" \in ErrorTypes
    BY <2>1 DEF Causes, Reasons, Counters, ErrorTypes
  <2>3. name \in AnyName
    BY <1>1, <2>1, TopFacts DEF TypeInv, ScriptFrame, Exports, AnyName
  <2> HIDE DEF counter, name
  <2>4. call_count' \in [Counters -> Nat]
    BY <1>1, <2>1, CountFacts
  <2> QED BY <1>1, <2>1, <2>2, <2>3, <2>4, ReportedFacts
<1>6. CASE ExceedLimit
  <2>1. /\ Count({"error_handler"}) /\ stack # <<>> /\ Top.kind = "script"
        /\ \/ grug_tests_runtime_error_handler("STACK_OVERFLOW", "Stack overflow", Top.fn)
           \/ grug_tests_runtime_error_handler("TIME_LIMIT_EXCEEDED", "Took longer", Top.fn)
    BY <1>6 DEF ExceedLimit, InScript
  <2>2. /\ "STACK_OVERFLOW" \in ErrorTypes /\ "TIME_LIMIT_EXCEEDED" \in ErrorTypes
        /\ "Stack overflow" \in Reasons /\ "Took longer" \in Reasons
    BY DEF ErrorTypes, Reasons
  <2>3. Top.fn \in AnyName
    BY <2>1, TopFacts DEF TypeInv, ScriptFrame, Exports, AnyName
  <2>4. call_count' \in [Counters -> Nat]
    BY <1>1, <2>1, CountFacts
  <2> QED BY <1>1, <2>1, <2>2, <2>3, <2>4, ReportedFacts
<1>7. CASE RestoreName
  <2>1. Top.fn \in AnyName
    BY <1>7, TopFacts DEF RestoreName, InScript, TypeInv, ScriptFrame, Exports, AnyName
  <2> QED BY <1>1, <1>7, <2>1 DEF RestoreName, suite, report, reentrancy
<1>8. CASE HandlerReenters
  <2>1. /\ Running /\ Top.kind = "handler" /\ call_export_fn(Instr.fn, Instr.arg)
        /\ UNCHANGED <<suite, call_count, report, reentrancy>>
    BY <1>8 DEF HandlerReenters, Running
  <2>2. Instr.fn \in Exports /\ Instr.arg \in Nat /\ case \in Cases
    BY <1>1, <2>1, InstrFacts DEF TypeInv, Running
  <2> QED BY <1>1, <2>1, <2>2, EnteredFacts
<1>9. CASE HandlerReturns
  BY <1>1, <1>9 DEF HandlerReturns, suite, report, grug
<1>10. CASE BeginTest
  <2>1. case' \in Cases /\ todo' \subseteq Cases
    BY <1>1, <1>10 DEF BeginTest
  <2>2. /\ had_runtime_error' \in BOOLEAN /\ call_count' \in [Counters -> Nat]
        /\ runtime_error' \in [type : ErrorTypes, reason : Reasons, name : AnyName,
                               path : Cases \cup {NULL}]
    BY <1>1, <1>10 DEF BeginTest, reset, ErrorTypes
  <2> QED BY <1>1, <1>10, <2>1, <2>2 DEF BeginTest, reentrancy, grug
<1>11. CASE TestCreatesEntity
  <2>1. /\ stack # <<>> /\ create_entity /\ UNCHANGED <<suite, call_count, report, reentrancy>>
    BY <1>11 DEF TestCreatesEntity, InTest
  <2> QED BY <1>1, <2>1, EnteredFacts
<1>12. CASE TestCalls
  <2>1. /\ Running /\ Top.kind = "test" /\ Instr.do = "call"
        /\ call_export_fn(Instr.fn, Instr.arg)
        /\ UNCHANGED <<suite, call_count, report, reentrancy>>
    BY <1>12 DEF TestCalls, InTest, Running
  <2>2. Instr.fn \in Exports /\ Instr.arg \in Nat /\ case \in Cases
    BY <1>1, <2>1, InstrFacts DEF TypeInv, Running
  <2> QED BY <1>1, <2>1, <2>2, EnteredFacts
<1>13. CASE TestChecksCreated
  <2>1. stack # <<>>
    BY <1>13 DEF TestChecksCreated, InTest
  <2> QED BY <1>1, <1>13, <2>1 DEF TestChecksCreated, EndTest, fail_current_test, report,
                                   reentrancy, grug
<1>14. CASE TestSetsReentry
  <2>1. Instr.on \in BOOLEAN
    BY <1>14, InstrFacts DEF TestSetsReentry, InTest, TypeInv
  <2> QED BY <1>1, <1>14, <2>1 DEF TestSetsReentry, suite, report, grug
<1>15. CASE TestClearsHadError
  BY <1>1, <1>15 DEF TestClearsHadError, suite, reentrancy, grug
<1>16. CASE TestAsserts
  <2>1. stack # <<>>
    BY <1>16 DEF TestAsserts, InTest
  <2> QED BY <1>1, <1>16, <2>1 DEF TestAsserts, EndTest, fail_current_test, report,
                                   reentrancy, grug
<1>17. CASE TestReturns
  BY <1>1, <1>17 DEF TestReturns, EndTest, report, reentrancy, grug
<1>18. CASE Finished \/ UNCHANGED vars
  BY <1>1, <1>18 DEF Finished, vars
<1> QED BY <1>2, <1>3, <1>4, <1>5, <1>6, <1>7, <1>8, <1>9, <1>10, <1>11, <1>12, <1>13,
           <1>14, <1>15, <1>16, <1>17, <1>18 DEF Next

---------------------------------------------------------------------------
(* The theorems. *)

IInv == TypeInv /\ ReentryInv /\ NameInv

LEMMA InvInit == Init => IInv
<1> SUFFICES ASSUME Init
             PROVE  IInv
  OBVIOUS
<1>1. Len(stack) = 0 /\ 1..Len(stack) = {}
  BY DEF Init
<1>2. ShapeInv
  BY <1>1 DEF Init, ShapeInv
<1>3. DataInv
  <2>1. LastExport \in AnyName
    BY CasesAssumption DEF AnyName
  <2>2. NoError \in [type : ErrorTypes, reason : Reasons, name : AnyName, path : Cases \cup {NULL}]
    BY DEF NoError, ErrorTypes, Reasons, AnyName
  <2>3. [c \in Counters |-> 1] \in [Counters -> Nat]
    OBVIOUS
  <2> QED BY <2>1, <2>2, <2>3 DEF Init, DataInv
<1>4. ReentryInv
  BY <1>1 DEF Init, ReentryInv, SwitchInv, DepthInv
<1>5. NameInv
  BY <1>1 DEF NameInv
<1> QED BY <1>2, <1>3, <1>4, <1>5 DEF IInv, TypeInv

LEMMA InvNext == IInv /\ [Next]_vars => IInv'
BY ShapeNext, DataNext, SwitchNext, DepthNext, NameNext DEF IInv, TypeInv, ReentryInv

LEMMA Invariant == Spec => []IInv
BY InvInit, InvNext, PTL DEF Spec

\* The state of an err_runtime run is what the C variables can hold, with the
\* call stack as long as it gets; the handler is never inside itself twice, and
\* reenter_depth and reenter_from_error_handler are back to their first values
\* when no test runs (grug_tests_runtime_error_handler in tests.c).
THEOREM TypeCorrect == Spec => []TypeOK
<1>1. IInv => TypeOK
  <2> SUFFICES ASSUME IInv
               PROVE  TypeOK
    OBVIOUS
  <2>1. DataInv /\ ShapeInv /\ DepthInv /\ SwitchInv
    BY DEF IInv, TypeInv, ReentryInv
  <2>2. DOMAIN stack = 1..Len(stack)
    BY <2>1 DEF ShapeInv
  <2>3. ASSUME NEW i \in DOMAIN stack
        PROVE  /\ stack[i].kind \in {"test", "script", "handler"}
               /\ stack[i].fn \in AnyName /\ stack[i].saved \in BOOLEAN
    <3>1. stack[i] \in Frames
      BY <2>1 DEF ShapeInv
    <3> QED BY <3>1 DEF Frames, TestFrame, ScriptFrame, HandlerFrame, Exports, AnyName
  <2>4. ReentryIsBounded
    <3> DEFINE handlers == {i \in DOMAIN stack : stack[i].kind = "handler"}
    <3>1. CASE reenter_depth = 0 /\ \A i \in 1..Len(stack) : stack[i].kind # "handler"
      <4>1. handlers = {}
        BY <2>2, <3>1
      <4>2. Cardinality(handlers) = reenter_depth
        BY <3>1, <4>1, FS_EmptySet
      <4> QED BY <2>1, <3>1, <4>2 DEF ReentryIsBounded, SwitchInv
    <3>2. ASSUME reenter_depth = 1, NEW i \in 1..Len(stack),
                 \A k \in 1..Len(stack) : stack[k].kind = "handler" <=> k = i
          PROVE  ReentryIsBounded
      <4>1. handlers = {i}
        BY <2>2, <3>2
      <4> HIDE DEF handlers
      <4>2. Cardinality(handlers) = reenter_depth
        BY <3>2, <4>1, FS_Singleton
      <4> QED BY <2>1, <3>2, <4>2 DEF ReentryIsBounded, SwitchInv, handlers
    <3> QED BY <2>1, <3>1, <3>2 DEF DepthInv
  <2> QED BY <2>1, <2>3, <2>4 DEF TypeOK, DataInv
<1> QED BY <1>1, Invariant, PTL

\* Whatever has been called since it was, the handler is told the innermost
\* export function that has not returned: the mock has put saved_on_fn_name back
\* wherever a nested call has overwritten it (call_export_fn of smoketest.c), and
\* so must an implementation that keeps such a name.
THEOREM HandlerIsToldTheRunningFunction == Spec => NamesRunningFunction
<1> DEFINE Named_ == HandlerCalled /\ implementation \in {"mock", "grug"} /\ Top.fn # "globals"
                       => runtime_error'.name = Top.fn
<1>1. IInv /\ [Next]_vars => [Named_]_vars
  <2> SUFFICES ASSUME IInv, Next
               PROVE  Named_
    OBVIOUS
  <2>1. TypeInv /\ DataInv /\ NameInv /\ call_count \in [Counters -> Nat]
    BY DEF IInv, TypeInv, DataInv
  <2>2. call_count["error_handler"] \in Nat
    BY <2>1 DEF Counters
  <2>3. ASSUME UNCHANGED call_count
        PROVE  Named_
    BY <2>2, <2>3 DEF HandlerCalled
  <2>4. CASE CauseGameFnError
    <3> DEFINE counter == IF Instr.fn = "Utils_fail" THEN "cause_game_fn_error" ELSE Instr.fn
               name == IF implementation \in {"mock", "stale_name"} THEN saved_on_fn_name ELSE Top.fn
    <3>1. /\ grug_tests_runtime_error_handler("GAME_FN_ERROR", counter, name)
          /\ Running /\ Top.kind = "script" /\ Instr.fn \in Causes
      BY <2>4 DEF CauseGameFnError, InScript, Running, Causes
    <3>2. runtime_error'.name = name
      <4> HIDE DEF counter, name
      <4> QED BY <3>1 DEF grug_tests_runtime_error_handler
    <3>3. ASSUME implementation = "mock", Top.fn # "globals"
          PROVE  saved_on_fn_name = Top.fn
      <4>1. /\ 1 \in 1..Len(stack) /\ Top = stack[1] /\ Top.code \in Seq(ScriptStep)
            /\ Top.code # <<>> /\ Instr = Top.code[1]
        BY <2>1, <3>1, TopFacts, InstrFacts DEF TypeInv, Running, ScriptFrame
      <4>2. RestoresFirst(Top.code) \/ saved_on_fn_name = Top.fn
        BY <2>1, <3>1, <3>3, <4>1 DEF NameInv
      <4>3. ~RestoresFirst(Top.code)
        BY <3>1, <4>1, CarefulTail
      <4> QED BY <4>2, <4>3
    <3> QED BY <3>2, <3>3
  <2>5. CASE ExceedLimit
    <3>1. PICK type \in ErrorTypes, reason \in Reasons :
            grug_tests_runtime_error_handler(type, reason, Top.fn)
      BY <2>5 DEF ExceedLimit, ErrorTypes, Reasons
    <3>2. runtime_error'.name = Top.fn
      BY <3>1 DEF grug_tests_runtime_error_handler
    <3> QED BY <3>2
  <2>6. CASE PlainHostFn
    <3>1. Count({Instr.fn}) /\ "error_handler" \notin {Instr.fn}
      BY <2>6 DEF PlainHostFn
    <3> QED BY <2>1, <3>1, CountFacts
  <2>7. CASE CallOnBFn
    <3>1. Count({Instr.fn}) /\ "error_handler" \notin {Instr.fn}
      BY <2>7 DEF CallOnBFn
    <3> QED BY <2>1, <3>1, CountFacts
  <2>8. CASE BeginTest
    <3>1. call_count'["error_handler"] = 0
      BY <2>8 DEF BeginTest, reset, Counters
    <3> QED BY <2>2, <3>1 DEF HandlerCalled
  <2>9. CASE ScriptReturns \/ RestoreName \/ HandlerReenters \/ HandlerReturns
    BY <2>3, <2>9 DEF ScriptReturns, RestoreName, HandlerReenters, HandlerReturns
  <2>10. CASE TestCreatesEntity \/ TestCalls \/ TestChecksCreated \/ TestSetsReentry
                \/ TestClearsHadError \/ TestAsserts \/ TestReturns \/ Finished
    BY <2>3, <2>10 DEF TestCreatesEntity, TestCalls, TestChecksCreated, TestSetsReentry,
                       TestClearsHadError, TestAsserts, TestReturns, Finished, vars
  <2> QED BY <2>4, <2>5, <2>6, <2>7, <2>8, <2>9, <2>10 DEF Next
<1> QED BY <1>1, Invariant, PTL DEF Spec, NamesRunningFunction
=============================================================================
