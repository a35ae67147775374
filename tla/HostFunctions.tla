---------------------------- MODULE HostFunctions ----------------------------
(***************************************************************************)
(* The generic host functions of tests.c, which record how a script calls  *)
(* them, and the ok tests that read the records.  The implementation under *)
(* test is one of                                                          *)
(*   "mock"  smoketest.c, which makes the calls the scripts ask for;       *)
(*   one of Faults, the mock with one mistake in how a call is made.       *)
(* Tests run in any order, and again after others: the static variables of *)
(* the host functions outlive them.                                        *)
(*                                                                         *)
(* No script modelled here pops an empty Vec or inserts past the end of    *)
(* one.  Those calls have no action, so TLC would report a deadlock.       *)
(***************************************************************************)
EXTENDS Integers, Sequences, SequencesExt, FiniteSets, TLC

CONSTANTS
    Implementations,  \* those to consider
    MaxTests,         \* how many tests are run in a row
    RecordLimit,      \* length of recorded_generic_types: 16
    FirstCapacity,    \* what an empty Vec grows to: 8
    NULL

\* One constant for each host function pointer; generics in the wrong order; the
\* specialized function not looked up; each call made twice; equal calls made
\* once; a script that has run before not run again.
Faults == {"keyed_by_function", "swaps_generics",
           "ignores_registration", "calls_twice", "shares_calls", "runs_once"}

ASSUME HostFunctionsAssumption ==
    /\ Implementations \subseteq {"mock"} \cup Faults
    /\ {MaxTests, RecordLimit, FirstCapacity} \subseteq Nat \ {0}

---------------------------------------------------------------------------
(* Types and values. *)

Type(name, generics) == [name |-> name, generics |-> generics]
Number   == Type("number", <<>>)
String   == Type("string", <<>>)
Bool     == Type("bool", <<>>)
Position == Type("Position", <<>>)
Pair(first, second) == Type("Pair", <<first, second>>)

\* A union grug_value, with the member that was written.  Static ones are zero.
GrugNumber(n) == <<"number", n>>
GrugString(s) == <<"string", s>>
GrugBool(b)   == <<"bool", b>>
GrugId(id)    == <<"id", id>>
Zero == GrugId(0)

\* assert_number, assert_true and assert_false read the member they are about:
\* all zeros are 0.0 and false, and the doubles the scripts write end in a zero byte.
IsNumber(value, n) == value = GrugNumber(n) \/ (value = Zero /\ n = 0)
IsTrue(value)      == value = GrugBool(TRUE)
IsFalse(value)     == value \in {GrugBool(FALSE), Zero} \/ value[1] = "number"
IsString(value, s) == value = GrugString(s)

---------------------------------------------------------------------------
(* The static variables of the host functions, and what they allocate. *)

Fns == {"identity", "show", "box", "box_get", "default", "default_string", "make_pair",
        "pair_first", "pair_second", "vec_new", "vec_with_capacity", "vec_push", "vec_pop",
        "vec_insert", "get_position", "set_position"}

\* What a function was last called with or has last returned.
Lasts == {"identity_x", "show_x", "box_created", "box_got", "default", "pair", "pair_first",
          "pair_second", "vec_new", "vec_capacity", "vec_pushed", "vec_popped", "vec_inserted"}

InitialHost ==
    [calls |-> [fn \in Fns |-> 0],
     recorded |-> [i \in 0 .. RecordLimit - 1 |-> NULL], recorded_len |-> 0,
     last |-> [l \in Lasts |-> Zero],
     heap |-> <<>>]

reset_KeepsRecords(host) == [host EXCEPT !.calls = [fn \in Fns |-> 0]]

\* The counters and the length of the records; not what was last passed.
reset(host) == [host EXCEPT !.calls = [fn \in Fns |-> 0], !.recorded_len = 0]

record_generic_type_OffByOne(host, type) ==
    [host EXCEPT !.recorded = IF host.recorded_len <= RecordLimit
                                THEN (host.recorded_len :> type) @@ @ ELSE @,
                 !.recorded_len = @ + 1]

\* The length goes on after the array is full.
record_generic_type(host, type) ==
    [host EXCEPT !.recorded = IF host.recorded_len < RecordLimit
                                THEN [@ EXCEPT ![host.recorded_len] = type] ELSE @,
                 !.recorded_len = @ + 1]

record_generic_types(host, generics) == FoldLeft(record_generic_type, host, generics)

Counted(host, fn) == [host EXCEPT !.calls[fn] = @ + 1]
Noted(host, last, value) == [host EXCEPT !.last[last] = value]
Returns(host, value) == [host |-> host, value |-> value]

\* malloc(): an id that is not used again, as nothing is freed.
Allocated(host, object) == [host EXCEPT !.heap = Append(@, object)]
NewId(host) == GrugId(Len(host.heap) + 1)
Object(host, id) == host.heap[id[2]]

\* A box or a pair; a Vec has a len and a cap too.
Items(values) == [items |-> values]
IsVec(object) == "len" \in DOMAIN object

---------------------------------------------------------------------------
(* struct Vec: items has room for cap values, of which len are in use. *)

EmptyVec == [items |-> <<>>, len |-> 0, cap |-> 0]

\* The sequence a Vec stands for.
Contents(vec) == SubSeq(vec.items, 1, vec.len)

Capacity(cap) == IF cap = 0 THEN FirstCapacity ELSE cap * 2

\* realloc(): room for more, whose contents are whatever is there.
Grown(vec) ==
    IF vec.len = vec.cap
      THEN [vec EXCEPT !.items = @ \o [i \in 1 .. Capacity(vec.cap) - vec.cap |-> Zero],
                       !.cap = Capacity(@)]
      ELSE vec

Pushed(vec, value) ==
    [Grown(vec) EXCEPT !.items[vec.len + 1] = value, !.len = @ + 1]

Popped(vec) == [vec EXCEPT !.len = @ - 1]

Inserted_Overwrites(vec, index, value) ==
    [Grown(vec) EXCEPT !.items[index + 1] = value, !.len = @ + 1]

\* memmove() of all from index on, one place up.
Inserted(vec, index, value) ==
    LET moved(items) == [i \in DOMAIN items |->
                            CASE i = index + 1                      -> value
                              [] i > index + 1 /\ i <= vec.len + 1 -> items[i - 1]
                              [] OTHER                              -> items[i]]
    IN  [Grown(vec) EXCEPT !.items = moved(@), !.len = @ + 1]

SetVec(host, id, vec) == [host EXCEPT !.heap[id[2]] = vec]

---------------------------------------------------------------------------
(* The host functions: what each does to the static variables, and returns. *)

game_fn_identity(host, args, generics) ==
    Returns(Noted(Counted(record_generic_types(host, generics), "identity"), "identity_x", args[1]),
            args[1])

game_fn_show(host, args, generics) ==
    Returns(Noted(Counted(record_generic_types(host, generics), "show"), "show_x", args[1]), Zero)

game_fn_box(host, args, generics) ==
    LET h == Counted(record_generic_types(host, generics), "box")
    IN  Returns(Noted(Allocated(h, Items(<<args[1]>>)), "box_created", NewId(h)), NewId(h))

game_fn_box_get(host, args, generics) ==
    LET got == Object(host, args[1]).items[1]
    IN  Returns(Noted(Counted(host, "box_get"), "box_got", got), got)

game_fn_make_pair(host, args, generics) ==
    LET h == Counted(record_generic_types(host, generics), "make_pair")
    IN  Returns(Noted(Allocated(h, Items(args)), "pair", NewId(h)), NewId(h))

game_fn_pair_first(host, args, generics) ==
    LET first == Object(host, args[1]).items[1]
    IN  Returns(Noted(Counted(host, "pair_first"), "pair_first", first), first)

game_fn_pair_second(host, args, generics) ==
    LET second == Object(host, args[1]).items[2]
    IN  Returns(Noted(Counted(host, "pair_second"), "pair_second", second), second)

game_fn_vec_number_new(host, args, generics) ==
    LET h == Counted(host, "vec_new")
    IN  Returns(Noted(Allocated(h, EmptyVec), "vec_new", NewId(h)), NewId(h))

\* The capacity is noted and not given to the Vec.
game_fn_vec_number_with_capacity(host, args, generics) ==
    game_fn_vec_number_new(
        Noted(Counted(host, "vec_with_capacity"), "vec_capacity", args[1]), args, generics)

game_fn_vec_number_push(host, args, generics) ==
    Returns(Noted(SetVec(Counted(host, "vec_push"), args[1],
                         Pushed(Object(host, args[1]), args[2])),
                  "vec_pushed", args[2]), Zero)

game_fn_vec_number_pop(host, args, generics) ==
    LET vec  == Object(host, args[1])
        item == vec.items[vec.len]
    IN  Returns(Noted(SetVec(Counted(host, "vec_pop"), args[1], Popped(vec)), "vec_popped", item),
                item)

game_fn_vec_number_insert(host, args, generics) ==
    Returns(Noted(SetVec(Counted(host, "vec_insert"), args[1],
                         Inserted(Object(host, args[1]), args[2][2], args[3])),
                  "vec_inserted", args[3]), Zero)

game_fn_default_string(host, args, generics) ==
    Returns(Noted(Counted(record_generic_types(host, generics), "default_string"),
                  "default", GrugString("")), GrugString(""))

\* default() of a Pair calls itself for both members, and never the specialized
\* function.  Other types end the process; no script asks for one.
RECURSIVE game_fn_default(_, _, _)
game_fn_default(host, args, generics) ==
    LET h    == record_generic_types(Counted(host, "default"), generics)
        type == generics[1]
        Gives(value) == Returns(Noted(h, "default", value), value)
    IN  CASE type.name = "bool"   -> Gives(GrugBool(FALSE))
          [] type.name = "number" -> Gives(GrugNumber(0))
          [] type.name = "string" -> Gives(GrugString(""))
          [] type.name = "Pair"   ->
                LET first  == game_fn_default(h, args, <<type.generics[1]>>)
                    second == game_fn_default(first.host, args, <<type.generics[2]>>)
                    pair   == game_fn_make_pair(second.host, <<first.value, second.value>>,
                                                type.generics)
                IN  Returns(Noted(pair.host, "default", pair.value), pair.value)
          [] type.name = "Vec"    ->
                LET vec == game_fn_vec_number_new(h, args, generics)
                IN  Returns(Noted(vec.host, "default", vec.value), vec.value)

\* Counters only: what these two are about is left to their callers.
game_fn_get_position(host, args, generics) ==
    Returns(Counted(host, "get_position"), GrugId(1337))

game_fn_set_position(host, args, generics) ==
    Returns(Counted(host, "set_position"), Zero)

\* The specialized function for these generics, NULL for the generic one.
reg_game_fn_default(types) == IF types[1] = String THEN "default_string" ELSE NULL

---------------------------------------------------------------------------
(* The scripts: the calls of an entity's globals, and of each function it  *)
(* exports.  An argument is a value or the variable it was assigned to.    *)

Tests == {"verify_constraints_1", "verify_constraints_2", "verify_constraints_3",
          "generic_host_fn_call_site_generics", "generic_host_fn_call_site_generics_pair",
          "constraint_implementors_refer_to_each_other", "generic_return_type",
          "generic_static_method", "generic_type_as_operand_1", "generic_type_as_operand_2",
          "generic_type_as_operand_3", "generic_type_as_operand_4", "generic_type_as_operand_5",
          "generics_simple", "generics_simple_2", "global_calls_method", "method_return_value",
          "method_simple", "opaque_id_as_generic", "static_method_simple",
          "static_method_with_argument"}

Var(name)    == <<"var", name>>
Call(fn, generics, args) == [fn |-> fn, generics |-> generics, args |-> args, var |-> NULL]
Let(name, call) == [call EXCEPT !.var = name]

Push(vec, value)          == Call("vec_push", <<>>, <<Var(vec), value>>)
Pop(vec)                  == Call("vec_pop", <<>>, <<Var(vec)>>)
Insert(vec, index, value) == Call("vec_insert", <<>>, <<Var(vec), GrugNumber(index), value>>)
NewVec(vec)               == Let(vec, Call("vec_new", <<>>, <<>>))
Times(n, call)            == [i \in 1 .. n |-> call]

Globals(test) ==
    CASE test = "verify_constraints_1" -> <<Call("default", <<Bool>>, <<>>)>>
      [] test = "verify_constraints_2" -> <<Call("default", <<String>>, <<>>)>>
      [] test = "verify_constraints_3" -> <<Call("default", <<Pair(Number, String)>>, <<>>)>>
      [] test = "global_calls_method"  -> <<NewVec("x")>>
      [] OTHER -> <<>>

\* The operators on what box_get() returned are worked out.
Operand(type, in, out) ==
    <<Let("x", Call("box", <<type>>, <<in>>)), Call("box_get", <<type>>, <<Var("x")>>),
      Call("box", <<type>>, <<out>>)>>

MethodSimple ==
    <<NewVec("x"), Push("x", GrugNumber(30)), Push("x", GrugNumber(10)),
      Push("x", GrugNumber(15)), Push("x", GrugNumber(25)), Insert("x", 1, GrugNumber(3))>>
    \o Times(3, Pop("x"))

Export(test, fn) ==
    CASE test = "generic_host_fn_call_site_generics" ->
            <<Call("box", <<Number>>, <<GrugNumber(1)>>),
              Call("box", <<String>>, <<GrugString("two")>>)>>
      [] test = "generic_host_fn_call_site_generics_pair" ->
            <<Call("make_pair", <<Number, String>>, <<GrugNumber(1), GrugString("two")>>),
              Call("make_pair", <<Bool, Bool>>, <<GrugBool(TRUE), GrugBool(FALSE)>>)>>
      [] test = "constraint_implementors_refer_to_each_other" ->
            <<Call("show", <<Number>>, <<GrugNumber(1)>>),
              Call("show", <<Bool>>, <<GrugBool(TRUE)>>)>>
      [] test = "generic_return_type" -> <<Call("identity", <<String>>, <<GrugString("foo")>>)>>
      [] test = "generic_static_method" -> <<NewVec("x"), Push("x", GrugNumber(7))>>
      [] test = "generic_type_as_operand_1" -> Operand(Number, GrugNumber(25), GrugNumber(-25))
      [] test = "generic_type_as_operand_2" -> Operand(Bool, GrugBool(TRUE), GrugBool(FALSE))
      [] test = "generic_type_as_operand_3" -> Operand(Bool, GrugBool(FALSE), GrugBool(FALSE))
      [] test = "generic_type_as_operand_4" -> Operand(Number, GrugNumber(25), GrugNumber(117))
      [] test = "generic_type_as_operand_5" ->
            Times(2, Call("default", <<Number>>, <<>>))
            \o <<Call("identity", <<Number>>, <<GrugNumber(0)>>)>>
      [] test = "generics_simple" /\ fn = "a" -> MethodSimple
      [] test = "generics_simple" /\ fn = "b" ->
            <<NewVec("x"), Push("x", GrugString("Hello")), Push("x", GrugString("World")),
              Push("x", GrugString("I'm")), Push("x", GrugString("here")),
              Insert("x", 3, GrugString("not"))>> \o Times(3, Pop("x"))
      [] test = "generics_simple" /\ fn = "c" ->
            <<NewVec("x"), Push("x", GrugBool(TRUE)), Push("x", GrugBool(FALSE)),
              Push("x", GrugBool(TRUE)), Push("x", GrugBool(FALSE)),
              Insert("x", 3, GrugBool(TRUE))>> \o Times(2, Pop("x"))
      [] test = "generics_simple_2" ->
            <<Let("pair", Call("make_pair", <<Number, String>>,
                               <<GrugNumber(25), GrugString("Hello")>>)),
              Call("pair_second", <<Number, String>>, <<Var("pair")>>),
              Call("pair_first", <<Number, String>>, <<Var("pair")>>)>>
      [] test = "method_return_value" -> <<NewVec("x"), Push("x", GrugNumber(41)), Pop("x")>>
      [] test = "method_simple" -> MethodSimple
      [] test = "opaque_id_as_generic" ->
            <<Let("position", Call("get_position", <<>>, <<GrugId(42)>>)),
              Let("box", Call("box", <<Position>>, <<Var("position")>>)),
              Let("got", Call("box_get", <<Position>>, <<Var("box")>>)),
              Call("set_position", <<>>, <<Var("got")>>)>>
      [] test = "static_method_simple" ->
            <<NewVec("x"), Push("x", GrugNumber(30)), Push("x", GrugNumber(10)), Pop("x")>>
      [] test = "static_method_with_argument" ->
            <<Let("x", Call("vec_with_capacity", <<>>, <<GrugNumber(8)>>)),
              Push("x", GrugNumber(42))>>

\* The functions a test calls, one after the other.
Exports(test) ==
    CASE Globals(test) # <<>>     -> <<>>
      [] test = "generics_simple" -> <<"a", "b", "c">>
      [] OTHER                    -> <<"a">>

---------------------------------------------------------------------------
(* The tests: what each asserts before its first call and after each.      *)

\* assert_call_count() of the functions named.
Counts(host, counts) == \A fn \in DOMAIN counts : host.calls[fn] = counts[fn]

Records_LengthOnly(host, types) == host.recorded_len = Len(types)

\* assert_size_t() of the length and then assert_type() of each record.
Records(host, types) ==
    /\ host.recorded_len = Len(types)
    /\ \A i \in DOMAIN types : host.recorded[i - 1] = types[i]

\* The Vec last made, and what is in it.
LastVec(host, contents) == Contents(Object(host, host.last.vec_new)) = contents

\* Tests that begin with recorded_generic_types_len = 0.
ClearsRecords(test) ==
    test \in {"constraint_implementors_refer_to_each_other", "generic_return_type",
              "generic_host_fn_call_site_generics", "generic_host_fn_call_site_generics_pair"}

AssertsOfMethodSimple(host) ==
    /\ Counts(host, [vec_new |-> 1, vec_push |-> 4, vec_pop |-> 3, vec_insert |-> 1])
    /\ IsNumber(host.last.vec_pushed, 25) /\ IsNumber(host.last.vec_inserted, 3)
    /\ IsNumber(host.last.vec_popped, 10)
    /\ LastVec(host, <<GrugNumber(30), GrugNumber(3)>>)

\* A test of globals asserts what create_entity() has called.
AssertsOfGlobals(test, host) ==
    CASE test = "verify_constraints_1" ->
            /\ Counts(host, [default |-> 1]) /\ Records(host, <<Bool>>)
            /\ IsFalse(host.last.default)
      [] test = "verify_constraints_2" ->
            /\ Counts(host, [default |-> 0, default_string |-> 1]) /\ Records(host, <<String>>)
            /\ IsString(host.last.default, "")
      [] test = "verify_constraints_3" ->
            /\ Counts(host, [default |-> 3])
            /\ Records(host, <<Pair(Number, String), Number, String, Number, String>>)
            /\ Object(host, host.last.default).items = <<GrugNumber(0), GrugString("")>>
      [] test = "global_calls_method" -> Counts(host, [vec_new |-> 1])

\* The others assert that nothing was called yet of what they count.
CountedBefore(test) ==
    IF ClearsRecords(test) THEN {}
    ELSE {call.fn : call \in Range(Export(test, "a"))}
             \ (IF test = "static_method_with_argument" THEN {"vec_push"} ELSE {})

AssertsBefore(test, host) == \A fn \in CountedBefore(test) : host.calls[fn] = 0

AssertsAfter(test, fn, host) ==
    CASE test = "generic_host_fn_call_site_generics" -> Records(host, <<Number, String>>)
      [] test = "generic_host_fn_call_site_generics_pair" ->
            Records(host, <<Number, String, Bool, Bool>>)
      [] test = "constraint_implementors_refer_to_each_other" ->
            /\ Counts(host, [show |-> 2]) /\ IsTrue(host.last.show_x)
            /\ Records(host, <<Number, Bool>>)
      [] test = "generic_return_type" ->
            /\ Counts(host, [identity |-> 1]) /\ IsString(host.last.identity_x, "foo")
            /\ Records(host, <<String>>)
      [] test = "generic_static_method" ->
            /\ Counts(host, [vec_new |-> 1, vec_push |-> 1])
            /\ IsNumber(host.last.vec_pushed, 7)
      [] test \in {"generic_type_as_operand_1", "generic_type_as_operand_2",
                   "generic_type_as_operand_3", "generic_type_as_operand_4"} ->
            LET created == Object(host, host.last.box_created).items[1]
                got     == host.last.box_got
            IN  /\ Counts(host, [box |-> 2, box_get |-> 1])
                /\ test = "generic_type_as_operand_1" => IsNumber(created, -25) /\ IsNumber(got, 25)
                /\ test = "generic_type_as_operand_2" => IsFalse(created) /\ IsTrue(got)
                /\ test = "generic_type_as_operand_3" => IsFalse(created) /\ IsFalse(got)
                /\ test = "generic_type_as_operand_4" => IsNumber(created, 117) /\ IsNumber(got, 25)
      [] test = "generic_type_as_operand_5" ->
            /\ Counts(host, [default |-> 2, identity |-> 1])
            /\ Records(host, <<Number, Number, Number>>)
            /\ IsNumber(host.last.default, 0) /\ IsNumber(host.last.identity_x, 0)
      [] test = "generics_simple" /\ fn = "a" -> AssertsOfMethodSimple(host)
      [] test = "generics_simple" /\ fn = "b" ->
            /\ Counts(host, [vec_new |-> 2, vec_push |-> 8, vec_pop |-> 6, vec_insert |-> 2])
            /\ IsString(host.last.vec_pushed, "here") /\ IsString(host.last.vec_inserted, "not")
            /\ IsString(host.last.vec_popped, "I'm")
            /\ LastVec(host, <<GrugString("Hello"), GrugString("World")>>)
      [] test = "generics_simple" /\ fn = "c" ->
            /\ Counts(host, [vec_new |-> 3, vec_push |-> 12, vec_pop |-> 8, vec_insert |-> 3])
            /\ IsFalse(host.last.vec_pushed) /\ IsTrue(host.last.vec_inserted)
            /\ IsTrue(host.last.vec_popped)
            /\ LET vec == Contents(Object(host, host.last.vec_new))
               IN  Len(vec) = 3 /\ IsTrue(vec[1]) /\ IsFalse(vec[2])
      [] test = "generics_simple_2" ->
            LET pair == Object(host, host.last.pair).items
            IN  /\ Counts(host, [make_pair |-> 1, pair_first |-> 1, pair_second |-> 1])
                /\ pair = <<host.last.pair_first, host.last.pair_second>>
                /\ pair = <<GrugNumber(25), GrugString("Hello")>>
      [] test = "method_return_value" ->
            /\ Counts(host, [vec_new |-> 1, vec_push |-> 1, vec_pop |-> 1])
            /\ IsNumber(host.last.vec_pushed, 41) /\ IsNumber(host.last.vec_popped, 41)
            /\ LastVec(host, <<>>)
      [] test = "method_simple" -> AssertsOfMethodSimple(host)
      [] test = "opaque_id_as_generic" ->
            Counts(host, [get_position |-> 1, box |-> 1, box_get |-> 1, set_position |-> 1])
      [] test = "static_method_simple" ->
            /\ Counts(host, [vec_new |-> 1, vec_push |-> 2, vec_pop |-> 1])
            /\ IsNumber(host.last.vec_popped, 10) /\ LastVec(host, <<GrugNumber(30)>>)
      [] test = "static_method_with_argument" ->
            /\ Counts(host, [vec_with_capacity |-> 1, vec_push |-> 1])
            /\ host.last.vec_capacity = GrugNumber(8) /\ IsNumber(host.last.vec_pushed, 42)

---------------------------------------------------------------------------
(* The implementation under test: the calls it makes of a script, given    *)
(* all calls of the file.                                                  *)

File(test) == Globals(test) \o FlattenSeq([i \in DOMAIN Exports(test) |->
                                               Export(test, Exports(test)[i])])

Script(test, fn) == IF fn = "globals" THEN Globals(test) ELSE Export(test, fn)

\* Each call with the generics of the first call in the file that has its key.
Keyed(calls, file, Key(_)) ==
    [i \in DOMAIN calls |->
        [calls[i] EXCEPT !.generics =
            LET j == CHOOSE k \in DOMAIN file :
                        /\ Key(file[k]) = Key(calls[i])
                        /\ \A l \in 1 .. k - 1 : Key(file[l]) # Key(calls[i])
            IN  file[j].generics]]

\* The function to call: the specialized one if there is one for the generics.
Resolved(call) ==
    IF call.fn = "default" /\ reg_game_fn_default(call.generics) # NULL
      THEN [call EXCEPT !.fn = reg_game_fn_default(call.generics)] ELSE call

Made(impl, calls, file) ==
    CASE impl = "keyed_by_function" -> Keyed(calls, file, LAMBDA c : c.fn)
      [] impl = "swaps_generics" ->
            [i \in DOMAIN calls |-> [calls[i] EXCEPT !.generics = Reverse(@)]]
      [] impl = "calls_twice" -> FlattenSeq([i \in DOMAIN calls |-> Times(2, calls[i])])
      [] impl = "shares_calls" ->
            LET first == {i \in DOMAIN calls : \A j \in 1 .. i - 1 : calls[j] # calls[i]}
            IN  [n \in 1 .. Cardinality(first) |->
                    calls[CHOOSE i \in first : Cardinality({j \in first : j <= i}) = n]]
      [] OTHER -> calls

Performed(impl, test, fn, again) ==
    LET calls == Made(impl, Script(test, fn), File(test))
    IN  CASE impl = "runs_once" /\ again     -> <<>>
          [] impl = "ignores_registration" -> calls
          [] OTHER -> [i \in DOMAIN calls |-> Resolved(calls[i])]

---------------------------------------------------------------------------
VARIABLES
    impl,      \* the implementation under test
    verdicts,  \* the tests that were run, each with whether it passed
    test,      \* the test that runs, NULL between tests
    step,      \* how many of its exported functions it has called
    script,    \* the calls the implementation has yet to make
    locals,    \* the variables of the script
    host       \* the static variables and the heap of the host functions

vars == <<impl, verdicts, test, step, script, locals, host>>

Init ==
    /\ impl \in Implementations
    /\ verdicts = <<>>
    /\ test = NULL /\ step = 0
    /\ script = <<>> /\ locals = [v \in {} |-> Zero]
    /\ host = InitialHost

RunBefore(t) == \E i \in DOMAIN verdicts : verdicts[i].test = t

\* call_export_fn(), or create_entity() for the globals.
Runs(t, fn) ==
    /\ script' = Performed(impl, t, fn, RunBefore(t))
    /\ locals' = [v \in {} |-> Zero]

\* reset(), and create_entity().
StartTest(t) ==
    /\ test = NULL /\ Len(verdicts) < MaxTests
    /\ test' = t /\ step' = 0
    /\ host' = reset(host)
    /\ Runs(t, "globals")
    /\ UNCHANGED <<impl, verdicts>>

Args(call) ==
    [i \in DOMAIN call.args |->
        IF call.args[i][1] = "var" THEN locals[call.args[i][2]] ELSE call.args[i]]

\* The next call of the script, by the host function fn.
CallHostFn(fn, Fn(_, _, _)) ==
    /\ script # <<>> /\ Head(script).fn = fn
    /\ LET call   == Head(script)
           result == Fn(host, Args(call), call.generics)
       IN  /\ host' = result.host
           /\ locals' = IF call.var = NULL THEN locals ELSE (call.var :> result.value) @@ locals
    /\ script' = Tail(script)
    /\ UNCHANGED <<impl, verdicts, test, step>>

PopsFromSome    == Object(host, Args(Head(script))[1]).len > 0
InsertsInBounds == Args(Head(script))[2][2] <= Object(host, Args(Head(script))[1]).len

HostFnStep ==
    \/ CallHostFn("identity", game_fn_identity)
    \/ CallHostFn("show", game_fn_show)
    \/ CallHostFn("box", game_fn_box)
    \/ CallHostFn("box_get", game_fn_box_get)
    \/ CallHostFn("default", game_fn_default)
    \/ CallHostFn("default_string", game_fn_default_string)
    \/ CallHostFn("make_pair", game_fn_make_pair)
    \/ CallHostFn("pair_first", game_fn_pair_first)
    \/ CallHostFn("pair_second", game_fn_pair_second)
    \/ CallHostFn("vec_new", game_fn_vec_number_new)
    \/ CallHostFn("vec_with_capacity", game_fn_vec_number_with_capacity)
    \/ CallHostFn("vec_push", game_fn_vec_number_push)
    \/ CallHostFn("vec_pop", game_fn_vec_number_pop) /\ PopsFromSome
    \/ CallHostFn("vec_insert", game_fn_vec_number_insert) /\ InsertsInBounds
    \/ CallHostFn("get_position", game_fn_get_position)
    \/ CallHostFn("set_position", game_fn_set_position)

Verdict(passed) ==
    /\ verdicts' = Append(verdicts, [test |-> test, passed |-> passed])
    /\ test' = NULL /\ step' = 0 /\ script' = <<>> /\ locals' = [v \in {} |-> Zero]
    /\ UNCHANGED impl

\* The assertions at this point of the test, once the implementation has returned.
Asserts ==
    IF Exports(test) = <<>> THEN AssertsOfGlobals(test, host)
    ELSE IF step = 0 THEN AssertsBefore(test, host)
    ELSE AssertsAfter(test, Exports(test)[step], host)

Fails ==
    /\ test # NULL /\ script = <<>> /\ ~Asserts
    /\ Verdict(FALSE) /\ UNCHANGED host

Passes ==
    /\ test # NULL /\ script = <<>> /\ Asserts /\ step = Len(Exports(test))
    /\ Verdict(TRUE) /\ UNCHANGED host

CallsNext ==
    /\ test # NULL /\ script = <<>> /\ Asserts /\ step < Len(Exports(test))
    /\ step' = step + 1
    /\ host' = IF step = 0 /\ ClearsRecords(test) THEN [host EXCEPT !.recorded_len = 0] ELSE host
    /\ Runs(test, Exports(test)[step + 1])
    /\ UNCHANGED <<impl, verdicts, test>>

\* Stuttering in the final states: they are no deadlock.
Ended == test = NULL /\ Len(verdicts) = MaxTests /\ UNCHANGED vars

Next ==
    \/ \E t \in Tests : StartTest(t)
    \/ HostFnStep
    \/ Fails
    \/ Passes
    \/ CallsNext
    \/ Ended

Spec == Init /\ [][Next]_vars

---------------------------------------------------------------------------
(* Properties. *)

\* The variables have their types, no type is recorded past the end of
\* recorded_generic_types, and no Vec has more items than room.
TypeOK ==
    /\ impl \in Implementations
    /\ verdicts \in Seq([test : Tests, passed : BOOLEAN]) /\ Len(verdicts) <= MaxTests
    /\ test \in Tests \cup {NULL}
    /\ step \in 0 .. 3
    /\ DOMAIN host.recorded = 0 .. RecordLimit - 1
    /\ host.recorded_len \in Nat
    /\ host.calls \in [Fns -> Nat]
    /\ \A i \in DOMAIN host.heap :
          IsVec(host.heap[i]) =>
              /\ host.heap[i].len <= host.heap[i].cap
              /\ Len(host.heap[i].items) = host.heap[i].cap

\* No test rejects the implementation that makes the calls the scripts ask for,
\* whatever tests have left in the host's static variables before: the
\* assertions on what was last called speak of the test they are in.
CorrectAccepted ==
    impl = "mock" => \A i \in DOMAIN verdicts : verdicts[i].passed

\* The tests that must reject each mistake.
Targets(fault) ==
    CASE fault = "keyed_by_function" ->
            {"generic_host_fn_call_site_generics", "generic_host_fn_call_site_generics_pair",
             "constraint_implementors_refer_to_each_other"}
      [] fault = "swaps_generics"       -> {"generic_host_fn_call_site_generics_pair"}
      [] fault = "ignores_registration" -> {"verify_constraints_2"}
      [] fault = "calls_twice"          -> Tests
      [] fault = "shares_calls"         -> {"generic_type_as_operand_5", "generics_simple", "method_simple"}
      [] OTHER                          -> {}

\* Each mistake is rejected by each test that is there for it, whatever an
\* earlier test has left behind: no record of an earlier test is taken for one
\* of this test.  A file that is not run again fails its rerun.
FaultsRejected ==
    \A i \in DOMAIN verdicts :
        verdicts[i].passed =>
            /\ verdicts[i].test \notin Targets(impl)
            /\ impl = "runs_once" => \A j \in 1 .. i - 1 : verdicts[j].test # verdicts[i].test

\* A Vec stands for a sequence: in every call, whether or not it has to grow,
\* push appends, pop takes the last item off and returns it, insert moves the
\* rest up by one, and no other Vec changes.
VecsAreSequences ==
    [][\A i \in DOMAIN host.heap :
         IsVec(host.heap[i]) =>
            LET before == Contents(host.heap[i])
                after  == Contents(host'.heap[i])
                call   == Head(script)
                args   == Args(call)
                isIts  == script # <<>> /\ args # <<>> /\ args[1] = GrugId(i)
            IN  IF isIts /\ call.fn = "vec_push" THEN after = Append(before, args[2])
                ELSE IF isIts /\ call.fn = "vec_pop"
                  THEN before = Append(after, host'.last.vec_popped)
                ELSE IF isIts /\ call.fn = "vec_insert"
                  THEN after = InsertAt(before, args[2][2] + 1, args[3])
                ELSE after = before]_host

=============================================================================
