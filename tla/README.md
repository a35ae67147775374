# grug-tests: a TLA+ model of the test driver and its JSON library

grug-tests is the test suite every implementation of the grug scripting language
has to pass. `tests.c` is built as a library: an implementation hands
`grug_tests_run()` a table of its functions (`struct grug_state_vtable`), and the
driver runs some 800 named tests through it. `smoketest.c` is a mock
implementation that replays the right answers, so that the suite itself can be
tested. The suite compares what implementations generate as JSON, and writes its
report as JSON, through the copy of cJSON it carries (`cJSON.c`, `cJSON.h`).

A suite like this is trusted: when it exits with 0, an implementation is called
correct. What this project asks is whether it may be. Does an exit status of 0
mean that every test ran and passed? Does the driver keep to the protocol of the
interface it tests (files and entities used while they live, and given back)?
Do the tests reject the mistakes they were written for, in every order, and
never reject a right implementation because of what another test left behind?
And does the JSON library under those comparisons read, print, compare and free
what it says, also when memory runs out half way?

Paths below are those of the repository.

## The system

| Component | State | Operations | Interacts with |
|---|---|---|---|
| Result table (`tests.c` 55-103, 6370-6375) | `test_results[8192]`: per (category, name) `passed`, `has_rerun`, `passed_rerun` | `find_or_create_test_result`, `record_test_result`, `record_test_rerun_result`, `test_result_overall_passed` | written by the driver after each test, read by the reports |
| Driver (`tests.c` 105-150, 1607-2116, 3045-3190, 6516-6644) | arrays of registered tests with the file handle of each, `g_in_test`, the jump buffer | `grug_tests_run`: 13 passes per round over a safe and an unsafe grug state; `fail_current_test` | calls the vtable; `longjmp`s out of a test or exits |
| Shuffle (`tests.c` 1680-1693) | an array of tests | `SHUFFLE` before each round | `rand()` |
| Runtime error protocol (`tests.c` 500-530, 5463-5840, `smoketest.c` 326-430, 1209) | call counters, what the handler was last told, the reentrancy flags | `grug_tests_runtime_error_handler`, the `runtime_error_*` tests, the host functions they reach | test → `call_export_fn` → script → host function → handler → `call_export_fn` ... |
| Hot reloading tests (`tests.c` 2382-3043, `smoketest.c` 131-201) | a directory per test on the disk, a grug state of its own, the watcher's times | five `test_*_reloading*`, `update`, `get_updated_resources` | files written by the test and read by the implementation |
| Reports (`tests.c` 6377-6514, 6619-6644) | `results.json`, the summary line, the exit status | `write_results_json`, `reindent_cjson_output` | the result table |
| Ok tests and host functions (`tests.c` 540-1600, 3190-5460) | a counter and the recorded arguments per host function, `struct Vec`, `recorded_generic_types[16]` | ~200 `ok_*` tests, ~100 `game_fn_*` | the script under test calls the host functions |
| JSON round trip (`tests.c` 2100-2290) | two cJSON trees | `diff_roundtrip`, `compare_nodes` | `grug_to_json`, `json_to_grug` of the vtable |
| Files and messages of the err tests (`tests.c` 1695-1790, 1985-2085) | static buffers | `read_file`, `get_expected_error`, `streq_normalized` | `tests/err/*/expected_error.txt` |
| Mock (`smoketest.c`) | `saved_grug_file_path`, `saved_on_fn_name`, `saved_mods_dir_path`, `update_called`, the count of updates | the vtable | replays calls of host functions by the path of the file |
| cJSON: items in memory (`cJSON.c` 240-420, 1930-2930) | linked lists of items: `next`, `prev` (of the first member: the last), `child`, the flags of references and of constant names, the names and strings that are allocated | `cJSON_Create*`, `cJSON_Add*`, `cJSON_Detach*`, `cJSON_Delete*`, `cJSON_Insert*`, `cJSON_Replace*`, `cJSON_Duplicate` | trees of the round trip and of the report |
| cJSON: parser, printer and comparison (`cJSON.c` 300-1890, 2930-3222) | a text with an offset and a depth; a buffer that grows; the position of the last error | `cJSON_Parse*`, `cJSON_Print*`, `cJSON_Minify`, `cJSON_Compare`, `cJSON_SetValuestring` | called by the round trip, the report and the helpers above |
| `grug_grammar.py`, `mod_api*.py`, CMake, the `.grug` corpus | - | - | batch scripts, configuration and data |

There is one thread. What makes the program hard to test is not parallelism:

- **nesting**: handler and host functions call back into the implementation while
  an error is pending;
- **non-local exits**: a failing assertion `longjmp`s over whatever the test had
  still to clean up, and with the default options it ends the process;
- **state that outlives a test**: one table of results for several passes and
  rounds, one array of file handles for two grug states, static variables of the
  mock, directories left by a run that was killed;
- **failing allocations**: a cJSON call that fails half way has to undo what it
  did, in lists whose first `prev` is the last member and whose references share
  members with other lists;
- **buffers that end**: a text is parsed by its length, not to a terminator, and
  printed into a block that grows or, preallocated, must not;
- **order**: the arrays are shuffled, so what a test inherits differs from run to
  run.

What makes each component correct: the *table* never forgets a failure, never
overflows and is read alike by its readers; the *reports* say what it says; the *driver* ends, gives every test
its verdict and every handle back; the *shuffle* yields permutations, all of
them; the *runtime error tests* accept right implementations and reject wrong
ones in all orders; so do the *reloading tests*, killed runs included, and they
leave no directory. *cJSON* changes its trees as a forest of ordered trees
changes, whole or not at all, loses and dangles nothing, takes the texts of the
JSON grammar (of its dialect of it) and no others, and prints what it parses back.

## The modules

| Module | Models | State and actions |
|---|---|---|
| `TestResults` | the result table | operators, a function from (category, name) to entries; no state of its own |
| `TestRunner` | `grug_tests_run` and the body of each kind of test | `Schedule` is its sequence of calls, `pc` the next step of the body of the current test, `file` is `fn_data->file`; one action per call into the vtable, per macro (`RecordResult` is the end of `RUN_TRACKED_TEST` and `RUN_TRACKED_RERUN_TEST`) and per loop step |
| `TestSession` | what a run promises its caller | verdicts and an exit status; `TestRunner` implements it under the refinement mapping `Session` |
| `Reports` | `write_results_json` down to the bytes | operators from the table and an order of its entries to the text, made with `JsonPrint`, rewritten by `reindent_cjson_output` and read again with `JsonParse` |
| `ReportedRunner` | the driver with that report | those of `TestRunner`: it composes `TestRunner` with `Reports` |
| `ErrTests` | a round of the err tests: their array shuffled, then run for both states | the static buffer `expected_error` and the test that ran last; it composes the loop of `Shuffle` with `run_err_tests`, in which the implementation answers as it likes |
| `TestRunnerInvariant` | the inductive invariant `Inv` | - |
| `TestRunnerProofs` | theorems about `TestResults` and `TestRunner`, and that it implements `TestSession` | - |
| `ErrTestsProofs`, `RuntimeErrorsProofs`, `ReloadingProofs`, `JsonListProofs` | theorems about the module of that name, and the invariants they need | - |
| `Shuffle`, `ShuffleProofs` | the `SHUFFLE` macro, theorems about it | one action, the iteration of its loop; `Choices` are the values of `rand() % i` |
| `RuntimeErrors` | the err_runtime tests, the handler, host functions, scripts | the C call stack is a variable: frames of the test, of scripts and of the handler, each with the calls it has yet to make; one action per kind of call |
| `Reloading` | the five reloading tests | `code` is the rest of the current test, `disk` and `clock` the file system; one action per call |
| `HostFunctions` | the generic host functions and 21 ok tests of them | `host` holds their static variables and what they allocate, `script` the calls yet to make; each host function is an operator from static variables and arguments to static variables and a result, and an action that calls it |
| `JsonList` | the linked lists of cJSON | a heap of `next`, `prev`, `child`; `add_item_to_array`, `cJSON_DetachItemViaPointer`, `cJSON_InsertItemInArray`, `cJSON_ReplaceItemViaPointer` and the lookups as operators from heap to heap |
| `JsonTree` | items in memory: the calls that create, add, detach, insert, replace, duplicate and delete | `heap`, what the caller holds (`roots`); one action per family of calls, each with an allocation that may fail at any point (`fuel`) |
| `JsonForest` | what those calls promise | an abstract forest, `kids` and `roots`; `JsonTree` implements it |
| `JsonHeapProofs` | what each operator of `JsonTree` does to a heap, with the invariant `HeapInv` of a heap | - |
| `JsonTreeProofs` | what each call of `JsonTree` does to the caller's trees, and the theorems about its behaviours | - |
| `JsonValue` | bytes, numbers, and an item as a value with its members in a sequence | operators |
| `JsonParse` | the parser, down to the byte and the allocation | a parse is an operator over a record: the text, what may be read of it, `offset`, `depth`, `fuel`, `live` blocks, `sound` |
| `JsonPrint` | the printer with its buffer, in all four calls | a record too: the block, its length, offset, `fuel`; `ensure` as the only way to room |
| `JsonCompare` | `cJSON_Compare`; `compare_nodes` of `tests.c` | operators |
| `JsonGrammar` | the reference: which texts are accepted, written from the value's side and without a buffer | operators |
| `JsonText` | a caller with one text and one tree | `typed` (the text, in pieces), `tree`, `room` (the block of a string), `global_error`; actions type, parse, print, minify, change |
| `MCTestRunner`, `MCReportedRunner`, `MCErrTests`, `MCRuntimeErrors`, `MCJsonText` | small suites and sets of texts for TLC | - |

`JsonTree` and `JsonText` split cJSON where its code splits: where an item lies
in memory matters to the calls on lists, and not to the parser, which builds
fresh lists, so `JsonParse` gives a value whose members are a sequence and
counts the blocks it holds. The caller of `JsonTree` follows the rules of
`cJSON.h`: it deletes or adds only what it owns, adds nothing to a list below
it, and frees nothing a living reference still leads to (`MayFree`, `MayJoin`).

The implementation under test is the environment. In `TestRunner` it answers
every call in every way its interface allows, so whatever holds there holds of
the driver with any implementation, right or wrong. In `RuntimeErrors`,
`Reloading` and `HostFunctions` the subject is the tests themselves, so the implementation is one of
a set: `"mock"` (translated from `smoketest.c`), `"grug"` (what the tests and
their comments ask for; code that is not in this repository), and `"grug"` with
one mistake, most of them named by the comments of the tests. The definitions that stand for
code outside the repository are marked external in `PROJECT.json`.

In a module, `D_X` is a faulty version of the definition `D`. Each property has
one with which it fails, listed under `mutants` in `PROJECT.json`.

### What is abstracted

- A test is its name; its assertions are one action that passes or fails
  (`Run`), except in `RuntimeErrors`, `Reloading` and `HostFunctions`, which
  follow every assertion.
- In `HostFunctions` a value carries the member of `union grug_value` it was
  written through; `IsNumber`, `IsFalse` and the others say what a read through
  another member gives where the tests can meet one. Expressions of a script that
  call nothing are worked out (`-x.get()` is the -25 the mock passes).
- The table's order of insertion matters only to the sorting of `results.json`,
  and there `Reports` allows every order (`qsort`, below). Names longer than the 192 bytes of an entry are left out: the
  longest is far shorter.
- An `assert()` that fails in a host function ends the process, as the actions
  that fail without `--continue-on-fail` do; it is not told from them.
- In `JsonText` a string is a sequence of bytes; a number is a sign, a
  significand and an exponent as far as they tell the texts apart (`strtod`,
  `printf` and their rounding are external). `INT_MAX`, the first buffer size and
  the nesting limit are constants, so that their edges are reached.
- Names in `JsonTree` are two that differ in case only; a string is the item that
  owns it, which is what matters to freeing it.
- Every write of a file gets a time of its own. On a file system with coarse
  times two writes could share one; the tests do not wait, so this is an
  assumption about the platform, and a hazard no property covers.

## The checks

Runs that pass:

| Run | Question | Bounds |
|---|---|---|
| `failfast` | Default options: `Inv`, the whole inductive invariant (with `TypeOK`, and under these options `SuccessIsSound` and `NoEntityOutlivesItsFile`); are files used only while they live and in their own state (`FileUsesAreLive`), does status 0 mean that every test passed, twice where rerun (`SuccessIsSound`), is `TestSession` implemented, whose fairness makes the run end (`ImplementsSession`)? | one test per array, two ok tests so that one can be in the middle of the order; two rounds, because a handle or a result of one round can only be mistaken in the next; 16 results, more than there are tests |
| `continue` | The same with `--continue-on-fail`, where failures accumulate: what of it remains? `HandlesReclaimed`, `SuccessIsComplete`, `ImplementsSession`. And does the text of `results.json`, in whichever order `qsort` leaves it, parse to what the run recorded of every test, in its category and once (`ReportSaysTheTable`)? | one test in each of five arrays, all combinations of failures; one round of both states |
| `capacity` | Does the run stop before it writes past the table? | five tests, room for three |
| `shuffle` | Is each result a permutation (`EveryTestOnce`), each order as likely (`EveryOrderAsLikely`)? And of err tests run in that order, for both states, with any answers: does the verdict depend on a test's message and its own file only, but for line ends and the kind of separators (`ErrVerdictIsOfTheTest`)? | five positions, all 120 orders; the theorems about the shuffle cover every length. The five files are of different lengths, one empty, one the beginning of another, with both line ends and none, so that each kind of leftover lies behind each kind of file |
| `runtime_errors` | In every order of ten tests: are the mock and the right implementation accepted, six mistakes rejected, is the running function named, is the reentry bounded (a conjunct of `TypeOK`)? | ten of the fourteen tests; the other four repeat the shape of one of them (`MCShapes`) |
| `host_functions` | Any three tests in a row, also one test twice with another between: are the calls the scripts ask for accepted, mistakes in how calls are made rejected by each test there for them, whatever is left in the static variables? Does a Vec stand for a sequence? | three tests of 21; `recorded_generic_types` has five places, the longest list a test asks for, so that a call too many is past its end; a Vec grows at its third item, as none of the corpus reaches the ninth |
| `reloading` | All tests or one by name, with or without `--continue-on-fail`, a run killed at any step and started again: are mock and right watcher accepted, eight mistakes rejected by every test that is there for them, all directories removed? | two rounds (the mock's static variables), one restart |
| `json_tree` | Any sequence of calls on trees, each with an allocation that may fail at any point: are lists well linked (`ListsWellLinked`), is nothing freed twice or left dangling (`NothingDangles`), nothing lost (`NothingLost`), are copies whole and apart from the original (`CopiesAreWhole`), do the calls change the trees as `JsonForest` says (`ImplementsForest`), and a call that fails not at all (`FailureChangesNothing`)? | four items: the least for a list of three, where the middle differs from the ends, in a parent. `MaxSize` 4 (items, names, strings, flags together) bounds what is explored further; states past it are still checked. `CIRCULAR_LIMIT` 1, so that a copy meets it. A call makes at most `MaxFuel` 4 allocations before one fails |
| `json_text` | All small texts, also without a terminator, and what lies behind them: are the texts of the grammar accepted and no others, read for what they say, is the error where the fault is, are both printers in their buffers for every first size and every failing allocation, is one spare byte enough for `cJSON_PrintPreallocated`, is printed text parsed to the same tree, does minifying keep the meaning, do `cJSON_Compare` and `compare_nodes` compare meaning, does a string set again and again fit its block? | all texts of six plain pieces (brackets, comma, colon, a number, a name) that the parser does not refuse before their end; one of 44 rare pieces (blanks, odd numbers, literals, escapes, surrogates, broken strings, digits of `\u` that break up a pair of backslashes) in texts of three and in eight contexts; pairs of 21 values for the comparisons. Nesting limit 2, `INT_MAX` 40 and a first buffer of 4 bytes, so that each edge lies inside those texts; 16 allocations, more than a text of the set asks for |

Runs that show a disagreement between the code and what its documentation says
of it (`findings` in `PROJECT.json` quotes the lines):

| Run | What it shows |
|---|---|
| `lost_failure` | `record_test_result` of the unsafe pass overwrites the failure of the safe pass. With `--continue-on-fail` the run then exits with success, and neither the summary nor `results.json` knows of the failure. |
| `stale_file` | `fn_data->file` is not cleared by `destroy_grug_file` of the rerun. When a test compiles in the safe pass and not in the unsafe one, its unsafe rerun goes on with a destroyed file of the other state, and destroys it a second time. |
| `report` | The reloading tests have the category `ok` and are never rerun. The summary counts them as passed; `results.json` says `"passed": false`, in every run that succeeds. |

Smaller things met on the way, which no run is spent on:

- `compare_test_result_ptrs_by_name` calls any two different names greater than
  each other, so C leaves the result of `qsort` open; the merge sort of glibc
  reverses the order of insertion. The comment at `tests.c` 6462 asks for
  alphabetical keys. `Reports` takes every order.
- `run_err_spaces_test` takes any message for an error, also the sentinel
  `impl_forgot_to_set_msg` that stands for none: an implementation that accepts
  the file and leaves `error_out` alone passes.
- `json_buf` and `applied_buf` of `diff_roundtrip` keep what an earlier call wrote:
  an implementation that reports success and writes nothing passes when that was
  the same text, as it is when one ok test runs alone, in the unsafe pass.
- A test whose `compile_grug_file` returns a null pointer and sets no error has
  no file, so `rerun_ok_tests` and `rerun_err_runtime_tests` skip it, as they do a
  test that did not compile: if the implementation then takes the null file for
  one, the run succeeds without that rerun. `NullAssumption` leaves such an
  implementation out, and `SuccessIsComplete` rests on it.
- The percentage is 100 with a failure when there are 200 tests or more
  (`FullMarks`); the exit status tells. A name on the command line that no test
  has gives 0 of 0 tests and status 0.
- Only the line end at the end of an expected message is taken off: in a file
  checked out with `\r\n`, the line ends inside of a message stay and differ.
- `smoketest game_fn_error_global_scope`, that test alone: the mock has seen no
  `call_export_fn` and passes a null pointer to the handler, which copies it with
  `strcpy` (`smoketest.c` 1209).
- `generic_host_fn_call_site_generics_pair` calls `make_pair` with
  `<number, string>` and `<bool, bool>`, which differ in the first generic
  already. An implementation that tells call sites apart by function and first
  generic only, which the comment above the test says it guards against, passes.
- `cJSON_AddItemReferenceToObject` loses the reference it made when the name
  cannot be copied: `NothingLost` says which items those are.
- `cJSON.h` asks for five spare bytes for `cJSON_PrintPreallocated`; one is
  enough for every value (`OneSpareByteIsEnough`).
- `cJSON_PrintBuffered` with a first size of 0 and hooks without `realloc` copies
  one byte out of a block of none; `PrintsWithinItsBuffer` leaves that case out.
- The byte order mark is skipped only in texts of more than four bytes.
  `cJSON_Parse(NULL)` keeps the error of the call before it.
- `parse_string` looks for the end of a string by pairs that begin with a
  backslash, and `parse_hex4` reads four bytes that are no digits as the code 0.
  In `"\u000\\"` the first of the two backslashes is the fourth digit, the second
  escapes the closing quote, and the string is accepted; the text goes on behind
  that quote. `Characters` of `JsonGrammar` says so, and the run reads such texts.
- `cJSON_Minify` knows `\"` as the only escape, so that `\\"` does not end a string;
  `MinifyKeepsTheMeaning` leaves texts with it out.

One of the mistakes `RuntimeErrors` knows, `leaks_into_entities` (an error that
is over stops the next `create_entity`), is not among those that must be
rejected. An err_runtime test whose `create_entity` returns an error is recorded
as passed without `run()` and its assertions, whatever the error: the leak makes
later tests pass instead of fail, and whether it is noticed depends on the order.

**Properties that are weaker with `--continue-on-fail`.** `FileUsesAreLive`,
`NoEntityOutlivesItsFile` and `SuccessIsSound` hold with the default options only,
as the violations show. `HandlesReclaimed`, `SuccessIsComplete`,
`ReportSaysTheTable`, `RerunFollowsRecord` (proved), `WithinCapacity` and `ImplementsSession` hold with both.
`ImplementsSession` holds although `SuccessIsSound` does not, because
`TestSession` speaks of the last verdict of a test.

**Fairness.** `TestRunner` and `RuntimeErrors` assume `WF_vars(Next)`: a single
thread takes its next step as long as it has one; that a run ends is the fairness
part of `TestSession`, which `ImplementsSession` checks. This takes for granted that
the calls into the implementation return; the suite has no watchdog and assumes
it too. No other fairness is assumed, and the choices of the environment (which
call fails, which test is next) are never fair.

**Deadlock** is checked everywhere: a process that has ended stutters explicitly
(`Exited`, `Done`, `Finished`, `Ended`); but in `json_tree` and `json_text`, where the
caller of a library may stop at any time and, at the bounds, has no call left.

## The proofs

`TLAPS` checks every proof. Unlike a run, a theorem holds for every value of the
constants: any number of tests, rounds, restarts, items and characters.

**The driver**, for every suite of tests, every number of rounds, any whitelist and
any capacity (`TestRunnerProofs`):

| Theorem | Statement |
|---|---|
| `TypeCorrect` | `TypeOK`, and `ControlInv`: which step can follow in which phase, with which test |
| `HandlesAccountedFor`, `Reclaimed` | every live file is in the window between its compilation and the end of its rerun, or was compiled by a test that expected it not to; every live entity belongs to the running test or to one that failed; so `HandlesReclaimed` |
| `EveryTestRecorded`, `RerunsFollowRecords` | the tests the passes have gone through are in the table, so a rerun always finds its first record |
| `NoRerunLeftOut` | a test that has a file is yet to be rerun or has been, and none passes without a file (`RerunInv`): the silent skip of `run_*_reruns` skips no test that passed |
| `FileUsesLive`, `EntitiesDieFirst`, `SuccessSound` | with the default options, `FileUsesAreLive`, `NoEntityOutlivesItsFile` and `SuccessIsSound` |
| `Invariant` | the conjunction `Inv` |
| `TableFits` | the table is finite and `WithinCapacity` |
| `SuccessComplete` | with either option, status 0 means that every registered test is in the table with a passing result, and those of `ok` and `err_runtime` with their rerun (`SuccessIsComplete`) |
| `DriverIsASession` | `Spec => Session!Safety`: every step of the driver is a step of the abstract session or none. It is `ImplementsSession` without its fairness, which stays with TLC |

Assumptions: the arrays of tests are finite, the names in `ok` and `reloading`
are disjoint (they share a category), there is at least one round, null is no
handle (`NullAssumption`: a compilation that reports no error returns a file).
All of them are `ASSUME`d in `TestRunner`, where TLC evaluates them.

None of these properties is inductive. That a rerun
destroys a live file of its own state needs to know that the pass before it
compiled every file in this state, that the rerun has destroyed none it has yet
to reach, and that nothing failed in between. The invariant says so in layers,
each proved on top of those before it:

1. `ControlInv`: inside a body a test is current, no longer in `todo`, and `pc`
   is a step of the phase's kind. Every later layer splits on it.
2. `FileInv` and `EntityInv`: `Owed(key)` is the window in which a file must be
   destroyed some time. It opens at the compilation of the first pass, is handed
   over to the rerun phase (`RerunFollowsFirst`: every first pass is followed by
   the rerun of the same array on the same state), and closes at `DestroyFile`.
   Every live file is in its window, or belongs to a failed err test. This layer
   needs no assumption on the options.
3. `ResultInv`: what the loops have passed is in the table. `RerunInv`: and what
   has a file outside its window has been rerun.
4. `FailFastInv`: without `--continue-on-fail` a running process has seen no
   failure, and in its window a file is live and of the current state. The
   three default-option properties follow.

`SuccessComplete` looks at the one step that sets the status: there the summary
counts as many passed entries as there are entries, so all have passed
(`CountsTellAllPassed`); `ResultInv` says that all tests are entries, and
`RerunInv` that those with a file have been rerun. `DriverIsASession` takes the
same invariants, before and after each step, one action at a time.

**The shuffle** (`ShuffleProofs`), for an array of any length: it stays inside
the array (`ShuffleTypeCorrect`), is a permutation at every step
(`ShuffleKeepsTests`), leaves settled positions alone (`SettledPositionsStay`),
and favours no order (`ShuffleFavoursNoOrder`: `EveryOrderAsLikely`). For the
last, `OneMoreChoice` extends a bijection between the series of choices that
`rand() % i` has left and the orders they lead to by one iteration: position `i`
is settled by the first choice and never moved again, so it shows which choice
was made, and no two series meet in one order. That `rand() % i` is uniform is
not part of it.

**The percentage** (`TestRunnerProofs`), for any number of tests: it is the
nearest whole one (`PercentageIsNearest`), and 100 exactly when at most one test
in two hundred failed (`FullMarks`). Both rest on what division is (`Quotient`).

**The err tests** (`ErrTestsProofs`), for all texts of all files and all answers:
a round of them keeps to the specification of the shuffle (`RoundIsAShuffle`),
and no verdict depends on what an earlier test left in the static buffers, nor
on the line end of the file or the kind of its separators (`ErrVerdicts`). The
invariant is small, `expected_error` may be anything that fits (`BufferInv`);
the work is in the lemmas: what `read_file` and the trimming leave in a buffer, up
to its terminator, is a function of the file alone (`ExpectedIsOfTheFile`).
Assumed of the corpus: texts hold no zero byte, no file is a newline alone
(`ErrFilesAssumption`; there the code reads before its buffer), and none is the
sentinel that stands for no message.

**Runtime errors** (`RuntimeErrorsProofs`), for every set of implementations and
every set of err_runtime tests, in any order:

| Theorem | Statement |
|---|---|
| `TypeCorrect` | `TypeOK`: the call stack is made of well formed frames, however long it gets, and the handler reenters itself at most once |
| `HandlerIsToldTheRunningFunction` | `NamesRunningFunction`: an error names the innermost export function that has not returned |

The invariant reads the code that the frames on the stack have yet to run.
`ShapeInv` and `DataInv` are the types, with the test as the outermost frame.
The bound on the reentry needs `SwitchInv` and `DepthInv`: a test that switches
`reenter_from_error_handler` on makes one call and switches it off, so it is off
when no test runs, and `reenter_depth` is the number of frames of the handler,
which enters a second one only from depth 0. `NameInv` is about the mock, which knows the
running function by one static variable: a script that ran another function
restores `saved_on_fn_name` before it causes an error (`Careful`), and only the innermost
frame may rely on the variable. That the fourteen programs are of this form is proved
from their definitions (`ProgramFacts`, `ScriptFacts`), so a new test that breaks
it fails there.

**Hot reloading** (`ReloadingProofs`), for every set of implementations, number of
rounds and number of times a run is killed and started again:

| Theorem | Statement |
|---|---|
| `NothingLeftBehind` | `DirsRemoved`: a run that ends leaves no directory, neither its own nor that of a run killed before it |
| `CorrectAlwaysAccepted` | `CorrectAccepted`: no test ever fails the mock or a watcher that does as the tests ask |
| `FaultsAlwaysRejected` | `FaultsRejected`: a run that ends has failed every faulty watcher in each test that is there to reject it |

*The directories.* What a test has yet to do ends with `remove_dir`, also after a failed assertion, and has
it nowhere else (`ProgramInv`, `ProgramFacts`). So only tests that are left to run
have a directory (`DirInv`), one that a killed run has left included: the run that
is started again runs that test once more, which removes it.

*The verdicts.* The invariant is `RunInv`. Its core, `PlaceInv`, finds the step `k`
of the current test that `code` has come to, and says in `StepInv(k)` what the
steps before `k` have made of the files, of what the watcher has noted, of the
entities and of the game's variables: one operator per test for the watchers
(`GrugResources`), one for the mock (`MockResources`), in which a faulty watcher
differs from the right one exactly from the step on at which its mistake shows,
until the assertion that is there for it (`Rejects`). One lemma per call says what
it does to that knowledge, and one lemma per test that each of its steps leads
from `StepInv(k)` to `StepInv(k + 1)`, or fails and goes to the clean-up, which
`"grug"` and `"mock"` never do. Between tests:

- `Between`: a test finds no entity, and the mock's `update_called` is false. The
  mock's other static variables may have any value (`KindInv`), and so may the
  noted times: each test sets what it relies on.
- `LeftBehindInv`: `reset()` does not clear `game_fn_initialize_x`. The test of the
  empty file expects 1 of a call that the mistake `"empty_replaces"` leaves out, so it
  would accept the mistake had an earlier test left 1 there. None does:
  `test_code_reloading` comes first and leaves 2, no test between the two calls
  anything, and a process that runs this test alone starts with 0. This depends on the order of the tests, which is part of the invariant.
- `TargetsInv`: a test that has yet to reject the implementation is still left.

Assumed (`ReloadingAssumption`): the implementations are among those of the
module, there is at least one round, `NULL` is not the name of a test.

**The lists of cJSON** (`JsonListProofs`), for every heap with any number of
items. The list of an item is the sequence `Children`, well linked
when `next` and `prev` agree with it and the first `prev` is the last member:

| Theorem | Statement |
|---|---|
| `ItemsAreFoundByIndex` | `get_array_item` finds the member at an index, and `NULL` past the end |
| `AddAppends` | `add_item_to_array` appends |
| `DetachRemoves` | `cJSON_DetachItemViaPointer` takes out exactly the member it is given, first, last, middle or only one, and clears its links |
| `InsertInserts` | `cJSON_InsertItemInArray` inserts before the member at the index, or appends when there is none |
| `ReplaceReplaces` | `cJSON_ReplaceItemViaPointer` puts the replacement in the member's place, and nothing leads to the member that is then deleted |
| `OtherListsAreKept` | a list none of whose members was touched is what it was; each of the four others names what it touches (`OnlyTouches`) |

Each leaves the list well linked. The preconditions are those of the code: the
item is in no list that is changed, and where it is appended its `next` is `NULL`,
because `suffix_object` sets the `next` of the old last member and never that of
the new one. `get_array_item` and `Children` walk along `next` by a recursive
function; what a walk finds is proved by induction over sets of numbers, from
the well-foundedness of `<` (`LeastNumber`, `Induction`), after which each
operator is a statement about positions in a sequence (`ListByLinks`).

**The trees of cJSON** (`JsonHeapProofs`, `JsonTreeProofs`), for any number of
items, any `CIRCULAR_LIMIT`, and a failing allocation at any point of any call.
`Bounded` plays no part here: it limits what TLC explores and is no conjunct of `Spec`.

| Theorem | Statement |
|---|---|
| `HeapAlwaysStands` | the inductive invariant `HeapStands`: between calls the heap stands for `kids` and `roots` |
| `ListsAreWellLinked` | every list of the caller's is linked both ways (`ListsWellLinked`) |
| `NothingEverDangles` | nothing is freed twice, and no pointer of a live item leads to freed memory (`NothingDangles`) |
| `NothingIsEverLost` | every item can be reached from what the caller holds, except references that `cJSON_AddItemReferenceToObject` gave up; every string is owned once (`NothingLost`) |
| `FailuresChangeNothing` | a call that fails leaves all trees as they were (`FailureChangesNothing`) |
| `CallsImplementForest` | each call is one step of `JsonForest` or none (`ImplementsForest`) |
| `CopiesAreAlwaysWhole` | what `cJSON_Duplicate` gives has the shape, names and strings of the original, whatever references that led through, and is neither linked to it nor shares memory with it (`CopiesAreWhole`) |
| `DeleteKeeps` | `cJSON_Delete` of a root frees its tree, each item and string once, and nothing else |
| `DuplicateMakes` | `cJSON_Duplicate` makes a new tree of new items, or leaves the heap as it was, whatever allocation fails at whatever depth |

`ListsWellLinked` alone is not inductive. That an append leaves the other lists
alone needs that an item is in one list at most; that a deletion does needs that no
two lists have an item in common further down either, that nothing is below
itself, and that whatever a reference looks at is not below the item. `HeapInv(h, L, R, O)` says
so of a heap `h` with the lists `L` and the roots `R`, in three parts:

1. `Shape`: each list of `L` is well linked in `h`, no item is in two or is a root
   and in one, what is in none has no links, and `L` is `Acyclic` (each set of
   items has one that is in no list of the set, so no set of items holds itself).
2. `Memory`: pointers lead to live items, an item that is no reference owns
   the string it leads to, the strings are counted, and `sound` is `TRUE`.
3. `Kept`: what is in no list and no root is a reference without a name, the one
   thing that the code loses.

While a call builds a tree the list of its new item is not well linked: the `prev`
of its first member is set after the last one only. `O` holds the items of which
this is so (`IsOpen`). `Stands` is `HeapInv` without any.

The argument has three layers. First, one lemma per operator: it takes a heap with
`HeapInv` to one with `HeapInv`, for lists that it names. What makes a tree has
one form of contract, `Makes`: a new tree whose items are exactly those that
have become live (`Made`), or, when it returns `NULL`, the heap as it was
(`Undone`). So the deletion after a failed allocation is one argument for creation, arrays
and duplication: the tree so far is new, nothing leads into it, and
`DeleteKeeps` takes out exactly it. The two loops (of `CreateArrayOf` and
`DuplicateChildren`) and the recursion of `cJSON_Duplicate` are functions over
numbers; their invariants (`ArrayInv`, `DupInv`) go through by induction over
the index and the level.

Second, one lemma per call, in terms of lists and roots: its `Outcome` is one of
the changes a forest allows (`Changes`), or none, and none if it failed. Third,
one lemma per action, from which `NextIsDone` follows; the theorems read their
property off `HeapStands` and `Outcome`. That a deleted tree leaves all others
alone uses `MayFree` and `MayJoin`, the rules of the caller; a call that does not keep to
them is no step of `JsonTree`.

That a copy is whole is a second induction over the levels of `cJSON_Duplicate`,
beside the one for `Makes`. Its statement is local, so that it survives the calls that
copy the next members: `IsCopy` gives each new item the one it was made
from, and says that name, string, `next` and `child` of the new one correspond to those
of the old (the `next` of the copy itself apart). `IsPartCopy` says so in
the middle of the loop, of all but the last member so far. Only at the end is
this turned into lists, by `ItemsAreCopied` (for an item that may be a reference, whose list need not
be linked both ways, hence `ChainIsChildren`), and into the comparison of whole
trees that `SameTree` makes, by induction over the size of the tree
(`TreesAreCopied`).

Assumed (`TreeAssumption`, with `ItemsAssumption` of `JsonList`): the items
are finite in number, `NULL` is neither an item, a name nor `TRUE`, and the two bounds are numbers.

## Only model-checked

- Liveness: `FaultsRejected` of `RuntimeErrors` and the fairness part of
  `ImplementsSession`. The prover has no rule for `WF` that its backends can use.
- What is written with `RECURSIVE` operators over texts, trees and types: the
  parser, printer, comparisons and grammar of `JsonText`; `ReportSaysTheTable` on
  top of them; `game_fn_default` in `HostFunctions`. The inductions above work for
  recursive functions over numbers; these have no such form.
- `CorrectAccepted` of `RuntimeErrors`: the invariant it needs is one statement per
  position of each of fourteen programs and of the scripts and handlers they
  call, which is what TLC enumerates. The bound that is left is the set of cases.

## Not modelled

- The Python scripts that check the grammar of the corpus and the schema of
  `mod_api.json` (pure functions of the files, run by the build), CMake, and the
  corpus of `.grug` files but for the scripts of the modelled tests.
- Of the reports and messages: the wording, and failures of the file system,
  which end the process. Of a report for which memory runs out half way: the
  members that `cJSON_Add*` then leaves out (the driver does not look), and the
  printing, whose failure is an `InfrastructureFailure` of `TestRunner`.
- Of the round trip: the buffers and paths of `diff_roundtrip`, one step of
  `TestRunner`; what it compares with is `compare_nodes` of `JsonCompare`.
- Of the ok tests: those whose body is one call and one comparison (some 150).
- Of cJSON: `cJSON_InitHooks`, `cJSON_SetNumberHelper`,
  `cJSON_CreateStringReference`, the typed getters, the digits of `%1.15g` and
  `%1.17g`, and the calls on arrays of numbers beyond `CreateArrayOf`, which
  stands for all of them.

## Plan

The order follows what a wrong answer costs: first the verdict of a run, then
the tests of behaviour over time, then pure helpers.

1. Done: `TestResults`, `TestRunner`, `TestSession`, `Shuffle`, `RuntimeErrors`,
   `Reloading`, `HostFunctions`; the theorems above.
2. Done: cJSON, as the lists in memory (`JsonList`, `JsonTree`, `JsonForest`) and as
   texts (`JsonValue`, `JsonParse`, `JsonPrint`, `JsonCompare`, `JsonGrammar`, `JsonText`).
3. Done: `Reports`, `ReportedRunner` and `ErrTests`, and the theorems about the
   percentage.
4. Done: the proofs beyond the driver: the refinement of `TestSession`, the
   uniformity of the shuffle, `ErrTests`, the types and names of `RuntimeErrors`,
   the directories and the verdicts of `Reloading`, the lists of `JsonList`.
5. Done: the items in memory: the invariant of the heap, every safety property of
   `JsonTree`, and that it implements `JsonForest`.
6. A proof that is left: `CorrectAccepted` of `RuntimeErrors` for every set of
   cases.
