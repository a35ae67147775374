-------------------------- MODULE MCRuntimeErrors --------------------------
(***************************************************************************)
(* Suites of err_runtime tests for RuntimeErrors.                          *)
(***************************************************************************)
EXTENDS RuntimeErrors

\* One test of each shape. Those left out do what one of these does: all and
\* the tests of the time limit what stack_overflow does, and
\* on_fn_method_calls_erroring_on_fn what on_fn_calls_erroring_on_fn does.
MCShapes == {"game_fn_error", "game_fn_error_in_static_method", "game_fn_error_global_scope",
             "game_fn_error_once", "on_fn_calls_erroring_on_fn",
             "on_fn_errors_after_it_calls_other_on_fn", "reentrant_error_handler",
             "reentrant_error_handler_second_error", "finished_error_does_not_leak",
             "stack_overflow"}

MCImplementations == {"mock", "grug"} \cup Faults
=============================================================================
