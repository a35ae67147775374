--------------------------- MODULE MCTestRunner ---------------------------
(***************************************************************************)
(* TestRunner on a small suite: one test in each array, two where the      *)
(* order of the tests of one phase can matter.                             *)
(***************************************************************************)
EXTENDS TestRunnerInvariant

CONSTANTS s1, m1, sp1, e1, o1, o2, r1, c1

MCTests == [mod_api_schema |-> {s1}, mod_api_semantics |-> {m1},
            err_spaces |-> {sp1}, err |-> {e1}, ok |-> {o1, o2},
            err_runtime |-> {r1}, reloading |-> {c1}]

\* Two ok tests alone, to interleave the failures of one with the other.
MCTwoOk == [mod_api_schema |-> {}, mod_api_semantics |-> {},
            err_spaces |-> {}, err |-> {}, ok |-> {o1, o2},
            err_runtime |-> {}, reloading |-> {}]
=============================================================================
