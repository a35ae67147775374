-------------------------- MODULE MCReportedRunner --------------------------
(***************************************************************************)
(* ReportedRunner on a suite of one test for each kind of body: after a    *)
(* failure the run goes on, so every combination of outcomes is a state of *)
(* its own.  As in the corpus, tests of two categories share a name; two   *)
(* tests are recorded in one category.                                     *)
(***************************************************************************)
EXTENDS ReportedRunner

MCOneOfEach == [mod_api_schema |-> {"s"}, mod_api_semantics |-> {},
                err_spaces |-> {}, err |-> {"a"}, ok |-> {"a"},
                err_runtime |-> {"r"}, reloading |-> {"c"}]
=============================================================================
