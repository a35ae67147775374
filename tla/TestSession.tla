---------------------------- MODULE TestSession ----------------------------
(***************************************************************************)
(* What a run of the test driver promises its caller, without its phases,  *)
(* steps and handles: verdicts are reported test by test, and the exit     *)
(* status tells whether the verdict of every test is a pass.               *)
(***************************************************************************)
CONSTANTS
    Names,         \* the tests of this run
    StopAtFailure  \* no verdict but a pass is ever reported

VARIABLES verdict, exit

vars == <<verdict, exit>>

TypeOK ==
    /\ verdict \in [Names -> {"none", "passed", "failed"}]
    /\ exit \in {"running", "success", "failure"}

Init ==
    /\ verdict = [name \in Names |-> "none"]
    /\ exit = "running"

\* A test has run, for the first time or again.
Report ==
    /\ exit = "running"
    /\ \E name \in Names, v \in {"passed", "failed"} :
        /\ StopAtFailure => v = "passed"
        /\ verdict' = [verdict EXCEPT ![name] = v]
    /\ UNCHANGED exit

\* The process ends early: a failure stops it, or it cannot go on.
Abort ==
    /\ exit = "running"
    /\ exit' = "failure"
    /\ UNCHANGED verdict

\* Every test has its verdict, and the exit status sums them up.
Finish ==
    /\ exit = "running"
    /\ \A name \in Names : verdict[name] # "none"
    /\ exit' = IF \A name \in Names : verdict[name] = "passed"
               THEN "success" ELSE "failure"
    /\ UNCHANGED verdict

Next == Report \/ Abort \/ Finish

Safety == Init /\ [][Next]_vars

Spec == Safety /\ WF_vars(Abort \/ Finish)
=============================================================================
