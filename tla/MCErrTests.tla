----------------------------- MODULE MCErrTests -----------------------------
(***************************************************************************)
(* Five tests: their files end in each kind of line end and in none, one   *)
(* is empty, and one is the beginning of another.                          *)
(***************************************************************************)
EXTENDS ErrTests

MCCharacters == {"a", "b", "/", "\\", "\r", "\n"}

MCMessages == {<<>>, <<"a">>, <<"a", "\n", "b">>, <<"a", "\\", "b">>, <<"\n">>}

MCErrFiles == << <<>>, <<"a">>, <<"a", "/", "b", "\n">>,
                 <<"a", "\n", "b", "\r", "\n">>, <<"\r", "\n">> >>
=============================================================================
