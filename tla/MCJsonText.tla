---------------------------- MODULE MCJsonText -----------------------------
(***************************************************************************)
(* The texts for model checking JsonText.  All texts of up to MaxPieces    *)
(* plain pieces that the parser does not refuse before their end, so every *)
(* shape of small arrays and objects and every place for them to break     *)
(* off; in texts of up to MaxRarePieces, one piece of another kind, and    *)
(* that piece in each of Contexts; and arrays of each two of Values, for   *)
(* the comparisons.                                                        *)
(***************************************************************************)
EXTENDS JsonText

MCPieces == All({"{", "}", "[", "]", ",", ":", "1", "\"a\""})

\* Blanks, numbers, literals, and strings: escapes, surrogates, broken ones.
MCRare ==
    {<<NUL>>, <<1>>, <<10>>, BOM, <<Quote, 1, 9, Quote>>}
    \cup All({" ", "/", "-", "-.5", "01", "1.50", "1e", "1e999", "-1e9", "15e-9", "1-1", "0",
              "null", "true", "false", "nul", "\"\"", "\"A\"", "\"", "\"\\",
              "\"\\\"\"", "\"\\\\\"", "\"\\n/\"", "\"\\x\"", "\"\\u0041\"", "\"\\u00e9\"",
              "\"\\u20AC\"", "\"\\ud83d\\ude00\"", "\"\\ud83d\\u0041\"", "\"\\ud83d\"",
              "\"\\ude00\"", "\"\\u00\"", "\"\\ud83d\\ude", "\"\\uzzzz\"", "\"\\u000\\\\\"",
              "\"\\u000\\\\n\"", "\"\\u000\\\\x\"", "\"\\u000\\\"\"", "\"a\\u0000b\""})

Values ==
    <<"1", "1.5", "1e999", "null", "true", "false", "\"a\"", "\"A\"", "[]", "[1]", "[1,1]", "{}",
     "{\"a\":1}", "{\"A\":1}", "{\"a\":2}", "{\"a\":1,\"A\":1}", "{\"A\":1,\"a\":1}",
     "{\"a\":1,\"A\":2}", "{\"a\":1,\"a\":1}", "{\"a\":1,\"b\":1}", "{\"a\":2,\"a\":1}">>
Contexts ==
    {<<"[1,", "]">>, <<"[1", ",1]">>, <<"[", "[1]]">>, <<"{", ":1}">>, <<"{\"a\"", ":1}">>,
     <<"{\"a\":", "}">>, <<"{\"a\":1", "}">>, <<"{\"a\":1,", "}">>}
Pairs == {<<i, j>> \in (1..Len(Values)) \X (1..Len(Values)) : i <= j}
MCDocuments ==
    {Bytes("[" \o Values[p[1]] \o " , " \o Values[p[2]] \o "]") : p \in Pairs}
    \cup {Bytes(c[1]) \o r \o Bytes(c[2]) : c \in Contexts, r \in MCRare}
    \cup All({"[\"\\\\\", \"a b\"]", "{\"a\\\"\": [ \"b c\" ] }"})

MCTails == All({"1,1,1,1,1,1,1", "]]]]]]]]]]]]]", "\"\"\"\"\"\"\"\"\"\"\"\"\"", ":1,\"a\":[1]}}}}"})

MCStrings == All({"", "a", "[1, 2]", "\"\\\""})
=============================================================================
