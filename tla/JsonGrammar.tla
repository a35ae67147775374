---------------------------- MODULE JsonGrammar ----------------------------
(***************************************************************************)
(* Which texts are JSON to cJSON, said without a parser: by what the bytes *)
(* from i to j of a text t are, with d more levels of nesting allowed.     *)
(* Every byte up to 32 is a blank; numbers are what strtod takes; a string *)
(* may hold any bytes, and hexadecimal digits of \u that are none stand    *)
(* for the code 0.  The end of a string is looked for by pairs of bytes    *)
(* that begin with a backslash, and such digits may break up the pairs:    *)
(* "\u000\\" is a string, with its closing quote as the last character.   *)
(***************************************************************************)
EXTENDS JsonParse

Blanks(t, i, j) == \A k \in i..j : t[k] <= 32

\* A quote is escaped by an odd number of backslashes before it.
Unescaped(t, i, k) ==
    LET others == {n \in i..k - 1 : t[n] # Backslash}
    IN  t[k] = Quote /\ (k - Max(others \cup {i - 1})) % 2 = 1

\* A backslash left over at the end takes the closing quote behind j: the one
\* before it, of their pair, was a digit of \u.
RECURSIVE Characters(_, _, _)
Characters(t, i, j) ==
    LET code(k) == IF k + 5 > j \/ SubSeq(t, k, k + 1) # <<Backslash, LetterU>> THEN -1
                   ELSE parse_hex4(SubSeq(t, k + 2, k + 5))
        High == 55296..56319
        Low == 56320..57343
    IN  \/ i > j
        \/ t[i] # Backslash /\ Characters(t, i + 1, j)
        \/ t[i] = Backslash /\ i = j
        \/ /\ t[i] = Backslash /\ i < j
           /\ \/ /\ t[i + 1] \in {Quote, Backslash, Slash} \cup ToSet(ControlLetters)
                 /\ Characters(t, i + 2, j)
              \/ code(i) >= 0 /\ code(i) \notin High \cup Low /\ Characters(t, i + 6, j)
              \/ code(i) \in High /\ code(i + 6) \in Low /\ Characters(t, i + 12, j)

IsString(t, i, j) ==
    /\ i < j /\ t[i] = Quote /\ Unescaped(t, i + 1, j)
    /\ \A k \in i + 1..j - 1 : ~Unescaped(t, i + 1, k)
    /\ Characters(t, i + 1, j - 1)

IsNumber(t, i, j) ==
    t[i] \in Digits \cup {Minus} /\ \A k \in i..j : t[k] \in NumberBytes
    /\ Spelled(SubSeq(t, i, j)) # NULL

RECURSIVE IsValue(_, _, _, _)

\* Bytes that are so between blanks.
Padded(t, i, j, Is_(_, _, _)) ==
    LET first == CHOOSE k \in i..j : t[k] > 32 /\ Blanks(t, i, k - 1)
        last == CHOOSE k \in i..j : t[k] > 32 /\ Blanks(t, k + 1, j)
    IN  ~Blanks(t, i, j) /\ Is_(t, first, last)

IsElement(t, i, j, d) ==
    Padded(t, i, j, LAMBDA s, a, b : IsValue(s, a, b, d))

IsMember(t, i, j, d) ==
    \E k \in i..j : t[k] = Colon /\ Padded(t, i, k - 1, IsString) /\ IsElement(t, k + 1, j, d)

RECURSIVE IsList(_, _, _, _, _)
IsList(t, i, j, named, d) ==
    LET One(a, b) == IF named THEN IsMember(t, a, b, d) ELSE IsElement(t, a, b, d)
    IN  \/ One(i, j)
        \/ \E k \in i..j : t[k] = Comma /\ One(i, k - 1) /\ IsList(t, k + 1, j, named, d)

IsValue(t, i, j, d) ==
    \/ SubSeq(t, i, j) \in {null, true, false}
    \/ IsString(t, i, j)
    \/ IsNumber(t, i, j)
    \/ /\ d > 0 /\ i < j
       /\ <<t[i], t[j]>> \in {<<OpenBracket, CloseBracket>>, <<OpenBrace, CloseBrace>>}
       /\ \/ Blanks(t, i + 1, j - 1)
          \/ IsList(t, i + 1, j - 1, t[i] = OpenBrace, d - 1)

IsText(t) == t # <<>> /\ IsElement(t, 1, Len(t), NestingLimit)

\* A value after an optional byte order mark, which counts only with two more
\* bytes after it, and any text after the value; or, if null_terminated, only
\* blanks, of which the last is a NUL.
Accepts(t, null_terminated) ==
    LET start == IF Len(t) > 4 /\ SubSeq(t, 1, 3) = BOM THEN 4 ELSE 1
        ink == {k \in start..Len(t) : t[k] > 32}
    IN  /\ ink # {}
        /\ \E j \in Min(ink)..Len(t) :
              /\ null_terminated => j < Len(t) /\ Blanks(t, j + 1, Len(t)) /\ t[Len(t)] = NUL
              /\ IsValue(t, Min(ink), j, NestingLimit)
=============================================================================
