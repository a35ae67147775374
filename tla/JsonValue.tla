----------------------------- MODULE JsonValue -----------------------------
(***************************************************************************)
(* What cJSON's parser and printer share: bytes, and items as values.      *)
(*                                                                         *)
(* A text is a sequence of bytes; Bytes("...") spells one.  An item is a   *)
(* record with the fields of struct cJSON that hold data, and its children *)
(* as the sequence child (how they are linked is the matter of JsonTree).  *)
(* string and valuestring are C strings: what comes before the first NUL.  *)
(*                                                                         *)
(* A number is <<m, e>> for m * 10^e, without zeros at the end of m; an    *)
(* infinite one has the exponent Infinite, as has one that is too large    *)
(* for a double.                                                           *)
(***************************************************************************)
EXTENDS Integers, SequencesExt, FiniteSetsExt

CONSTANTS NULL,
          NestingLimit      \* CJSON_NESTING_LIMIT

\* ASCII from 32 and from 97 on; the backquote between them is not needed.
Upper == " !\"#$%&'()*+,-./0123456789:;<=>?@ABCDEFGHIJKLMNOPQRSTUVWXYZ[\\]^_"
Lower == "abcdefghijklmnopqrstuvwxyz{|}~"
From(s, first) == [c \in {SubSeq(s, i, i) : i \in 1..Len(s)} |->
                      first + (CHOOSE i \in 1..Len(s) : SubSeq(s, i, i) = c) - 1]
ByteOf == From(Upper, 32) @@ From(Lower, 97)
Bytes(s) == [i \in 1..Len(s) |-> ByteOf[SubSeq(s, i, i)]]

NUL == 0
LineFeed == 10
Blank == 32
Quote == 34
Asterisk == 42
Plus == 43
Comma == 44
Minus == 45
Point == 46
Slash == 47
Zero == 48
Digits == 48..57
Colon == 58
OpenBracket == 91
Backslash == 92
CloseBracket == 93
LetterU == 117
OpenBrace == 123
CloseBrace == 125
ExponentSigns == {69, 101}     \* E and e
null == <<110, 117, 108, 108>>
true == <<116, 114, 117, 101>>
false == <<102, 97, 108, 115, 101>>

\* The escapes of one letter, \b \f \n \r \t: the letters and what they stand for.
ControlLetters == <<98, 102, 110, 114, 116>>
Controls == <<8, 12, 10, 13, 9>>

\* The hexadecimal digits, in both cases.
HexDigits == Digits \cup 65..70 \cup 97..102
HexValue(c) == IF c \in Digits THEN c - 48 ELSE IF c < 97 THEN c - 55 ELSE c - 87

CString(s) == LET ends == {i \in DOMAIN s : s[i] = NUL} IN
              IF ends = {} THEN s ELSE SubSeq(s, 1, Min(ends) - 1)

Item(type) == [type |-> type, string |-> NULL, valuestring |-> NULL, valuedouble |-> NULL,
               child |-> <<>>]

\* The blocks of memory cJSON_Delete gives back: the item, its name and its string.
RECURSIVE Blocks(_)
Blocks(item) ==
    1 + (IF item.string # NULL THEN 1 ELSE 0) + (IF item.valuestring # NULL THEN 1 ELSE 0)
      + FoldLeft(LAMBDA n, kid : n + Blocks(kid), 0, item.child)

Infinite == 309
DigitCount(m) == CHOOSE n \in 1..10 : m \div 10^(n - 1) \in (IF n = 1 THEN 0 ELSE 1)..9

\* m * 10^e as a double, negative or not.
Number(negative, m, e) ==
    LET zeros == IF m = 0 THEN 0 ELSE Max({k \in 0..DigitCount(m) - 1 : m % 10^k = 0})
        sign == IF negative THEN -1 ELSE 1
    IN  IF m = 0 \/ e + DigitCount(m) < -323 THEN <<0, 0>>
        ELSE IF e + DigitCount(m) > 308 THEN <<sign, Infinite>>
        ELSE <<sign * (m \div 10^zeros), e + zeros>>
=============================================================================
