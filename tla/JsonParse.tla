----------------------------- MODULE JsonParse -----------------------------
(***************************************************************************)
(* cJSON's parser.  A parse buffer is the record of the code - content,    *)
(* length, offset, depth - with what the call returns (ok, and value: an   *)
(* item or a string) and the memory: fuel, how many more allocations       *)
(* succeed; live, the blocks that are allocated; sound, FALSE once a       *)
(* string was written past its block.                                      *)
(*                                                                         *)
(* content may go on past length: what lies there is memory of the caller  *)
(* that the parser must not read.                                          *)
(***************************************************************************)
EXTENDS JsonValue

Buffer(content, length, fuel) ==
    [content |-> content, length |-> length, offset |-> 0, depth |-> 0,
     ok |-> TRUE, value |-> NULL, fuel |-> fuel, live |-> 0, sound |-> TRUE]

Fail(b) == [b EXCEPT !.ok = FALSE]
Give(b, value) == [b EXCEPT !.ok = TRUE, !.value = value]
Move(b, n) == [b EXCEPT !.offset = @ + n]

allocate(b) == IF b.fuel = 0 THEN Fail(b)
               ELSE [b EXCEPT !.ok = TRUE, !.fuel = @ - 1, !.live = @ + 1]
deallocate(b) == [b EXCEPT !.live = @ - 1]

can_read(b, size) == b.offset + size <= b.length
can_access_at_index(b, i) == b.offset + i < b.length
At(b, i) == b.content[b.offset + i + 1]
Is(b, c) == can_access_at_index(b, 0) /\ At(b, 0) = c
StartsWith(b, s) == can_read(b, Len(s)) /\ \A i \in DOMAIN s : At(b, i - 1) = s[i]

\* Past the bytes up to 32; at the end of the buffer one step back.
buffer_skip_whitespace(b) ==
    LET rest == {i \in b.offset..b.length - 1 : b.content[i + 1] > 32} IN
    IF ~can_access_at_index(b, 0) THEN b
    ELSE [b EXCEPT !.offset = IF rest = {} THEN b.length - 1 ELSE Min(rest)]

BOM == <<239, 187, 191>>
skip_utf8_bom(b) ==
    IF can_access_at_index(b, 4) /\ StartsWith(b, BOM) THEN Move(b, 3) ELSE b

-----------------------------------------------------------------------------
(* Numbers *)

NumberBytes == Digits \cup ExponentSigns \cup {Plus, Minus, Point}

FromDigits(s) == FoldLeft(LAMBDA n, d : 10 * n + d - Zero, 0, s)

\* What is before and behind the first of some bytes in s.
Before(s, bytes) == LET n == SelectInSeq(s, LAMBDA c : c \in bytes)
                    IN  IF n = 0 THEN s ELSE SubSeq(s, 1, n - 1)
Beyond(s, bytes) == SubSeq(s, Len(Before(s, bytes)) + 2, Len(s))

Negative(s) == s # <<>> /\ s[1] = Minus
Unsigned(s) == IF s # <<>> /\ s[1] \in {Minus, Plus} THEN Tail(s) ELSE s

Decimal(s, whole, part, exponent) ==
    IF /\ whole \o part # <<>>
       /\ ToSet(s) \cap ExponentSigns # {} => Unsigned(exponent) # <<>>
       /\ ToSet(whole \o part \o Unsigned(exponent)) \subseteq Digits
    THEN Number(Negative(s), FromDigits(whole \o part),
                (IF Negative(exponent) THEN -1 ELSE 1) * FromDigits(Unsigned(exponent)) - Len(part))
    ELSE NULL

\* The number a text spells for the C library's strtod, or NULL.
Spelled(s) ==
    LET mantissa == Before(Unsigned(s), ExponentSigns)
        point == {Point}
    IN  Decimal(s, Before(mantissa, point), Beyond(mantissa, point), Beyond(s, ExponentSigns))

\* The longest beginning of s that spells a number, or <<>>.
strtod(s) ==
    SubSeq(s, 1, Max({0} \cup {n \in 1..Len(s) : Spelled(SubSeq(s, 1, n)) # NULL}))

NumberRead_LeaksCopy(copy, item, number) ==
    IF ~copy.ok THEN copy
    ELSE IF number = <<>> THEN Fail(copy)
    ELSE Give(Move(deallocate(copy), Len(number)),
              [item EXCEPT !.type = "Number", !.valuedouble = Spelled(number)])

NumberRead(copy, item, number) ==
    IF ~copy.ok THEN copy
    ELSE IF number = <<>> THEN Fail(deallocate(copy))
    ELSE Give(Move(deallocate(copy), Len(number)),
              [item EXCEPT !.type = "Number", !.valuedouble = Spelled(number)])

parse_number_WithoutCopy(item, b) ==
    LET others == {i \in b.offset..Len(b.content) - 1 : b.content[i + 1] \notin NumberBytes}
        string == SubSeq(b.content, b.offset + 1, Min(others \cup {Len(b.content)}))
    IN  NumberRead(allocate(b), item, strtod(string))

parse_number(item, b) ==
    LET others == {i \in b.offset..b.length - 1 : b.content[i + 1] \notin NumberBytes}
        string == SubSeq(b.content, b.offset + 1, Min(others \cup {b.length}))
    IN  NumberRead(allocate(b), item, strtod(string))

-----------------------------------------------------------------------------
(* Strings *)

parse_hex4(s) ==
    IF \E i \in 1..4 : s[i] \notin HexDigits THEN 0
    ELSE FoldLeft(LAMBDA h, c : 16 * h + HexValue(c), 0, s)

Utf8(codepoint) ==
    LET byte(k) == 128 + ((codepoint \div 64^k) % 64) IN
    IF codepoint < 128 THEN <<codepoint>>
    ELSE IF codepoint < 2048 THEN <<192 + codepoint \div 64, byte(0)>>
    ELSE IF codepoint < 65536 THEN <<224 + codepoint \div 4096, byte(1), byte(0)>>
    ELSE <<240 + codepoint \div 262144, byte(2), byte(1), byte(0)>>

\* The escape at i (0-based, as end is) of a string that ends at end: how many
\* bytes it takes, 0 for an invalid one, and the bytes it stands for.
utf16_literal_to_utf8(content, i, end) ==
    LET first == parse_hex4(SubSeq(content, i + 3, i + 6))
        second == parse_hex4(SubSeq(content, i + 9, i + 12))
        invalid == [length |-> 0, bytes |-> <<>>]
    IN  IF end - i < 6 THEN invalid
        ELSE IF first \in 56320..57343 THEN invalid
        ELSE IF first \notin 55296..56319 THEN [length |-> 6, bytes |-> Utf8(first)]
        ELSE IF \/ end - (i + 6) < 6
                \/ SubSeq(content, i + 7, i + 8) # <<Backslash, LetterU>>
                \/ second \notin 56320..57343
        THEN invalid
        ELSE [length |-> 12, bytes |-> Utf8(65536 + (first % 1024) * 1024 + (second % 1024))]

\* The closing quote from i on and the backslashes before it, or NULL.
RECURSIVE FindEnd(_, _, _)
FindEnd(b, i, skipped) ==
    IF i >= b.length THEN NULL
    ELSE IF b.content[i + 1] = Quote THEN [at |-> i, skipped |-> skipped]
    ELSE IF b.content[i + 1] # Backslash THEN FindEnd(b, i + 1, skipped)
    ELSE IF i + 1 >= b.length THEN NULL
    ELSE FindEnd(b, i + 2, skipped + 1)

EscapeAt(content, i, end) ==
    LET letter == content[i + 2] IN
    IF letter \in ToSet(ControlLetters)
    THEN [length |-> 2, bytes |-> <<Controls[SelectInSeq(ControlLetters, LAMBDA l : l = letter)]>>]
    ELSE IF letter \in {Quote, Backslash, Slash} THEN [length |-> 2, bytes |-> <<letter>>]
    ELSE IF letter = LetterU THEN utf16_literal_to_utf8(content, i, end)
    ELSE [length |-> 0, bytes |-> <<>>]

RECURSIVE Unescape(_, _, _, _)
Past(escape, content, i, end, output) ==
    IF escape.length = 0 THEN [at |-> i, output |-> output]
    ELSE Unescape(content, i + escape.length, end, output \o escape.bytes)

\* The bytes from i to end without escapes; at an invalid one it stops.
Unescape(content, i, end, output) ==
    IF i >= end THEN [at |-> i, output |-> output]
    ELSE IF content[i + 1] = Backslash
    THEN Past(EscapeAt(content, i, end), content, i, end, output)
    ELSE Unescape(content, i + 1, end, Append(output, content[i + 1]))

\* The block has room for what is between the quotes, but for the backslashes.
Written(block, end, string) ==
    [block EXCEPT !.sound =
        @ /\ Len(string.output) + 1 <= end.at - block.offset - end.skipped + 1]

\* The last escape may run past the closing quote: the text goes on behind it.
StringRead(block, end, string) ==
    LET ReadTo(offset) == [Written(block, end, string) EXCEPT !.offset = offset]
    IN  IF ~block.ok THEN Move(block, 1)
        ELSE IF string.at < end.at THEN Fail(deallocate(ReadTo(string.at)))
        ELSE Give(ReadTo(end.at + 1), CString(string.output))

StringUpTo(end, b) ==
    IF At(b, 0) # Quote \/ end = NULL THEN Fail(Move(b, 1))
    ELSE StringRead(allocate(b), end, Unescape(b.content, b.offset + 1, end.at, <<>>))

\* The string at the offset, as value.  A failure leaves the offset where it
\* was found, except that of the search for the end: there on the first byte.
parse_string(b) == StringUpTo(FindEnd(b, b.offset + 1, 0), b)

-----------------------------------------------------------------------------
(* Values *)

cJSON_New_Item(b) ==
    LET a == allocate(b) IN IF a.ok THEN Give(a, Item("Invalid")) ELSE a

\* cJSON_Delete of the items parsed so far, when a later one fails.
Discard(b, items) ==
    Fail([b EXCEPT !.live = @ - FoldLeft(LAMBDA n, item : n + Blocks(item), 0, items)])

RECURSIVE parse_value(_, _), Elements(_, _), Members(_, _)

Literal(b, item, type, s) == Give(Move(b, Len(s)), [item EXCEPT !.type = type])

StringItem(string, item) ==
    IF ~string.ok THEN string
    ELSE Give(string, [item EXCEPT !.type = "String", !.valuestring = string.value])

Close(b, item, type, items) ==
    Give([b EXCEPT !.depth = @ - 1, !.offset = @ + 1], [item EXCEPT !.type = type, !.child = items])

\* parse_array and parse_object up to their loops: FALSE in ok ends the call,
\* value NULL asks for the loop, which begins one byte before the first member.
Inside(b, item, type, close) ==
    IF Is(b, close) THEN Close(b, item, type, <<>>)
    ELSE IF ~can_access_at_index(b, 0) THEN Fail(Move(b, -1))
    ELSE Give(Move(b, -1), NULL)

Open_AnyDepth(b, item, type, close) ==
    Inside(buffer_skip_whitespace([b EXCEPT !.depth = @ + 1, !.offset = @ + 1]), item, type, close)

Open(b, item, type, close) ==
    IF b.depth >= NestingLimit THEN Fail(b)
    ELSE Inside(buffer_skip_whitespace([b EXCEPT !.depth = @ + 1, !.offset = @ + 1]),
                item, type, close)

Closed(b, item, type) == IF b.ok THEN Close(b, item, type, b.value) ELSE b

\* The next iteration of the loop of parse_array or of parse_object.
Again(b, items, close) ==
    IF close = CloseBracket THEN Elements(b, items) ELSE Members(b, items)

\* After a member and blanks: a comma and the next member, or the end.
After(b, items, close) ==
    IF Is(b, Comma) THEN Again(b, items, close)
    ELSE IF Is(b, close) THEN Give(b, items)
    ELSE Discard(b, items)

\* What is parsed for one member, a value into item, ends the list or goes in it.
Member(b, item, items, close) ==
    IF ~b.ok THEN Discard(b, Append(items, item))
    ELSE After(buffer_skip_whitespace(b), Append(items, b.value), close)

\* The value behind the byte at the offset: a bracket, a comma or a colon.
Value(b, item, items, close) ==
    Member(parse_value(buffer_skip_whitespace(Move(b, 1)), item), item, items, close)

Element(new, items) ==
    IF ~new.ok THEN Discard(new, items) ELSE Value(new, new.value, items, CloseBracket)

Elements(b, items) == Element(cJSON_New_Item(b), items)

AtColon(b, item, items) ==
    IF ~Is(b, Colon) THEN Discard(b, Append(items, item))
    ELSE Value(b, item, items, CloseBrace)

Named(name, item, items) ==
    IF ~name.ok THEN Discard(name, Append(items, item))
    ELSE AtColon(buffer_skip_whitespace(name), [item EXCEPT !.string = name.value], items)

NewMember(new, items) ==
    IF ~new.ok THEN Discard(new, items)
    ELSE IF ~can_access_at_index(new, 1) THEN Discard(new, Append(items, new.value))
    ELSE Named(parse_string(buffer_skip_whitespace(Move(new, 1))), new.value, items)

Members(b, items) == NewMember(cJSON_New_Item(b), items)

ArrayLoop(open, item) ==
    IF ~open.ok \/ open.value # NULL THEN open ELSE Closed(Elements(open, <<>>), item, "Array")
parse_array(b, item) == ArrayLoop(Open(b, item, "Array", CloseBracket), item)

ObjectLoop(open, item) ==
    IF ~open.ok \/ open.value # NULL THEN open ELSE Closed(Members(open, <<>>), item, "Object")
parse_object(b, item) == ObjectLoop(Open(b, item, "Object", CloseBrace), item)

\* The value at the offset, into an item that may have a name.
parse_value(b, item) ==
    IF StartsWith(b, null) THEN Literal(b, item, "NULL", null)
    ELSE IF StartsWith(b, false) THEN Literal(b, item, "False", false)
    ELSE IF StartsWith(b, true) THEN Literal(b, item, "True", true)
    ELSE IF Is(b, Quote) THEN StringItem(parse_string(b), item)
    ELSE IF Is(b, Minus) \/ \E d \in Digits : Is(b, d) THEN parse_number(item, b)
    ELSE IF Is(b, OpenBracket) THEN parse_array(b, item)
    ELSE IF Is(b, OpenBrace) THEN parse_object(b, item)
    ELSE Fail(b)

-----------------------------------------------------------------------------
(* The calls: item is NULL for a failure; end is what return_parse_end is  *)
(* set to, and after a failure what cJSON_GetErrorPtr returns, 0-based.    *)

Success(b) == [item |-> b.value, live |-> b.live, sound |-> b.sound, end |-> b.offset]

Failure_WithoutPosition(b) ==
    [item |-> NULL, live |-> b.live, sound |-> b.sound, end |-> 0]

Failure(b) ==
    [item |-> NULL, live |-> b.live, sound |-> b.sound,
     end |-> IF b.offset < b.length THEN b.offset ELSE Max({b.length - 1, 0})]

Terminated(b) == IF Is(b, NUL) THEN Success(b) ELSE Failure(Discard(b, <<b.value>>))

Parsed(b, item, require_null_terminated) ==
    IF ~b.ok THEN Failure(Discard(b, <<item>>))
    ELSE IF require_null_terminated THEN Terminated(buffer_skip_whitespace(b))
    ELSE Success(b)

Begin(new, require_null_terminated) ==
    IF ~new.ok THEN Failure(new)
    ELSE Parsed(parse_value(buffer_skip_whitespace(skip_utf8_bom(new)), new.value),
                new.value, require_null_terminated)

cJSON_ParseWithLengthOpts(value, buffer_length, require_null_terminated, fuel) ==
    LET buffer == Buffer(value, buffer_length, fuel) IN
    IF buffer_length = 0 THEN Failure(buffer)
    ELSE Begin(cJSON_New_Item(buffer), require_null_terminated)

\* For a C string: its terminator is part of the buffer.
cJSON_ParseWithOpts(value, require_null_terminated, fuel) ==
    LET string == Append(CString(value), NUL)
    IN  cJSON_ParseWithLengthOpts(string, Len(string), require_null_terminated, fuel)
=============================================================================
