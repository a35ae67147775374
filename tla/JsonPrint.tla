----------------------------- MODULE JsonPrint -----------------------------
(***************************************************************************)
(* cJSON's printer.  A print buffer is the record of the code - length,    *)
(* offset, depth, noalloc, format - with text, the bytes before the first  *)
(* NUL of what is written; block, FALSE once the buffer is freed; ok, what *)
(* the last call returned; and the memory: fuel and live as for the        *)
(* parser, and sound, FALSE once bytes outside of the block were touched.  *)
(*                                                                         *)
(* A failure ends every call it is made from, so operators leave a buffer  *)
(* that is not ok as it is.                                                *)
(***************************************************************************)
EXTENDS JsonValue

CONSTANTS INT_MAX,
          default_buffer_size

PrintBuffer(length, format, noalloc, realloc, fuel) ==
    [text |-> <<>>, length |-> length, offset |-> 0, depth |-> 0,
     noalloc |-> noalloc, format |-> format, realloc |-> realloc,
     block |-> TRUE, ok |-> TRUE, fuel |-> fuel, live |-> 1, sound |-> TRUE]

Refuse(p) == [p EXCEPT !.ok = FALSE]

Grow_KeepsBlock(p, newsize) ==
    IF p.fuel = 0 THEN [p EXCEPT !.ok = FALSE, !.block = FALSE, !.length = 0]
    ELSE [p EXCEPT !.fuel = @ - 1, !.length = newsize,
                   !.sound = @ /\ (p.realloc \/ p.offset + 1 <= p.length)]

\* realloc, or where the hooks have none a new block and a copy of offset + 1
\* bytes.  On failure the old block is freed and the buffer set to NULL.
Grow(p, newsize) ==
    IF p.fuel = 0
    THEN [p EXCEPT !.ok = FALSE, !.block = FALSE, !.length = 0, !.live = @ - 1]
    ELSE [p EXCEPT !.fuel = @ - 1, !.length = newsize,
                   !.sound = @ /\ (p.realloc \/ p.offset + 1 <= p.length)]

ensure_WithoutSpare(p, needed) ==
    LET total == p.offset + needed IN
    IF ~p.block \/ (p.length > 0 /\ p.offset >= p.length) \/ needed > INT_MAX THEN Refuse(p)
    ELSE IF total <= p.length THEN p
    ELSE IF p.noalloc \/ total > INT_MAX THEN Refuse(p)
    ELSE Grow(p, IF total > INT_MAX \div 2 THEN INT_MAX ELSE 2 * total)

ensure(p, needed) ==
    LET total == p.offset + needed + 1 IN
    IF ~p.block \/ (p.length > 0 /\ p.offset >= p.length) \/ needed > INT_MAX THEN Refuse(p)
    ELSE IF total <= p.length THEN p
    ELSE IF p.noalloc \/ total > INT_MAX THEN Refuse(p)
    ELSE Grow(p, IF total > INT_MAX \div 2 THEN INT_MAX ELSE 2 * total)

\* After ensure(p, needed), bytes and as many NULs are written at the offset.
Write(p, needed, bytes, nuls) ==
    LET On(q) == IF ~q.ok THEN q
                 ELSE [q EXCEPT !.text = SubSeq(@, 1, q.offset) \o bytes,
                                !.sound = @ /\ q.offset + Len(bytes) + nuls <= q.length]
    IN  IF ~p.ok THEN p ELSE On(ensure(p, needed))

\* A value, with its NUL in the room it asks for.
WriteValue(p, bytes) == Write(p, Len(bytes) + 1, bytes, 1)

update_offset(p) == IF p.ok THEN [p EXCEPT !.offset = Len(p.text)] ELSE p
Advance(p, n) == IF p.ok THEN [p EXCEPT !.offset = @ + n] ELSE p
Nest(p, n) == IF p.ok THEN [p EXCEPT !.depth = @ + n] ELSE p

\* Bytes, a NUL after them, and the offset moved past them.
WriteOn(p, needed, bytes, nuls) == Advance(Write(p, needed, bytes, nuls), Len(bytes))

-----------------------------------------------------------------------------
(* Scalars *)

RECURSIVE ToDigits(_)
ToDigits(n) == (IF n < 10 THEN <<>> ELSE ToDigits(n \div 10)) \o <<Zero + (n % 10)>>

Zeros(n) == [i \in 1..n |-> Zero]

Fixed(digits, e, x) ==
    IF e >= 0 THEN digits \o Zeros(e)
    ELSE IF x < 0 THEN <<Zero, Point>> \o Zeros(-x - 1) \o digits
    ELSE SubSeq(digits, 1, x + 1) \o <<Point>> \o SubSeq(digits, x + 2, Len(digits))

Scientific(digits, x, sign) ==
    SubSeq(digits, 1, 1) \o (IF Len(digits) > 1 THEN <<Point>> \o Tail(digits) ELSE <<>>)
    \o <<101, sign>> \o (IF x < 10 THEN Zeros(1) ELSE <<>>) \o ToDigits(x)

Magnitude(digits, e) ==
    LET x == Len(digits) - 1 + e IN
    IF x \in -4..14 THEN Fixed(digits, e, x)
    ELSE IF x < 0 THEN Scientific(digits, -x, Minus)
    ELSE Scientific(digits, x, Plus)

\* %d and %1.15g spell integers of up to 15 digits alike; numbers that need
\* 17 digits are not modelled.  An infinite number is printed as null.
Spelling(number) ==
    IF number[2] = Infinite THEN null
    ELSE IF number[1] < 0 THEN <<Minus>> \o Magnitude(ToDigits(-number[1]), number[2])
    ELSE Magnitude(ToDigits(number[1]), number[2])

print_number(item, p) == WriteValue(p, Spelling(item.valuedouble))

Escape_QuotesOnly(c) == IF c = Quote THEN <<Backslash, c>> ELSE <<c>>

Escape(c) ==
    LET HexDigit(n) == IF n < 10 THEN 48 + n ELSE 87 + n IN
    IF c \in {Quote, Backslash} THEN <<Backslash, c>>
    ELSE IF c \in ToSet(Controls) THEN <<Backslash, ControlLetters[SelectInSeq(Controls, LAMBDA d : d = c)]>>
    ELSE IF c < 32 THEN <<Backslash, LetterU, Zero, Zero, HexDigit(c \div 16), HexDigit(c % 16)>>
    ELSE <<c>>

\* The room is counted before the bytes are written, with what each escape adds.
EscapeCharacters(c) ==
    IF c \in {Quote, Backslash} \cup ToSet(Controls) THEN 1 ELSE IF c < 32 THEN 5 ELSE 0

print_string_ptr(input, p) ==
    LET s == IF input = NULL THEN <<>> ELSE input
        output_length == FoldLeft(LAMBDA n, c : n + 1 + EscapeCharacters(c), 0, s)
    IN  Write(p, output_length + 3,
              <<Quote>> \o FoldLeft(LAMBDA t, c : t \o Escape(c), <<>>, s) \o <<Quote>>, 1)

-----------------------------------------------------------------------------
(* Values: the closing bracket, like every value, is written at the offset *)
(* and the offset moved past it by update_offset of the caller.            *)

RECURSIVE print_value(_, _)

Tabs(n) == [i \in 1..n |-> 9]
LineEnd(p) == IF p.format THEN <<10>> ELSE <<>>

print_array(item, p) ==
    LET separator == IF p.format THEN <<Comma, Blank>> ELSE <<Comma>>
        Separated(q, k) == IF k = Len(item.child) THEN q
                           ELSE WriteOn(q, Len(separator) + 1, separator, 1)
        Element(q, k) == Separated(update_offset(print_value(item.child[k], q)), k)
        opened == Nest(WriteOn(p, 1, <<OpenBracket>>, 0), 1)
    IN  IF p.depth >= NestingLimit THEN Refuse(p)
        ELSE Nest(Write(FoldLeftDomain(Element, opened, item.child), 2, <<CloseBracket>>, 1), -1)

print_object(item, p) ==
    LET open == <<OpenBrace>> \o LineEnd(p)
        colon == IF p.format THEN <<Colon, 9>> ELSE <<Colon>>
        Indented(q) == IF q.format THEN WriteOn(q, q.depth, Tabs(q.depth), 0) ELSE q
        Name(q, k) == update_offset(print_string_ptr(item.child[k].string, Indented(q)))
        Value(q, k) == update_offset(print_value(item.child[k], WriteOn(q, Len(colon), colon, 0)))
        End(k) == (IF k = Len(item.child) THEN <<>> ELSE <<Comma>>) \o LineEnd(p)
        Member(q, k) == WriteOn(Value(Name(q, k), k), Len(End(k)) + 1, End(k), 1)
        Ending(q) == IF q.format THEN Write(q, q.depth + 1, Tabs(q.depth - 1) \o <<CloseBrace>>, 1)
                     ELSE Write(q, 2, <<CloseBrace>>, 1)
        opened == Nest(WriteOn(p, Len(open) + 1, open, 0), 1)
    IN  IF p.depth >= NestingLimit THEN Refuse(p)
        ELSE Nest(Ending(FoldLeftDomain(Member, opened, item.child)), -1)

print_value(item, p) ==
    IF ~p.ok THEN p
    ELSE CASE item.type = "NULL" -> WriteValue(p, null)
           [] item.type = "False" -> WriteValue(p, false)
           [] item.type = "True" -> WriteValue(p, true)
           [] item.type = "Number" -> print_number(item, p)
           [] item.type = "Raw" ->
                IF item.valuestring = NULL THEN Refuse(p) ELSE WriteValue(p, item.valuestring)
           [] item.type = "String" -> print_string_ptr(item.valuestring, p)
           [] item.type = "Array" -> print_array(item, p)
           [] item.type = "Object" -> print_object(item, p)
           [] OTHER -> Refuse(p)

-----------------------------------------------------------------------------
(* The calls: the text, or NULL for a failure, the blocks still allocated  *)
(* and whether memory was respected.                                       *)

Printed(p) == [text |-> p.text, live |-> p.live, sound |-> p.sound]
NotPrinted(p) == [text |-> NULL, live |-> IF p.block THEN p.live - 1 ELSE p.live,
                  sound |-> p.sound]
NoBuffer == [text |-> NULL, live |-> 0, sound |-> TRUE]

\* cJSON_Print and cJSON_PrintUnformatted: at the end the block is cut to size.
print(item, format, realloc, fuel) ==
    LET Cut(p) == IF ~p.ok \/ p.fuel = 0 THEN NotPrinted(p)
                  ELSE Printed([p EXCEPT !.text = SubSeq(@, 1, p.offset)])
    IN  IF fuel = 0 THEN NoBuffer
        ELSE Cut(update_offset(print_value(item,
                     PrintBuffer(default_buffer_size, format, FALSE, realloc, fuel - 1))))

cJSON_PrintBuffered(item, prebuffer, format, realloc, fuel) ==
    LET Return(p) == IF p.ok THEN Printed(p) ELSE NotPrinted(p)
    IN  IF fuel = 0 THEN NoBuffer
        ELSE Return(print_value(item, PrintBuffer(prebuffer, format, FALSE, realloc, fuel - 1)))

\* Into the caller's block, which is not freed.
cJSON_PrintPreallocated(item, length, format) ==
    LET Return(p) == IF p.ok THEN Printed(p) ELSE [Printed(p) EXCEPT !.text = NULL]
    IN  Return(print_value(item, PrintBuffer(length, format, TRUE, FALSE, 0)))
=============================================================================
