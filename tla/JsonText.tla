----------------------------- MODULE JsonText ------------------------------
(***************************************************************************)
(* A caller of cJSON with one buffer of text and one tree: it writes a     *)
(* text piece by piece, parses it, changes the tree, prints it into the    *)
(* buffer, and starts again.                                               *)
(***************************************************************************)
EXTENDS JsonGrammar, JsonPrint, JsonCompare

CONSTANTS Pieces, Rare,     \* what texts are built of; at most one of Rare in each
          Documents,        \* whole texts
          Tails,            \* what may lie in memory after a text
          Strings,          \* the values a string is set to
          MaxPieces, MaxRarePieces, MaxFuel

VARIABLES
    typed,           \* the pieces of the text in the buffer
    tree,            \* the item the caller holds, or NULL
    room,            \* the size of the block of its valuestring, 0 if there is none
    global_error     \* the position of the last error, or NULL

vars == <<typed, tree, room, global_error>>

Text == FlattenSeq(typed)
All(texts) == {Bytes(s) : s \in texts}

-----------------------------------------------------------------------------
(* cJSON_Minify, which writes over its text.                               *)

ByteAt(s, i) == IF i \in DOMAIN s THEN s[i] ELSE NUL

\* Behind the first place from i on where the bytes of end are, or the text's end.
Behind(s, i, end) ==
    LET places == {k \in i..Len(s) - Len(end) + 1 : SubSeq(s, k, k + Len(end) - 1) = end}
    IN  IF places = {} THEN Len(s) + 1 ELSE Min(places) + Len(end)

\* Behind the string whose bytes begin at i: \" is the only escape it knows.
RECURSIVE minify_string(_, _)
minify_string_AnyQuote(s, i) ==
    IF i > Len(s) THEN i ELSE IF s[i] = Quote THEN i + 1 ELSE minify_string(s, i + 1)

minify_string(s, i) ==
    IF i > Len(s) THEN i
    ELSE IF s[i] = Quote THEN i + 1
    ELSE IF s[i] = Backslash /\ ByteAt(s, i + 1) = Quote THEN minify_string(s, i + 2)
    ELSE minify_string(s, i + 1)

RECURSIVE MinifyFrom(_, _)
MinifyFrom(s, i) ==
    LET c == ByteAt(s, i)
        end == minify_string(s, i + 1)
    IN  IF i > Len(s) THEN <<>>
        ELSE IF c \in {32, 9, 13, 10} THEN MinifyFrom(s, i + 1)
        ELSE IF c = Slash
        THEN MinifyFrom(s, IF ByteAt(s, i + 1) = c THEN Behind(s, i + 2, <<LineFeed>>)
                           ELSE IF ByteAt(s, i + 1) = Asterisk THEN Behind(s, i + 2, <<Asterisk, Slash>>)
                           ELSE i + 1)
        ELSE IF c = Quote THEN SubSeq(s, i, end - 1) \o MinifyFrom(s, end)
        ELSE <<c>> \o MinifyFrom(s, i + 1)

cJSON_Minify(json) == MinifyFrom(CString(json), 1)

-----------------------------------------------------------------------------
(* The calls *)

Parse(require, fuel) == cJSON_ParseWithOpts(Text, require, fuel)
ParseExactly(t, length, require, fuel) == cJSON_ParseWithLengthOpts(t, length, require, fuel)

\* A text is typed on while its end, not its content, makes the parser fail,
\* and at most one piece beyond a value.
MayGoOn ==
    LET MayGrow(r) == r.end + 1 >= Len(Text) /\ (r.item = NULL \/ r.end = Len(Text))
    IN  typed = <<>> \/ MayGrow(ParseExactly(Text, Len(Text), FALSE, MaxFuel))

Type ==
    /\ tree = NULL /\ global_error = NULL /\ Len(typed) < MaxPieces /\ MayGoOn
    /\ \A k \in DOMAIN typed : typed[k] \in Pieces \cup Rare
    /\ \/ \E piece \in Pieces :
             /\ (\E k \in DOMAIN typed : typed[k] \in Rare) => Len(typed) < MaxRarePieces
             /\ typed' = Append(typed, piece)
       \/ /\ Len(typed) < MaxRarePieces /\ \A k \in DOMAIN typed : typed[k] \notin Rare
          /\ \E piece \in Rare : typed' = Append(typed, piece)
       \/ typed = <<>> /\ \E document \in Documents : typed' = <<document>>
    /\ UNCHANGED <<tree, room, global_error>>

RoomOf(item) == IF item = NULL THEN 0
                ELSE IF item.valuestring = NULL THEN 0 ELSE Len(item.valuestring) + 1

Become(r) ==
    /\ tree' = r.item
    /\ room' = RoomOf(r.item)
    /\ global_error' = (IF r.item = NULL THEN r.end ELSE NULL)
    /\ typed' = <<>>

\* The tree held before is deleted first.
ParseText ==
    /\ typed # <<>>
    /\ \/ \E require \in BOOLEAN, fuel \in {0, MaxFuel} : Become(Parse(require, fuel))
       \/ \E require \in BOOLEAN : Become(ParseExactly(Text, Len(Text), require, MaxFuel))

\* NULL for a text: cJSON_ParseWithLength resets the error, cJSON_Parse does not.
ParseNothing ==
    /\ tree = NULL /\ typed = <<>>
    /\ global_error' \in {NULL, global_error}
    /\ UNCHANGED <<typed, tree, room>>

PrintTree ==
    /\ tree # NULL /\ typed = <<>>
    /\ \E format \in BOOLEAN :
          \E text \in {print(tree, format, TRUE, MaxFuel).text} \ {NULL} : typed' = <<text>>
    /\ UNCHANGED <<tree, room, global_error>>

Minify ==
    /\ tree = NULL /\ typed # <<>>
    /\ typed' = <<cJSON_Minify(Text)>>
    /\ UNCHANGED <<tree, room, global_error>>

CreateRaw ==
    /\ tree = NULL /\ typed = <<>>
    /\ \E s \in Strings : tree' = [Item("Raw") EXCEPT !.valuestring = s]
    /\ room' = RoomOf(tree')
    /\ UNCHANGED <<typed, global_error>>

\* Also into an object, where the new item has no name.
AddItemToArray ==
    /\ tree # NULL /\ typed = <<>>
    /\ tree.type \in {"Array", "Object"} /\ Len(tree.child) < 2
    /\ tree' = [tree EXCEPT !.child = Append(@, Item("True"))]
    /\ UNCHANGED <<typed, room, global_error>>

Fits_WithoutNul(s, old) == Len(s) <= Len(old) + 1

\* Whether s is copied over the string old, in the block that is there.
Fits(s, old) == Len(s) <= Len(old)

\* The string may lie in the one it replaces, which is refused.
SetValuestring ==
    /\ tree # NULL /\ typed = <<>> /\ tree.type = "String"
    /\ \E s \in Strings :
          \/ /\ tree' = [tree EXCEPT !.valuestring = s]
             /\ room' = IF Fits(s, tree.valuestring) THEN room ELSE Len(s) + 1
          \/ UNCHANGED <<tree, room>>
    /\ UNCHANGED <<typed, global_error>>

Init ==
    /\ typed = <<>> /\ tree = NULL /\ room = 0 /\ global_error = NULL

Next ==
    \/ Type \/ ParseText \/ ParseNothing \/ PrintTree \/ Minify
    \/ CreateRaw \/ AddItemToArray \/ SetValuestring

Spec == Init /\ [][Next]_vars

-----------------------------------------------------------------------------
(* What the properties compare with *)


\* The text of an item, without a buffer.
RECURSIVE Rendered(_, _, _)
Rendered(item, format, depth) ==
    LET space == IF format THEN <<Blank>> ELSE <<>>
        tab == IF format THEN Tabs(1) ELSE <<>>
        line(d) == IF format THEN <<LineFeed>> \o Tabs(d) ELSE <<>>
        String(s) == <<Quote>> \o FlattenSeq([k \in DOMAIN s |-> Escape(s[k])]) \o <<Quote>>
        Name(kid) == String(IF kid.string = NULL THEN <<>> ELSE kid.string) \o <<Colon>> \o tab
        Kid(k) == Rendered(item.child[k], format, depth + 1)
        Joined(parts, separator) ==
            FlattenSeq([k \in DOMAIN parts |->
                           parts[k] \o (IF k < Len(parts) THEN separator ELSE <<>>)])
    IN  CASE item.type \in {"NULL", "True", "False"} ->
               [NULL |-> null, True |-> true, False |-> false][item.type]
          [] item.type = "Number" -> Spelling(item.valuedouble)
          [] item.type = "String" -> String(item.valuestring)
          [] item.type = "Raw" -> item.valuestring
          [] item.type = "Array" ->
               <<OpenBracket>> \o Joined([k \in DOMAIN item.child |-> Kid(k)], <<Comma>> \o space)
               \o <<CloseBracket>>
          [] item.type = "Object" ->
               <<OpenBrace>>
               \o Joined([k \in DOMAIN item.child |->
                             line(depth + 1) \o Name(item.child[k]) \o Kid(k)], <<Comma>>)
               \o line(depth) \o <<CloseBrace>>

RECURSIVE Some(_, _, _)
\* Whether some item of a tree has a type and number as given.
Some(item, types, number) ==
    \/ item.type \in types /\ (item.type = "Number" => item.valuedouble[2] = number)
    \/ \E k \in DOMAIN item.child : Some(item.child[k], types, number)

HasInfinite(item) == Some(item, {"Number"}, Infinite)

\* What is printed for an item without a name in an object is the empty name.
RECURSIVE WithNames(_)
WithNames(item) ==
    [item EXCEPT !.child =
        [k \in DOMAIN @ |-> IF item.type = "Object" /\ @[k].string = NULL
                            THEN WithNames([@[k] EXCEPT !.string = <<>>]) ELSE WithNames(@[k])]]

Fold(name, case_sensitive) ==
    IF case_sensitive THEN name ELSE [k \in DOMAIN name |-> tolower(name[k])]

Names(item, cs) == {Fold(item.child[k].string, cs) : k \in DOMAIN item.child}

RECURSIVE UniqueNames(_, _), Meaning(_, _)
UniqueNames(item, cs) ==
    /\ item.type = "Object" => Cardinality(Names(item, cs)) = Len(item.child)
    /\ \A k \in DOMAIN item.child : UniqueNames(item.child[k], cs)

\* A value without the order of names in objects; for trees with unique names.
Meaning(item, cs) ==
    <<item.type,
      CASE item.type = "Number" -> item.valuedouble
        [] item.type = "String" -> item.valuestring
        [] item.type = "Array" -> [k \in DOMAIN item.child |-> Meaning(item.child[k], cs)]
        [] item.type = "Object" ->
             [n \in Names(item, cs) |->
                Meaning(item.child[CHOOSE k \in DOMAIN item.child :
                                       Fold(item.child[k].string, cs) = n], cs)]
        [] OTHER -> <<>>>>

\* How a text may go on that breaks off inside a value.
Endings ==
    {a \o b : a \in All({"", "1", "\"", "\":1", ":1", "\"\"", "\"\":1"}),
              b \in UNION {[1..n -> {CloseBracket, CloseBrace}] : n \in 0..NestingLimit}}
CanGoOn(t) == \E ending \in Endings : IsText(t \o ending)

-----------------------------------------------------------------------------
(* Properties *)

\* Among the types: a string never outgrows its block, however often it is set.
TypeOK ==
    /\ typed \in Seq(Seq(0..255)) /\ global_error \in Nat \cup {NULL}
    /\ tree # NULL => tree.type \in {"NULL", "True", "False", "Number", "String", "Raw",
                                     "Array", "Object"}
    /\ room \in Nat /\ RoomOf(tree) <= room

\* The parser takes the texts of the grammar, and no others, whatever follows
\* them in memory.
AcceptsTheGrammar ==
    typed # <<>> =>
        \A require \in BOOLEAN, t \in {Text, Append(CString(Text), NUL)} :
            {ParseExactly(t \o tail, Len(t), require, MaxFuel).item # NULL : tail \in Tails}
                = {Accepts(t, require)}

\* A value is read for what it says, whatever lies behind the text: a text of
\* plain pieces and blanks prints as it was typed, but for the blanks.
ReadsWhatIsSaid ==
    ToSet(typed) \subseteq Pieces \cup {<<Blank>>} =>
        \A tail \in Tails :
            \A r \in {ParseExactly(Text \o tail, Len(Text), FALSE, MaxFuel)} :
                r.item # NULL =>
                    /\ r.end <= Len(Text)
                    /\ Rendered(r.item, FALSE, 0)
                          = SelectSeq(SubSeq(Text, 1, r.end), LAMBDA c : c # Blank)

\* Whichever allocation fails, a parse that fails leaves nothing allocated,
\* one that succeeds the tree, and each string fits the block it was given.
ParseFreesWhatItDrops ==
    LET Clean(r) == r.sound /\ r.live = IF r.item = NULL THEN 0 ELSE Blocks(r.item)
        results == {Parse(FALSE, fuel) : fuel \in 0..MaxFuel}
    IN  typed # <<>> => /\ \A r \in results : Clean(r)
                        /\ Cardinality({r.item : r \in results} \ {NULL}) <= 1

\* The error is where the text goes wrong: what is before it, but for the byte
\* taken for the quote of a name, is the beginning of a JSON text, and what is
\* before the second byte after it is not.
ErrorIsAtTheFault ==
    LET AtFault(r) ==
            /\ r.end < Len(Text) \/ r.item # NULL
            /\ r.item = NULL =>
                  \/ CanGoOn(SubSeq(Text, 1, r.end)) \/ CanGoOn(SubSeq(Text, 1, r.end - 1))
                  \/ r.end + 1 = Len(Text) /\ CanGoOn(Text)
            /\ r.item = NULL /\ ~CanGoOn(Text)
                  => ~CanGoOn(SubSeq(Text, 1, Min({r.end + 2, Len(Text)})))
    IN  Text # <<>> => AtFault(ParseExactly(Text, Len(Text), FALSE, MaxFuel))

\* What is printed of a tree, in both formats, is parsed to the tree again;
\* not so with raw text, and infinite numbers, which are printed as null.
PrintedIsParsed ==
    (tree # NULL /\ ~HasInfinite(tree) /\ ~Some(tree, {"Raw"}, 0)) =>
        \A format \in BOOLEAN :
            cJSON_ParseWithOpts(Rendered(tree, format, 0), TRUE, MaxFuel).item = WithNames(tree)

\* Whatever size the buffer begins with and whichever allocation fails, the
\* printer writes in its block, prints the same text or none, and leaves one
\* block for the text.  (Of no bytes and without realloc, one is copied.)
PrintsWithinItsBuffer ==
    tree # NULL =>
        \A format \in BOOLEAN : \A text \in {Rendered(tree, format, 0)} :
            LET Right(p) == p.sound /\ <<p.text, p.live>> \in {<<text, 1>>, <<NULL, 0>>} IN
            \A realloc \in BOOLEAN, fuel \in 0..4 :
                /\ Right(print(tree, format, realloc, fuel))
                /\ \A prebuffer \in (IF realloc THEN 0 ELSE 1)..3 :
                      Right(cJSON_PrintBuffered(tree, prebuffer, format, realloc, fuel))

\* Memory for the text, its NUL and one byte more is enough, and needed.
OneSpareByteIsEnough ==
    tree # NULL =>
        \A format \in BOOLEAN : \A text \in {Rendered(tree, format, 0)} :
            LET enough == Len(text) + 2
                Given(length) == cJSON_PrintPreallocated(tree, length, format)
                Full(p, fits) == p.sound /\ p.text = IF fits THEN text ELSE NULL
            IN  /\ (print(tree, format, TRUE, MaxFuel).text # NULL) = (enough <= INT_MAX)
                /\ \A length \in 0..enough + 1 : Full(Given(length), enough <= length)

\* Minifying keeps what a text means, unless a string has an escaped backslash
\* before a quote, leaves nothing to minify, and drops comments.
MinifyKeepsTheMeaning ==
    LET escaped == <<Backslash, Backslash, Quote>>
        comments == {Bytes("/*\"*/"), Bytes("//\"") \o <<LineFeed>>}
        Kept(small, item) ==
            /\ cJSON_ParseWithOpts(small, TRUE, MaxFuel).item = item
            /\ cJSON_Minify(small) = small
            /\ ToSet(typed) \subseteq Pieces =>
                  \A k \in 0..Len(typed), c \in comments :
                     cJSON_Minify(FlattenSeq(InsertAt(typed, k + 1, c))) = small
    IN  (typed # <<>> /\ ~\E k \in 1..Len(Text) - 2 : SubSeq(Text, k, k + 2) = escaped) =>
            \A item \in {Parse(TRUE, MaxFuel).item} \ {NULL} : Kept(cJSON_Minify(Text), item)

\* Values are equal to cJSON_Compare if they mean the same, with names that
\* are unique and numbers that are finite.
ComparesMeaning ==
    (tree # NULL /\ ~HasInfinite(tree) /\ ~Some(tree, {"Raw"}, 0)) =>
        \A i, j \in DOMAIN tree.child, cs \in BOOLEAN :
            LET a == tree.child[i]  b == tree.child[j] IN
            (WithNames(a) = a /\ WithNames(b) = b /\ UniqueNames(a, cs) /\ UniqueNames(b, cs))
                => cJSON_Compare(a, b, cs) = (Meaning(a, cs) = Meaning(b, cs))

\* A test passes only if the JSON an implementation generates means what the
\* expected file means, in which names are unique.
GeneratedIsExpected ==
    (tree # NULL /\ ~Some(tree, {"Raw"}, 0)) =>
        \A i, j \in DOMAIN tree.child :
            LET exp == tree.child[i]  act == tree.child[j] IN
            (WithNames(exp) = exp /\ WithNames(act) = act /\ UniqueNames(exp, TRUE))
                => compare_nodes(exp, act)
                     = (UniqueNames(act, TRUE) /\ Meaning(exp, TRUE) = Meaning(act, TRUE))
=============================================================================
