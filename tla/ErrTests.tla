------------------------------ MODULE ErrTests ------------------------------
(***************************************************************************)
(* A round of the err tests: their array is shuffled, and run_err_tests    *)
(* runs them in that order for the safe and for the unsafe state, each     *)
(* with its message compared with that of a file.  The implementation      *)
(* answers as it likes.                                                    *)
(*                                                                         *)
(* The files are read into one static buffer, so that a test finds there   *)
(* what the tests before it left.  A text is a sequence of characters.     *)
(* A round that a failing test ends early is the beginning of one of these.*)
(***************************************************************************)
EXTENDS Shuffle, Sequences

CONSTANTS Characters,    \* those of a text
          NULL,
          Untouched,     \* the answer that leaves msg as it was
          Messages,      \* what an implementation may say of an error
          ErrFiles       \* test -> the bytes of its expected_error.txt

\* Of a file that is a newline alone, get_expected_error would read the byte
\* before its buffer; the corpus has none.
ASSUME ErrFilesAssumption ==
    /\ DOMAIN ErrFiles = 1..N
    /\ \A test \in 1..N : ErrFiles[test] # <<"\n">>

Seqs == INSTANCE SequencesExt

NUL == "NUL"

\* The files of the corpus and the error messages of the implementation are
\* texts of C: none of their characters is the one that ends them.
ASSUME TextAssumption ==
    /\ NUL \notin Characters
    /\ \A test \in 1..N : ErrFiles[test] \in Seq(Characters)
    /\ \A msg \in Messages : msg \in Seq(Characters)
    /\ NULL \notin Messages /\ Untouched \notin Messages

VARIABLES
    expected_error,    \* the static buffer, from its first byte on
    ran,               \* how many tests of the round have run, of 2 * N
    last               \* the test that ran last: its number, the answer, whether it passed

errVars == <<expected_error, ran, last>>

CString(buffer) == IF NUL \in Seqs!ToSet(buffer)
                   THEN SubSeq(buffer, 1, Seqs!SelectInSeq(buffer, LAMBDA c : c = NUL) - 1)
                   ELSE buffer

Overwrite(buffer, bytes) == bytes \o SubSeq(buffer, Len(bytes) + 1, Len(buffer))

read_file_WithoutNul(buffer, content) == Overwrite(buffer, content)

\* The bytes of a file, a NUL, and the rest of what the buffer held; of an empty
\* file, all of it.
read_file(buffer, content) ==
    IF content = <<>> THEN buffer ELSE Overwrite(buffer, Append(content, NUL))

\* The buffer after the line end at the end of a file, if there is one, is cut off.
get_expected_error(buffer, len) ==
    LET end == IF buffer[len - 1] = "\r" THEN len - 1 ELSE len
    IN  IF len = 0 THEN buffer
        ELSE IF buffer[len] = "\n" THEN [buffer EXCEPT ![end] = NUL] ELSE buffer

Separators == {"\\", "/"}

streq_normalized(a, b) ==
    /\ Len(a) = Len(b)
    /\ \A k \in DOMAIN a : a[k] = b[k] \/ {a[k], b[k]} \subseteq Separators

impl_forgot_to_set_msg == <<"forgot">>

\* compile_grug_file answers first, and is not called again if msg is NULL.
test_error(test, answer) ==
    LET content == ErrFiles[test]
        buffer == get_expected_error(read_file(expected_error, content), Len(content))
        expected == IF content = <<>> THEN <<>> ELSE CString(buffer)
        msg == IF answer = Untouched THEN impl_forgot_to_set_msg ELSE answer
    IN  /\ expected_error' = buffer
        /\ last' = [test |-> test, answer |-> answer,
                    passed |-> msg # NULL /\ streq_normalized(msg, expected)]

-----------------------------------------------------------------------------
ErrInit == Init /\ expected_error = <<>> /\ ran = 0 /\ last = NULL

ShuffleStep == Step /\ UNCHANGED errVars

\* The loop over the array, twice: for grug_state and for unsafe_grug_state.
run_err_tests ==
    /\ i = 0 /\ ran < 2 * N
    /\ ran' = ran + 1
    /\ \E answer \in Messages \cup {NULL, Untouched} : test_error(arr[(ran % N) + 1], answer)
    /\ UNCHANGED vars

RoundDone == ran = 2 * N /\ UNCHANGED <<vars, errVars>>

ErrNext == ShuffleStep \/ run_err_tests \/ RoundDone

ErrSpec == ErrInit /\ [][ErrNext]_<<vars, errVars>>

-----------------------------------------------------------------------------
Trimmed(content) ==
    CASE Seqs!IsSuffix(<<"\r", "\n">>, content) -> SubSeq(content, 1, Len(content) - 2)
      [] ~Seqs!IsSuffix(<<"\r", "\n">>, content) /\ Seqs!IsSuffix(<<"\n">>, content) -> Seqs!Front(content)
      [] OTHER -> content

OneSeparator(text) == [k \in DOMAIN text |-> IF text[k] \in Separators THEN "/" ELSE text[k]]

\* No file of the corpus expects the message that stands for none.
ASSUME ForgottenAssumption ==
    \A test \in 1..N : Trimmed(ErrFiles[test]) # impl_forgot_to_set_msg

\* Whether a test passes depends on the message it is given and on its own file
\* only, in whichever order the shuffle has put the tests and whatever they left
\* in the buffer: but for the line end of the file and the kind of separators in
\* it, the two are the same.
ErrVerdictIsOfTheTest ==
    last # NULL =>
        (last.passed <=> /\ last.answer \in Messages
                         /\ OneSeparator(last.answer) = OneSeparator(Trimmed(ErrFiles[last.test])))
=============================================================================
