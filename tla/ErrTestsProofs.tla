--------------------------- MODULE ErrTestsProofs ---------------------------
(***************************************************************************)
(* The verdict of an err test depends on its message and its file only,    *)
(* for every number of tests, every corpus and whatever the implementation *)
(* says. What has to be shown is that the static buffer the files are read *)
(* into never lets one test see what another has left.                     *)
(***************************************************************************)
EXTENDS ErrTests, ShuffleProofs

Buffers == Seq(Characters \cup {NUL})

---------------------------------------------------------------------------
(* Facts about texts. *)

\* A suffix, position by position.
LEMMA SuffixFacts ==
  ASSUME NEW S, NEW s \in Seq(S), NEW t \in Seq(S)
  PROVE  Seqs!IsSuffix(s, t) <=>
            /\ Len(s) <= Len(t)
            /\ \A k \in 1..Len(s) : s[k] = t[Len(t) - Len(s) + k]
<1> DEFINE rs == Seqs!Reverse(s)
           rt == Seqs!Reverse(t)
<1>1. /\ rs \in Seq(S) /\ Len(rs) = Len(s)
      /\ \A k \in 1..Len(s) : rs[k] = s[Len(s) - k + 1]
      /\ rt \in Seq(S) /\ Len(rt) = Len(t)
      /\ \A k \in 1..Len(t) : rt[k] = t[Len(t) - k + 1]
  BY DEF Seqs!Reverse
<1> HIDE DEF rs, rt
<1>2. Len(s) <= Len(t) =>
        (SubSeq(rs, 1, Len(rs)) = SubSeq(rt, 1, Len(rs)) <=> \A k \in 1..Len(s) : rs[k] = rt[k])
  BY <1>1
<1>3. Len(s) <= Len(t) =>
        ((\A k \in 1..Len(s) : rs[k] = rt[k])
           <=> \A k \in 1..Len(s) : s[k] = t[Len(t) - Len(s) + k])
  <2> SUFFICES ASSUME Len(s) <= Len(t)
               PROVE  (\A k \in 1..Len(s) : rs[k] = rt[k])
                        <=> \A k \in 1..Len(s) : s[k] = t[Len(t) - Len(s) + k]
    OBVIOUS
  <2>2. ASSUME NEW k \in 1..Len(s)
        PROVE  rs[k] = rt[k] <=> s[Len(s) - k + 1] = t[Len(t) - Len(s) + (Len(s) - k + 1)]
    <3>1. k \in 1..Len(t) /\ Len(t) - k + 1 = Len(t) - Len(s) + (Len(s) - k + 1)
      OBVIOUS
    <3> QED BY <1>1, <3>1
  <2>3. ASSUME \A k \in 1..Len(s) : rs[k] = rt[k], NEW j \in 1..Len(s)
        PROVE  s[j] = t[Len(t) - Len(s) + j]
    <3> DEFINE k == Len(s) - j + 1
    <3>1. k \in 1..Len(s) /\ Len(s) - k + 1 = j /\ Len(t) - k + 1 = Len(t) - Len(s) + j
          /\ k \in 1..Len(t)
      OBVIOUS
    <3> HIDE DEF k
    <3> QED BY <1>1, <2>3, <3>1
  <2>4. ASSUME \A j \in 1..Len(s) : s[j] = t[Len(t) - Len(s) + j], NEW k \in 1..Len(s)
        PROVE  rs[k] = rt[k]
    <3>1. Len(s) - k + 1 \in 1..Len(s)
      OBVIOUS
    <3> QED BY <2>2, <2>4, <3>1
  <2> QED BY <2>3, <2>4
<1>4. Seqs!IsSuffix(s, t)
        <=> Len(rs) <= Len(rt) /\ SubSeq(rs, 1, Len(rs)) = SubSeq(rt, 1, Len(rs))
  BY DEF Seqs!IsSuffix, Seqs!IsPrefix, rs, rt
<1> QED BY <1>1, <1>2, <1>3, <1>4

\* The reference: a file without its line end.
LEMMA TrimmedFacts ==
  ASSUME NEW content \in Seq(Characters)
  PROVE  LET n == Len(content)
             newline == n >= 1 /\ content[n] = "\n"
             return  == n >= 2 /\ content[n - 1] = "\r"
         IN  Trimmed(content) = IF newline /\ return THEN SubSeq(content, 1, n - 2)
                                ELSE IF newline THEN SubSeq(content, 1, n - 1)
                                ELSE content
<1> DEFINE n == Len(content)
           S == Characters \cup {"\r", "\n"}
<1>1. content \in Seq(S) /\ n \in Nat /\ <<"\r", "\n">> \in Seq(S) /\ <<"\n">> \in Seq(S)
  OBVIOUS
<1> HIDE DEF S
<1>2. Seqs!IsSuffix(<<"\n">>, content) <=> n >= 1 /\ content[n] = "\n"
  <2>1. Seqs!IsSuffix(<<"\n">>, content) <=>
          /\ Len(<<"\n">>) <= n
          /\ \A k \in 1..Len(<<"\n">>) : <<"\n">>[k] = content[n - Len(<<"\n">>) + k]
    BY <1>1, SuffixFacts
  <2>2. Len(<<"\n">>) = 1 /\ <<"\n">>[1] = "\n" /\ n - 1 + 1 = n
    BY <1>1
  <2> HIDE DEF n
  <2> QED BY <1>1, <2>1, <2>2
<1>3. Seqs!IsSuffix(<<"\r", "\n">>, content)
        <=> n >= 2 /\ content[n] = "\n" /\ content[n - 1] = "\r"
  <2> DEFINE end == <<"\r", "\n">>
  <2>1. Seqs!IsSuffix(end, content) <=>
          Len(end) <= n /\ \A k \in 1..Len(end) : end[k] = content[n - Len(end) + k]
    BY <1>1, SuffixFacts
  <2>2. /\ Len(end) = 2 /\ end[1] = "\r" /\ end[2] = "\n"
        /\ n - 2 + 1 = n - 1 /\ n - 2 + 2 = n
        /\ 1..2 = {1, 2}
    BY <1>1
  <2> HIDE DEF n, end
  <2>3. Seqs!IsSuffix(end, content) <=> n >= 2 /\ content[n] = "\n" /\ content[n - 1] = "\r"
    BY <1>1, <2>1, <2>2
  <2> QED BY <2>3 DEF end
<1> QED BY <1>1, <1>2, <1>3 DEF Trimmed, Seqs!Front

\* A C string ends before the first NUL of its buffer.
LEMMA CStringFacts ==
  ASSUME NEW buffer \in Buffers, NEW m \in 1..Len(buffer),
         buffer[m] = NUL, \A k \in 1..(m - 1) : buffer[k] # NUL
  PROVE  CString(buffer) = SubSeq(buffer, 1, m - 1)
<1> DEFINE I == {k \in 1..Len(buffer) : buffer[k] = NUL}
<1>1. NUL \in Seqs!ToSet(buffer)
  BY DEF Seqs!ToSet, Buffers
<1>2. Seqs!SelectInSeq(buffer, LAMBDA c : c = NUL)
        = IF I # {} THEN CHOOSE x \in I : \A y \in I : x =< y ELSE 0
  BY DEF Seqs!SelectInSeq, Seqs!Min
<1>3. m \in I /\ \A y \in I : m =< y
  BY DEF Buffers
<1>4. Seqs!SelectInSeq(buffer, LAMBDA c : c = NUL) = m
  <2>1. \A x \in I : (\A y \in I : x =< y) => x = m
    BY <1>3
  <2> HIDE DEF I
  <2> QED BY <1>2, <1>3, <2>1
<1> QED BY <1>1, <1>4 DEF CString

---------------------------------------------------------------------------
(* The buffer. *)

\* Whatever the buffer held, a file that is not empty is at its start, and is
\* followed by a NUL.
LEMMA ReadFileFacts ==
  ASSUME NEW buffer \in Buffers, NEW content \in Seq(Characters), content # <<>>
  PROVE  LET n == Len(content)
             new == read_file(buffer, content)
         IN  /\ n \in Nat \ {0}
             /\ new \in Buffers
             /\ Len(new) >= n + 1
             /\ \A k \in 1..n : new[k] = content[k]
             /\ new[n + 1] = NUL
<1> DEFINE n == Len(content)
           bytes == Append(content, NUL)
           rest == SubSeq(buffer, Len(bytes) + 1, Len(buffer))
<1>1. n \in Nat \ {0} /\ content \in Buffers
  BY DEF Buffers
<1>2. /\ bytes \in Buffers /\ Len(bytes) = n + 1
      /\ \A k \in 1..n : bytes[k] = content[k]
      /\ bytes[n + 1] = NUL
  BY <1>1 DEF Buffers
<1>3. rest \in Buffers
  BY <1>1, <1>2 DEF Buffers
<1>4. read_file(buffer, content) = bytes \o rest
  BY DEF read_file, Overwrite
<1> HIDE DEF bytes, rest
<1>5. /\ bytes \o rest \in Buffers /\ Len(bytes \o rest) >= n + 1
      /\ \A k \in 1..(n + 1) : (bytes \o rest)[k] = bytes[k]
  BY <1>1, <1>2, <1>3 DEF Buffers
<1> QED BY <1>1, <1>2, <1>4, <1>5

\* The string a test compares its message with is its own file without the
\* line end, whatever the tests before it have left in the buffer.
LEMMA ExpectedIsOfTheFile ==
  ASSUME NEW old \in Buffers, NEW content \in Seq(Characters), content # <<"\n">>
  PROVE  LET buffer == get_expected_error(read_file(old, content), Len(content))
         IN  /\ buffer \in Buffers
             /\ (IF content = <<>> THEN <<>> ELSE CString(buffer)) = Trimmed(content)
<1> DEFINE n == Len(content)
           read == read_file(old, content)
           buffer == get_expected_error(read, n)
<1> SUFFICES /\ buffer \in Buffers
             /\ (IF content = <<>> THEN <<>> ELSE CString(buffer)) = Trimmed(content)
  OBVIOUS
<1>1. CASE content = <<>>
  <2>1. read = old /\ buffer = old /\ n = 0
    BY <1>1 DEF read_file, get_expected_error
  <2>2. Trimmed(content) = content
    <3>1. ~(n >= 1)
      BY <2>1
    <3> QED BY <3>1, TrimmedFacts
  <2> QED BY <1>1, <2>1, <2>2
<1>2. CASE content # <<>>
  <2>1. /\ n \in Nat \ {0} /\ read \in Buffers /\ Len(read) >= n + 1
        /\ \A k \in 1..n : read[k] = content[k]
        /\ read[n + 1] = NUL
    BY <1>2, ReadFileFacts
  <2>2. \A k \in 1..n : content[k] # NUL
    BY <2>1, TextAssumption
  <2> HIDE DEF read
  \* Cutting the buffer off at a position leaves the file up to there.
  <2>3. ASSUME NEW m \in 1..n, NEW cut, cut = [read EXCEPT ![m] = NUL]
        PROVE  cut \in Buffers /\ CString(cut) = SubSeq(content, 1, m - 1)
    <3>1. /\ cut \in Buffers /\ Len(cut) = Len(read) /\ m \in 1..Len(cut)
          /\ cut[m] = NUL
          /\ \A k \in 1..(m - 1) : cut[k] = content[k]
      BY <2>1, <2>3 DEF Buffers
    <3>2. CString(cut) = SubSeq(cut, 1, m - 1)
      <4>1. \A k \in 1..(m - 1) : cut[k] # NUL
        BY <2>1, <2>2, <3>1
      <4> QED BY <3>1, <4>1, CStringFacts
    <3>3. SubSeq(cut, 1, m - 1) = SubSeq(content, 1, m - 1)
      BY <2>1, <3>1 DEF Buffers
    <3> QED BY <3>1, <3>2, <3>3
  <2>4. CASE content[n] # "\n"
    <3>1. buffer = read
      BY <2>1, <2>4 DEF get_expected_error
    <3>2. CString(read) = SubSeq(read, 1, n)
      <4>1. n + 1 \in 1..Len(read) /\ (n + 1) - 1 = n
        BY <2>1 DEF Buffers
      <4>2. \A k \in 1..((n + 1) - 1) : read[k] # NUL
        BY <2>1, <2>2, <4>1
      <4> QED BY <2>1, <4>1, <4>2, CStringFacts
    <3>3. SubSeq(read, 1, n) = content
      BY <2>1 DEF Buffers
    <3>4. Trimmed(content) = content
      BY <2>4, TrimmedFacts
    <3> QED BY <1>2, <2>1, <3>1, <3>2, <3>3, <3>4
  <2>5. CASE content[n] = "\n"
    <3>1. n >= 2 /\ n - 1 \in 1..n
      <4>1. n = 1 => content = <<content[1]>>
        OBVIOUS
      <4>2. n # 1
        BY <2>5, <4>1
      <4> HIDE DEF n
      <4> QED BY <2>1, <4>2
    <3> DEFINE end == IF content[n - 1] = "\r" THEN n - 1 ELSE n
    <3>2. buffer = [read EXCEPT ![end] = NUL] /\ end \in 1..n
      <4>1. read[n] = content[n] /\ read[n - 1] = content[n - 1] /\ n # 0
        BY <2>1, <3>1
      <4> QED BY <2>1, <2>5, <3>1, <4>1 DEF get_expected_error
    <3>3. buffer \in Buffers /\ CString(buffer) = SubSeq(content, 1, end - 1)
      BY <2>3, <3>2
    <3>4. Trimmed(content) = SubSeq(content, 1, end - 1)
      BY <2>1, <2>5, <3>1, TrimmedFacts
    <3> QED BY <1>2, <3>3, <3>4
  <2> QED BY <2>4, <2>5
<1> QED BY <1>1, <1>2

\* streq_normalized is equality but for the kind of the separators.
LEMMA NormalizedFacts ==
  ASSUME NEW a \in Seq(Characters), NEW b \in Seq(Characters)
  PROVE  streq_normalized(a, b) <=> OneSeparator(a) = OneSeparator(b)
<1> DEFINE One(c) == IF c \in Separators THEN "/" ELSE c
<1>1. \A c, d : (c = d \/ {c, d} \subseteq Separators) <=> One(c) = One(d)
  BY DEF Separators
<1>2. OneSeparator(a) = [k \in DOMAIN a |-> One(a[k])]
      /\ OneSeparator(b) = [k \in DOMAIN b |-> One(b[k])]
  BY DEF OneSeparator
<1> HIDE DEF One
<1>3. /\ DOMAIN a = 1..Len(a) /\ DOMAIN b = 1..Len(b)
      /\ Len(a) \in Nat /\ Len(b) \in Nat
  OBVIOUS
<1>4. DOMAIN a = DOMAIN b => Len(a) = Len(b)
  <2>1. \A x, y \in Nat : 1..x = 1..y => x <= y
    <3> SUFFICES ASSUME NEW x \in Nat, NEW y \in Nat, 1..x = 1..y, x > y
                 PROVE  FALSE
      OBVIOUS
    <3>1. x \in 1..x /\ x \notin 1..y
      OBVIOUS
    <3> QED BY <3>1
  <2>2. 1..Len(a) = 1..Len(b) => Len(a) <= Len(b) /\ Len(b) <= Len(a)
    BY <1>3, <2>1
  <2> DEFINE la == Len(a)
             lb == Len(b)
  <2>3. la <= lb /\ lb <= la => la = lb
    <3> HIDE DEF la, lb
    <3>1. la \in Nat /\ lb \in Nat
      BY <1>3 DEF la, lb
    <3> QED BY <3>1
  <2> QED BY <1>3, <2>2, <2>3
<1>5. ASSUME streq_normalized(a, b)
      PROVE  OneSeparator(a) = OneSeparator(b)
  <2>1. DOMAIN a = DOMAIN b
    BY <1>3, <1>5 DEF streq_normalized
  <2>2. \A k \in DOMAIN a : One(a[k]) = One(b[k])
    BY <1>1, <1>5 DEF streq_normalized
  <2> QED BY <1>2, <2>1, <2>2
<1>6. ASSUME OneSeparator(a) = OneSeparator(b)
      PROVE  streq_normalized(a, b)
  <2>1. DOMAIN a = DOMAIN b
    <3>1. DOMAIN OneSeparator(a) = DOMAIN a /\ DOMAIN OneSeparator(b) = DOMAIN b
      BY <1>2
    <3> QED BY <1>6, <3>1
  <2>2. ASSUME NEW k \in DOMAIN a
        PROVE  One(a[k]) = One(b[k])
    <3>1. OneSeparator(a)[k] = One(a[k]) /\ OneSeparator(b)[k] = One(b[k])
      BY <1>2, <2>1
    <3> QED BY <1>6, <3>1
  <2> QED BY <1>1, <1>4, <2>1, <2>2 DEF streq_normalized
<1> QED BY <1>5, <1>6

---------------------------------------------------------------------------
(* The round. *)

\* A round of the err tests shuffles their array as Shuffle does, and leaves
\* it alone while they run.
THEOREM RoundIsAShuffle == ErrSpec => Spec
<1>1. ErrInit => Init
  BY DEF ErrInit
<1>2. [ErrNext]_<<vars, errVars>> => [Next]_vars
  BY DEF ErrNext, ShuffleStep, run_err_tests, RoundDone, Next
<1> QED BY <1>1, <1>2, PTL DEF ErrSpec, Spec

BufferInv == expected_error \in Buffers /\ ran \in 0..(2 * N)

\* The test that runs next is one of the registered ones.
LEMMA NextTestExists ==
  ASSUME TypeOK, ran \in Nat, ran < 2 * N
  PROVE  arr[(ran % N) + 1] \in 1..N
<1>1. N \in Nat \ {0}
  BY NAssumption
<1>2. (ran % N) + 1 \in 1..N
  BY <1>1
<1> QED BY <1>2 DEF TypeOK

\* One test: its verdict is that of its message and its file, and the buffer
\* it leaves is one a later test can do with.
LEMMA TestFacts ==
  ASSUME expected_error \in Buffers, NEW test \in 1..N,
         NEW answer \in Messages \cup {NULL, Untouched}, test_error(test, answer)
  PROVE  expected_error' \in Buffers /\ ErrVerdictIsOfTheTest'
<1> DEFINE content == ErrFiles[test]
           buffer == get_expected_error(read_file(expected_error, content), Len(content))
           expected == IF content = <<>> THEN <<>> ELSE CString(buffer)
           msg == IF answer = Untouched THEN impl_forgot_to_set_msg ELSE answer
           verdict == msg # NULL /\ streq_normalized(msg, expected)
<1>1. content \in Seq(Characters) /\ content # <<"\n">>
  <2> HIDE DEF buffer, expected, msg, verdict
  <2> QED BY ErrFilesAssumption, TextAssumption
<1>2. buffer \in Buffers /\ expected = Trimmed(content)
  BY <1>1, ExpectedIsOfTheFile
<1>3. expected \in Seq(Characters) /\ expected # impl_forgot_to_set_msg
  <2>1. Trimmed(content) \in Seq(Characters)
    BY <1>1, TrimmedFacts, SMTT(60)
  <2>2. Trimmed(content) # impl_forgot_to_set_msg
    BY ForgottenAssumption
  <2> HIDE DEF content, expected
  <2> QED BY <1>2, <2>1, <2>2
<1>4. /\ expected_error' = buffer
      /\ last' = [test |-> test, answer |-> answer, passed |-> verdict]
  BY DEF test_error
<1> HIDE DEF buffer, expected
<1>5. CASE answer \in Messages
  <2>1. msg = answer /\ msg # NULL /\ msg \in Seq(Characters)
    BY <1>5, TextAssumption
  <2>2. verdict <=> OneSeparator(answer) = OneSeparator(expected)
    BY <1>3, <2>1, NormalizedFacts
  <2> QED BY <1>2, <1>4, <1>5, <2>2 DEF ErrVerdictIsOfTheTest
<1>6. CASE answer \notin Messages
  <2>1. ~verdict
    <3>1. msg = NULL \/ msg = impl_forgot_to_set_msg
      BY <1>6
    <3>2. ~streq_normalized(impl_forgot_to_set_msg, expected)
      <4>1. SUFFICES ASSUME streq_normalized(impl_forgot_to_set_msg, expected)
                     PROVE  FALSE
        OBVIOUS
      <4>2. Len(expected) = 1 /\ expected[1] = "forgot"
        BY <4>1 DEF streq_normalized, impl_forgot_to_set_msg, Separators
      <4> QED BY <1>3, <4>2 DEF impl_forgot_to_set_msg
    <3> QED BY <3>1, <3>2
  <2> QED BY <1>2, <1>4, <1>6, <2>1 DEF ErrVerdictIsOfTheTest
<1> QED BY <1>5, <1>6

\* Whether an err test passes is decided by its own file and message
\* (ErrVerdictIsOfTheTest), in every order of the shuffle and on every path.
THEOREM ErrVerdicts == ErrSpec => []ErrVerdictIsOfTheTest
<1>1. ErrInit => BufferInv /\ ErrVerdictIsOfTheTest
  BY NAssumption DEF ErrInit, BufferInv, Buffers, ErrVerdictIsOfTheTest
<1>2. TypeOK /\ BufferInv /\ ErrVerdictIsOfTheTest /\ [ErrNext]_<<vars, errVars>>
        => (BufferInv /\ ErrVerdictIsOfTheTest)'
  <2> SUFFICES ASSUME TypeOK, BufferInv, ErrVerdictIsOfTheTest, [ErrNext]_<<vars, errVars>>
               PROVE  (BufferInv /\ ErrVerdictIsOfTheTest)'
    OBVIOUS
  <2>1. CASE run_err_tests
    <3>1. ran \in Nat /\ ran < 2 * N /\ ran' = ran + 1
      BY <2>1 DEF run_err_tests, BufferInv
    <3>2. arr[(ran % N) + 1] \in 1..N
      BY <3>1, NextTestExists
    <3>3. PICK answer \in Messages \cup {NULL, Untouched} :
             test_error(arr[(ran % N) + 1], answer)
      BY <2>1 DEF run_err_tests
    <3>4. expected_error' \in Buffers /\ ErrVerdictIsOfTheTest'
      BY <3>2, <3>3, TestFacts DEF BufferInv
    <3> QED BY <3>1, <3>4, NAssumption DEF BufferInv
  <2>2. CASE UNCHANGED errVars
    BY <2>2 DEF errVars, BufferInv, ErrVerdictIsOfTheTest
  <2> QED BY <2>1, <2>2 DEF ErrNext, ShuffleStep, RoundDone
<1>3. Spec => []TypeOK
  BY ShuffleTypeCorrect
<1> QED BY <1>1, <1>2, <1>3, RoundIsAShuffle, PTL DEF ErrSpec
=============================================================================
