--------------------------- MODULE ConsoleProofs ---------------------------
(***************************************************************************)
(* The executor on a console, for every program and every input: it does   *)
(* what Exec allows, and what it prints reaches the terminal in order; and *)
(* the echo programs of src/examples print what they read.                 *)
(***************************************************************************)
EXTENDS Examples, FrameProofs, SequenceTheorems, FiniteSetTheorems,
        WellFoundedInduction

-----------------------------------------------------------------------------
(* Induction over the numbers, as the existence of least ones. *)

LEMMA LeastNumber ==
  ASSUME NEW T, T \subseteq Nat, T # {}
  PROVE  \E n \in T : \A m \in T : n <= m
<1> DEFINE R == OpToRel(<, Nat)
<1>1. \A x, y \in Nat : y < x => <<y, x>> \in R
  BY DEF OpToRel
<1>2. IsWellFoundedOn(R, Nat)
  BY NatLessThanWellFounded
<1> HIDE DEF R
<1>3. PICK n \in T : \A m \in T : ~ (<<m, n>> \in R)
  BY <1>2, WFMin
<1>4. \A m \in T : ~ (m < n)
  BY <1>1, <1>3
<1> QED BY <1>3, <1>4

-----------------------------------------------------------------------------
(* Texts. *)

\* `Span` exists.
LEMMA SpanFacts ==
  ASSUME NEW text \in Seq(Char), NEW S
  PROVE  /\ Span(text, S) \in 0 .. Len(text)
         /\ \A i \in 1 .. Span(text, S) : text[i] \in S
<1> DEFINE T == {n \in 0 .. Len(text) : n < Len(text) => text[n + 1] \notin S}
<1>1. Len(text) \in Nat
  OBVIOUS
<1>2. Len(text) \in T /\ T \subseteq Nat
  BY <1>1
<1>3. PICK n \in T : \A m \in T : n <= m
  BY <1>2, LeastNumber
<1>4. ASSUME NEW i \in 1 .. n PROVE text[i] \in S
  <2>1. i - 1 \in 0 .. Len(text) /\ ~(n <= i - 1) /\ i - 1 + 1 = i
    BY <1>1, <1>3, <1>4
  <2>2. i - 1 \notin T
    BY <1>3, <2>1
  <2> QED BY <2>1, <2>2
<1>5. /\ n \in 0 .. Len(text) /\ \A i \in 1 .. n : text[i] \in S
      /\ n < Len(text) => text[n + 1] \notin S
  BY <1>3, <1>4
<1> QED BY <1>5 DEF Span

\* The characters of what is left after the first n.
LEMMA WithoutFacts ==
  ASSUME NEW text \in Seq(Char), NEW n \in 0 .. Len(text)
  PROVE  /\ Without(text, n) \in Seq(Char)
         /\ Len(Without(text, n)) = Len(text) - n
         /\ \A i \in 1 .. Len(text) - n : Without(text, n)[i] = text[n + i]
  BY DEF Without

LEMMA WithoutTwice ==
  ASSUME NEW text \in Seq(Char), NEW n \in 0 .. Len(text),
         NEW m \in 0 .. Len(text) - n
  PROVE  Without(Without(text, n), m) = Without(text, n + m)
<1> DEFINE u == Without(text, n)
           v == Without(u, m)
           w == Without(text, n + m)
<1>1. Len(text) \in Nat /\ n + m \in 0 .. Len(text)
  OBVIOUS
<1>2. /\ u \in Seq(Char) /\ Len(u) = Len(text) - n
      /\ \A i \in 1 .. Len(text) - n : u[i] = text[n + i]
  BY WithoutFacts
<1>3. /\ w \in Seq(Char) /\ Len(w) = Len(text) - (n + m)
      /\ \A i \in 1 .. Len(text) - (n + m) : w[i] = text[n + m + i]
  BY <1>1, WithoutFacts
<1> HIDE DEF u, w
<1>4. m \in 0 .. Len(u)
  BY <1>2
<1>5. /\ v \in Seq(Char) /\ Len(v) = Len(u) - m
      /\ \A i \in 1 .. Len(u) - m : v[i] = u[m + i]
  BY <1>2, <1>4, WithoutFacts
<1> HIDE DEF v
<1>6. Len(v) = Len(w)
  BY <1>1, <1>2, <1>3, <1>5
<1>7. ASSUME NEW i \in 1 .. Len(v) PROVE v[i] = w[i]
  <2>1. m + i \in 1 .. Len(text) - n /\ n + (m + i) = n + m + i
        /\ i \in 1 .. Len(u) - m /\ i \in 1 .. Len(text) - (n + m)
    BY <1>1, <1>2, <1>5, <1>7
  <2> QED BY <1>2, <1>3, <1>5, <2>1
<1>8. v = w
  BY <1>3, <1>5, <1>6, <1>7, SeqEqual
<1> QED BY <1>8 DEF v, w, u

LEMMA TailIsWithout ==
  ASSUME NEW text \in Seq(Char), text # <<>>
  PROVE  Tail(text) = Without(text, 1) /\ 1 \in 0 .. Len(text)
  BY TailIsSubSeq DEF Without

\* What is left of stdin is the end of what was on it.
StdinLeft ==
  /\ input \in Inputs
  /\ \E k \in 0 .. Len(input) : stdin = Without(input, k)

LEMMA StdinTyped ==
  ASSUME StdinLeft
  PROVE  stdin \in Seq(Char) /\ input \in Seq(Char)
  BY InputsAssumption, WithoutFacts DEF StdinLeft

LEMMA StillLeft ==
  ASSUME StdinLeft, NEW n \in 0 .. Len(stdin), input' = input,
         stdin' = Without(stdin, n)
  PROVE  StdinLeft'
<1>1. PICK k \in 0 .. Len(input) : stdin = Without(input, k)
  BY DEF StdinLeft
<1>2. input \in Seq(Char) /\ Len(input) \in Nat
  BY StdinTyped
<1>3. Len(stdin) = Len(input) - k
  BY <1>1, <1>2, WithoutFacts
<1>4. stdin' = Without(input, k + n) /\ k + n \in 0 .. Len(input)
  BY <1>1, <1>2, <1>3, WithoutTwice
<1> QED BY <1>4 DEF StdinLeft

-----------------------------------------------------------------------------
(* Numbers. *)

\* The recursion of `Magnitude`, up to n.
Sums(t, s, n, g) ==
  g = [i \in 0 .. n |-> IF i = 0 THEN 0 ELSE 10 * g[i - 1] + t[s + i] - 48]

\* ... exists for every n,
LEMMA SumsExist ==
  ASSUME NEW t, NEW s, NEW n \in Nat
  PROVE  \E g : Sums(t, s, n, g)
<1> DEFINE T == {m \in Nat : ~ \E g : Sums(t, s, m, g)}
<1> SUFFICES ASSUME T # {} PROVE FALSE
  OBVIOUS
<1>1. PICK m \in T : \A k \in T : m <= k
  BY LeastNumber
<1>2. m # 0
  <2>1. Sums(t, s, 0, [i \in 0 .. 0 |-> 0])
    BY DEF Sums
  <2> QED BY <1>1, <2>1
<1>3. PICK g : Sums(t, s, m - 1, g)
  BY <1>1, <1>2
<1> DEFINE h == [i \in 0 .. m |-> IF i < m THEN g[i] ELSE 10 * g[m - 1] + t[s + m] - 48]
<1>4. \A i \in 0 .. m - 1 : g[i] = IF i = 0 THEN 0 ELSE 10 * g[i - 1] + t[s + i] - 48
  BY <1>3 DEF Sums
<1>5. \A i \in 0 .. m : h[i] = IF i = 0 THEN 0 ELSE 10 * h[i - 1] + t[s + i] - 48
  BY <1>1, <1>2, <1>4
<1>6. h = [i \in 0 .. m |-> h[i]]
  OBVIOUS
<1> HIDE DEF h
<1>7. Sums(t, s, m, h)
  BY <1>5, <1>6 DEF Sums
<1> QED BY <1>1, <1>7

\* any two agree,
LEMMA SumsAgree ==
  ASSUME NEW t, NEW s, NEW n \in Nat, NEW g, Sums(t, s, n, g),
         NEW m \in n .. n + 1, NEW h, Sums(t, s, m, h)
  PROVE  g[n] = h[n]
<1> DEFINE T == {i \in 0 .. n : g[i] # h[i]}
<1>1. \A i \in 0 .. n :
        /\ g[i] = IF i = 0 THEN 0 ELSE 10 * g[i - 1] + t[s + i] - 48
        /\ h[i] = IF i = 0 THEN 0 ELSE 10 * h[i - 1] + t[s + i] - 48
  BY DEF Sums
<1>2. T = {}
  <2> SUFFICES ASSUME T # {} PROVE FALSE
    OBVIOUS
  <2>1. PICK i \in T : \A j \in T : i <= j
    <3>1. T \subseteq Nat
      OBVIOUS
    <3> HIDE DEF T
    <3> QED BY <3>1, LeastNumber
  <2>2. i # 0
    BY <1>1, <2>1
  <2>3. i - 1 \in 0 .. n /\ ~(i <= i - 1)
    <3>1. i \in 0 .. n
      BY <2>1
    <3> QED BY <2>2, <3>1
  <2>4. g[i - 1] = h[i - 1]
    BY <2>1, <2>3
  <2> QED BY <1>1, <2>1, <2>2, <2>4
<1> QED BY <1>2

\* and so there is one for all n.
LEMMA SumsTotal ==
  ASSUME NEW t, NEW s
  PROVE  \E f : f = [n \in Nat |-> IF n = 0 THEN 0 ELSE 10 * f[n - 1] + t[s + n] - 48]
<1> DEFINE G(n) == CHOOSE g : Sums(t, s, n, g)
           f == [n \in Nat |-> G(n)[n]]
<1>1. \A n \in Nat : Sums(t, s, n, G(n))
  BY SumsExist
<1> HIDE DEF G
<1>2. ASSUME NEW n \in Nat
      PROVE  f[n] = IF n = 0 THEN 0 ELSE 10 * f[n - 1] + t[s + n] - 48
  <2>1. G(n)[n] = IF n = 0 THEN 0 ELSE 10 * G(n)[n - 1] + t[s + n] - 48
    BY <1>1 DEF Sums
  <2>2. ASSUME n # 0 PROVE G(n)[n - 1] = G(n - 1)[n - 1]
    <3>1. n - 1 \in Nat /\ n \in n - 1 .. n - 1 + 1
      BY <2>2
    <3>2. Sums(t, s, n - 1, G(n - 1)) /\ Sums(t, s, n, G(n))
      BY <1>1, <3>1
    <3> QED BY <3>1, <3>2, SumsAgree
  <2>3. f[n] = G(n)[n] /\ (n # 0 => f[n - 1] = G(n - 1)[n - 1])
    OBVIOUS
  <2> QED BY <2>1, <2>2, <2>3
<1>3. f = [n \in Nat |-> f[n]]
  OBVIOUS
<1> HIDE DEF f
<1>4. f = [n \in Nat |-> IF n = 0 THEN 0 ELSE 10 * f[n - 1] + t[s + n] - 48]
  BY <1>2, <1>3
<1> QED BY <1>4

\* What `scanf` stores is an unsigned int.
LEMMA ScannedTyped ==
  ASSUME StdinLeft
  PROVE  /\ Text \in Seq(Char) /\ Sign + Digits \in 0 .. Len(Text)
         /\ Scanned \in 0 .. UintMod - 1
         /\ \E n \in 0 .. Len(stdin) : Without(Text, Sign + Digits) = Without(stdin, n)
<1>1. stdin \in Seq(Char) /\ Len(stdin) \in Nat
  BY StdinTyped
<1>2. Span(stdin, Blanks) \in 0 .. Len(stdin)
  BY <1>1, SpanFacts
<1>3. Text \in Seq(Char) /\ Len(Text) = Len(stdin) - Span(stdin, Blanks)
  BY <1>1, <1>2, WithoutFacts DEF Text
<1>4. Sign \in 0 .. 1 /\ Sign \in 0 .. Len(Text)
  BY <1>3 DEF Sign
<1>5. /\ Without(Text, Sign) \in Seq(Char)
      /\ Len(Without(Text, Sign)) = Len(Text) - Sign
      /\ \A i \in 1 .. Len(Text) - Sign : Without(Text, Sign)[i] = Text[Sign + i]
  BY <1>3, <1>4, WithoutFacts
<1>6. /\ Digits \in 0 .. Len(Text) - Sign
      /\ \A i \in 1 .. Digits : Without(Text, Sign)[i] \in DigitChars
  BY <1>5, SpanFacts DEF Digits
<1>7. Sign + Digits \in 0 .. Len(Text) /\ Len(Text) \in Nat
  BY <1>3, <1>4, <1>6
<1>8. \A i \in 1 .. Digits : Text[Sign + i] \in Int
  <2>1. \A i \in 1 .. Digits : i \in 1 .. Len(Text) - Sign
    BY <1>3, <1>4, <1>6
  <2>2. DigitChars \subseteq Int
    BY DEF DigitChars
  <2> QED BY <1>5, <1>6, <2>1, <2>2
<1>9. Magnitude[Digits] \in Int
  <2>1. Magnitude = [n \in Nat |->
          IF n = 0 THEN 0 ELSE 10 * Magnitude[n - 1] + Text[Sign + n] - 48]
    BY SumsTotal DEF Magnitude
  <2>2. \A n \in Nat : Magnitude[n] =
          IF n = 0 THEN 0 ELSE 10 * Magnitude[n - 1] + Text[Sign + n] - 48
    BY <2>1
  <2> DEFINE T == {n \in 0 .. Digits : Magnitude[n] \notin Int}
  <2>3. T = {}
    <3> SUFFICES ASSUME T # {} PROVE FALSE
      OBVIOUS
    <3>1. PICK n \in T : \A m \in T : n <= m
      <4>1. T \subseteq Nat
        OBVIOUS
      <4> HIDE DEF T
      <4> QED BY <4>1, LeastNumber
    <3>2. n \in 0 .. Digits /\ n # 0
      BY <2>2, <3>1
    <3>3. n - 1 \in 0 .. Digits /\ ~(n <= n - 1) /\ n \in 1 .. Digits
      <4>1. Digits \in Nat
        BY <1>4, <1>6, <1>7
      <4> QED BY <3>2, <4>1
    <3>4. Magnitude[n - 1] \in Int
      BY <3>1, <3>3
    <3> QED BY <1>8, <2>2, <3>1, <3>2, <3>3, <3>4
  <2> QED BY <1>6, <2>3
<1>10. Scanned \in 0 .. UintMod - 1
  BY <1>9, WordCharAssumption DEF Scanned
<1>11. \E n \in 0 .. Len(stdin) : Without(Text, Sign + Digits) = Without(stdin, n)
  <2> DEFINE n == Span(stdin, Blanks) + (Sign + Digits)
  <2>1. n \in 0 .. Len(stdin) /\ Sign + Digits \in 0 .. Len(stdin) - Span(stdin, Blanks)
    BY <1>1, <1>2, <1>3, <1>7
  <2>2. Without(Text, Sign + Digits) = Without(stdin, n)
    BY <1>1, <1>2, <2>1, WithoutTwice DEF Text
  <2> QED BY <2>1, <2>2
<1> QED BY <1>3, <1>7, <1>10, <1>11

-----------------------------------------------------------------------------
(* Every step is one of Exec's, and leaves an end of stdin. *)

LEMMA ComputeSteps == ASSUME StdinLeft, Compute PROVE Next /\ StdinLeft'
<1>1. Next
  BY DEF Compute, PopConst, FCall, FRet, Next, Local, Builtin
<1>2. StdinLeft'
  BY DEF Compute, StdinLeft
<1> QED BY <1>1, <1>2

LEMMA PrintsStep == ASSUME StdinLeft, Prints PROVE Next /\ StdinLeft'
<1>1. \A op, effect : Printing(op, effect) => Next /\ UNCHANGED <<input, stdin>>
  BY DEF Printing, Next, Local, Builtin
<1> QED BY <1>1 DEF Prints, PrintChar, PrintNum, PrintString, StdinLeft

LEMMA GetCharSteps == ASSUME StdinLeft, GetChar PROVE Next /\ StdinLeft'
<1>1. CASE stdin = <<>> /\ TakeChar(WordMod - 1) /\ UNCHANGED stdin
  BY <1>1, ReadableAssumption
     DEF GetChar, Reading, ReadChar, Next, Local, Builtin, StdinLeft
<1>2. CASE stdin # <<>> /\ TakeChar(Head(stdin)) /\ stdin' = Tail(stdin)
  <2>1. stdin \in Seq(Char)
    BY StdinTyped
  <2>2. Head(stdin) \in InputChars
    BY <1>2, <2>1, ReadableAssumption
  <2>3. StdinLeft'
    BY <1>2, <2>1, TailIsWithout, StillLeft DEF GetChar, Reading
  <2> QED BY <1>2, <2>2, <2>3 DEF GetChar, Reading, ReadChar, Next, Local, Builtin
<1> QED BY <1>1, <1>2 DEF GetChar

LEMMA GetNumSteps == ASSUME StdinLeft, GetNum PROVE Next /\ StdinLeft'
<1>1. StdinLeft'
  BY ScannedTyped, StillLeft DEF GetNum, Reading
<1>2. Scanned \in InputNums
  BY ScannedTyped, ReadableAssumption
<1>3. ReadNum
  BY <1>2 DEF GetNum, Reading, ReadNum
<1> QED BY <1>1, <1>3 DEF Next, Local, Builtin

LEMMA SkipCharSteps == ASSUME StdinLeft, SkipChar PROVE [Next]_vars /\ StdinLeft'
<1>1. StdinLeft'
  BY StdinTyped, TailIsWithout, StillLeft DEF SkipChar
<1>2. [Next]_vars
  BY DEF SkipChar, Next, Local, Skip
<1> QED BY <1>1, <1>2

\* A line that is read is part of the input.
LEMMA LineRead ==
  ASSUME StdinLeft, stdin # <<>>, NEW n, n = LineLen(stdin)
  PROVE  /\ n \in 0 .. Len(stdin)
         /\ [i \in 1 .. n |-> AsWord(stdin[i])] \in InputLines
<1>1. stdin \in Seq(Char) /\ Len(stdin) \in Nat \ {0} /\ input \in Seq(Char)
  BY StdinTyped
<1>2. Span(stdin, Char \ {Newline}) \in 0 .. Len(stdin)
  BY <1>1, SpanFacts
<1>3. n \in 1 .. Len(stdin)
  BY <1>1, <1>2 DEF LineLen
<1>4. PICK k \in 0 .. Len(input) : stdin = Without(input, k)
  BY DEF StdinLeft
<1>5. /\ Len(stdin) = Len(input) - k
      /\ \A i \in 1 .. Len(input) - k : stdin[i] = input[k + i]
  BY <1>1, <1>4, WithoutFacts
<1>6. \A i \in 1 .. n : stdin[i] = input[k + i]
  BY <1>1, <1>3, <1>5
<1>7. [i \in 1 .. n |-> AsWord(stdin[i])] = [i \in 1 .. n |-> AsWord(input[k + i])]
  BY <1>6
<1>8. n \in 1 .. Len(input) - k /\ input \in Inputs
  BY <1>3, <1>5 DEF StdinLeft
<1>9. [i \in 1 .. n |-> AsWord(input[k + i])] \in InputLines
  <2>1. \A s \in 0 .. Len(input) : \A m \in 1 .. Len(input) - s :
          [i \in 1 .. m |-> AsWord(input[s + i])] \in InputLines
    BY <1>8, ReadableAssumption
  <2> QED BY <1>8, <2>1
<1>10. [i \in 1 .. n |-> AsWord(stdin[i])] \in InputLines
  BY <1>7, <1>9, Zenon
<1>11. n \in 0 .. Len(stdin)
  BY <1>1, <1>3
<1> QED BY <1>10, <1>11, Zenon

LEMMA GetLineSteps == ASSUME StdinLeft, GetLine PROVE Next /\ StdinLeft'
<1>1. Executing("READ_STR") /\ input' = input
  BY DEF GetLine, Reading
<1>2. CASE /\ UNCHANGED stdin
           /\ Underflow(stack) \/ (Poppable(stack) /\ Stop("read_io", Pop(stack)))
  BY <1>1, <1>2 DEF ReadStr, Next, Local, Builtin, StdinLeft
<1>3. CASE /\ Poppable(stack) /\ stdin # <<>>
           /\ LET n == LineLen(stdin)
              IN  /\ TakeLine([i \in 1 .. n |-> AsWord(stdin[i])])
                  /\ stdin' = Without(stdin, n)
  <2>1. PICK n : n = LineLen(stdin)
    OBVIOUS
  <2>2. n \in 0 .. Len(stdin) /\ [i \in 1 .. n |-> AsWord(stdin[i])] \in InputLines
    BY <1>3, <2>1, LineRead
  <2>3. StdinLeft'
    BY <1>1, <1>3, <2>1, <2>2, StillLeft
  <2>4. ReadStr
    BY <1>1, <1>3, <2>1, <2>2 DEF ReadStr
  <2> QED BY <2>3, <2>4 DEF Next, Local, Builtin
<1> QED BY <1>2, <1>3 DEF GetLine

LEMMA ConsoleSteps ==
  ASSUME StdinLeft, [CNext]_cvars
  PROVE  [Next]_vars /\ StdinLeft'
<1>1. CASE UNCHANGED cvars \/ Drain \/ Leave
  BY <1>1 DEF cvars, fvars, vars, Drain, Leave, StdinLeft
<1>2. CASE Reads
  BY <1>2, GetCharSteps, GetNumSteps, GetLineSteps DEF Reads
<1> QED BY <1>1, <1>2, ComputeSteps, PrintsStep, SkipCharSteps DEF CNext, Step

LEMMA ConsoleStarts == ASSUME CInit PROVE Init /\ StdinLeft
<1>1. input \in Seq(Char) /\ stdin = input
  BY InputsAssumption DEF CInit
<1>2. Without(input, 0) = input /\ 0 \in 0 .. Len(input)
  BY <1>1, SubSeqFull DEF Without
<1> QED BY <1>1, <1>2 DEF CInit, FInit, StdinLeft

\* The executor on the console does nothing that Exec's does not do, whatever
\* is on stdin: the characters, numbers and lines it reads are parts of the
\* input, and a number is an unsigned int.
THEOREM ConsoleImplementsExec == CSpec => ImplementsExec
<1>1. CInit => Init /\ StdinLeft
  BY ConsoleStarts
<1>2. StdinLeft /\ [CNext]_cvars => [Next]_vars /\ StdinLeft'
  BY ConsoleSteps
<1> QED BY <1>1, <1>2, PTL DEF CSpec, ImplementsExec

-----------------------------------------------------------------------------
(* What is printed: the characters of strings and numbers. *)

LEMMA Characters ==
  /\ NUL \in Char /\ Newline \in Char /\ ErrorMessage \notin Char
  /\ NUL # Newline /\ Char \subseteq Nat
  /\ \A word \in Word : word \in Nat /\ AsChar(word) \in Char
  BY WordModAssumption DEF NUL, Newline, ErrorMessage, Char, CharMod, AsChar, Word

\* `printf` of a word is not empty and made of characters.
LEMMA DecimalFacts ==
  ASSUME NEW n \in Word
  PROVE  Decimal(n) \in Seq(Char) /\ Decimal(n) # <<>>
<1> DEFINE leading == {i \in 1 .. 4 : n < Powers[i]}
           zeros   == Cardinality(leading)
<1>1. IsFiniteSet(1 .. 4) /\ Cardinality(1 .. 4) = 4
  BY FS_Interval, 1 \in Int, 4 \in Int, 4 - 1 + 1 = 4, ~(1 > 4)
<1>2. leading \in SUBSET (1 .. 4)
  OBVIOUS
<1> HIDE DEF leading
<1>3. zeros \in 0 .. 4
  <2>1. zeros \in Nat /\ zeros <= 4
    BY <1>1, <1>2, FS_Subset, FS_CardinalityType
  <2> QED BY <2>1
<1> HIDE DEF zeros
<1>4. n \in Nat
  BY Characters
<1>5. ASSUME NEW i \in 1 .. 5 - zeros
      PROVE  48 + ((n \div Powers[zeros + i]) % 10) \in Char
  <2>1. zeros + i \in 1 .. 5
    BY <1>3
  <2>2. Powers[zeros + i] \in Nat \ {0}
    BY <2>1 DEF Powers
  <2>3. n \div Powers[zeros + i] \in Int
    BY <1>4, <2>2
  <2>4. (n \div Powers[zeros + i]) % 10 \in 0 .. 9
    BY <2>3
  <2> QED BY <2>4 DEF Char, CharMod
<1>6. Decimal(n) = [i \in 1 .. 5 - zeros |-> 48 + ((n \div Powers[zeros + i]) % 10)]
  BY DEF Decimal, zeros, leading
<1>7. 5 - zeros \in Nat /\ 5 - zeros # 0
  BY <1>3
<1> QED BY <1>5, <1>6, <1>7

\* Some element of a finite set of numbers is the k-th one.
UpTo(S, i) == {j \in S : j <= i}

LEMMA UpToFacts ==
  ASSUME NEW S, IsFiniteSet(S), NEW i
  PROVE  /\ IsFiniteSet(UpTo(S, i)) /\ Cardinality(UpTo(S, i)) \in Nat
         /\ Cardinality(UpTo(S, i)) <= Cardinality(S)
         /\ Cardinality(UpTo(S, i)) = Cardinality(S) => UpTo(S, i) = S
<1>1. UpTo(S, i) \in SUBSET S
  BY DEF UpTo
<1> QED BY <1>1, FS_Subset, FS_CardinalityType

\* By induction over k: the next one is the least above the k-th.
LEMMA KthElement ==
  ASSUME NEW n \in Nat, NEW S, S \subseteq 1 .. n, NEW k \in 1 .. Cardinality(S)
  PROVE  IsFiniteSet(S) /\ \E i \in S : Cardinality(UpTo(S, i)) = k
<1>1. IsFiniteSet(S) /\ Cardinality(S) \in Nat
  <2>1. IsFiniteSet(1 .. n)
    BY FS_Interval, 1 \in Int, n \in Int
  <2>2. S \in SUBSET (1 .. n)
    OBVIOUS
  <2> QED BY <2>1, <2>2, FS_Subset, FS_CardinalityType
<1>1a. \A i, j : j \in UpTo(S, i) <=> j \in S /\ j \in 1 .. n /\ j <= i
  BY DEF UpTo
<1>1b. \A j \in S : j \in 1 .. n
  OBVIOUS
<1> DEFINE Count(i) == Cardinality(UpTo(S, i))
           T == {i \in 0 .. n : Count(i) >= k}
<1>2. \A i : Count(i) \in Nat
  BY <1>1, UpToFacts
<1>3. Count(0) = 0
  <2>1. UpTo(S, 0) = {}
    BY <1>1a
  <2> QED BY <2>1, FS_EmptySet
<1>4. Count(n) = Cardinality(S)
  <2>1. \A j \in 1 .. n : j <= n
    OBVIOUS
  <2>2. \A j : j \in UpTo(S, n) <=> j \in S
    BY <1>1a, <1>1b, <2>1
  <2>3. UpTo(S, n) = S
    BY <2>2
  <2> QED BY <2>3
<1>5. \A i \in 1 .. n : Count(i) = IF i \in S THEN Count(i - 1) + 1 ELSE Count(i - 1)
  <2> TAKE i \in 1 .. n
  <2>1. IsFiniteSet(UpTo(S, i - 1)) /\ i \notin UpTo(S, i - 1)
    BY <1>1, <1>1a, UpToFacts
  <2>2. CASE i \in S
    <3>1. UpTo(S, i) = UpTo(S, i - 1) \cup {i}
      BY <1>1a, <2>2
    <3> QED BY <2>1, <2>2, <3>1, FS_AddElement
  <2>3. CASE i \notin S
    <3>1. \A j \in 1 .. n : j # i => (j <= i <=> j <= i - 1)
      OBVIOUS
    <3>2. \A j : j \in UpTo(S, i) <=> j \in UpTo(S, i - 1)
      BY <1>1a, <2>3, <3>1
    <3>3. UpTo(S, i) = UpTo(S, i - 1)
      BY <3>2
    <3> QED BY <2>3, <3>3
  <2> QED BY <2>2, <2>3
<1> HIDE DEF Count
<1>6. n \in T /\ T \subseteq Nat
  BY <1>4
<1>7. PICK i \in T : \A m \in T : i <= m
  <2> HIDE DEF T
  <2> QED BY <1>6, LeastNumber
<1>8. i \in 0 .. n /\ Count(i) >= k /\ i # 0
  BY <1>3, <1>7
<1>9. i \in 1 .. n /\ i - 1 \in 0 .. n /\ ~(i <= i - 1)
  BY <1>8
<1>10. Count(i - 1) < k
  <2>1. i - 1 \notin T
    BY <1>7, <1>9
  <2> QED BY <1>2, <1>9, <2>1
<1>11. i \in S /\ Count(i) = k
  <2>1. Count(i) \in Nat /\ Count(i - 1) \in Nat
    BY <1>2
  <2> QED BY <1>5, <1>8, <1>9, <1>10, <2>1
<1> QED BY <1>1, <1>11 DEF Count

\* The characters that show are characters, and a last one that shows is the
\* last of them.
LEMMA VisibleFacts ==
  ASSUME NEW chars \in Seq(Char)
  PROVE  /\ Visible(chars) \in Seq(Char)
         /\ chars # <<>> /\ Last(chars) # NUL =>
              Visible(chars) # <<>> /\ Last(Visible(chars)) = Last(chars)
<1> DEFINE at == {i \in DOMAIN chars : chars[i] # NUL}
           place == [k \in 1 .. Cardinality(at) |->
                       CHOOSE i \in at : Cardinality(UpTo(at, i)) = k]
<1>1. Len(chars) \in Nat /\ DOMAIN chars = 1 .. Len(chars)
  OBVIOUS
<1>2. at \subseteq 1 .. Len(chars) /\ \A i \in at : chars[i] \in Char
  BY <1>1
<1>3. Visible(chars) = [k \in 1 .. Cardinality(at) |-> chars[place[k]]]
  BY DEF Visible, UpTo
<1>4. ASSUME chars # <<>>, Last(chars) # NUL
      PROVE  Len(chars) \in at /\ Last(chars) = chars[Len(chars)]
  BY <1>1, <1>4 DEF Last
<1>5. \A k \in 1 .. Cardinality(at) :
        place[k] = CHOOSE i \in at : Cardinality(UpTo(at, i)) = k
  OBVIOUS
<1> HIDE DEF at, place
<1>6. IsFiniteSet(at) /\ Cardinality(at) \in Nat
  <2>1. IsFiniteSet(1 .. Len(chars))
    BY <1>1, FS_Interval, 1 \in Int, Len(chars) \in Int
  <2>2. at \in SUBSET (1 .. Len(chars))
    BY <1>2
  <2> QED BY <2>1, <2>2, FS_Subset, FS_CardinalityType
<1>7. ASSUME NEW k \in 1 .. Cardinality(at)
      PROVE  place[k] \in at /\ Cardinality(UpTo(at, place[k])) = k
  <2>1. \E i \in at : Cardinality(UpTo(at, i)) = k
    BY <1>1, <1>2, KthElement
  <2> QED BY <1>5, <2>1
<1>8. Visible(chars) \in Seq(Char) /\ Len(Visible(chars)) = Cardinality(at)
  <2>1. \A k \in 1 .. Cardinality(at) : chars[place[k]] \in Char
    BY <1>2, <1>7
  <2> QED BY <1>3, <1>6, <2>1
<1>9. ASSUME chars # <<>>, Last(chars) # NUL
      PROVE  Visible(chars) # <<>> /\ Last(Visible(chars)) = Last(chars)
  <2>1. Cardinality(at) # 0
    BY <1>4, <1>6, <1>9, FS_EmptySet
  <2>2. Cardinality(at) \in 1 .. Cardinality(at)
    BY <1>6, <2>1
  <2>2a. PICK p : p = place[Cardinality(at)]
    OBVIOUS
  <2>3. p \in at /\ UpTo(at, p) = at
    <3>1. p \in at /\ Cardinality(UpTo(at, p)) = Cardinality(at)
      BY <1>7, <2>2a, <2>2, Zenon
    <3> QED BY <1>6, <3>1, UpToFacts, SMTT(30)
  <2>4. p = Len(chars)
    <3>1. Len(chars) \in UpTo(at, p)
      BY <1>4, <1>9, <2>3
    <3>2. Len(chars) <= p
      BY <3>1 DEF UpTo
    <3>3. p \in Nat /\ p <= Len(chars)
      BY <1>1, <1>2, <2>3
    <3>4. \A a, b \in Nat : a <= b /\ b <= a => a = b
      OBVIOUS
    <3> QED BY <1>1, <3>2, <3>3, <3>4
  <2>5. Visible(chars)[Cardinality(at)] = chars[p]
    BY <1>3, <2>2a, <2>2
  <2> QED BY <1>4, <1>8, <1>9, <2>1, <2>4, <2>5 DEF Last
<1> QED BY <1>8, <1>9

-----------------------------------------------------------------------------
(* What is printed reaches the terminal. *)

Symbols == Char \cup {ErrorMessage}
Messages == {<<>>, <<ErrorMessage>>}

OutputTyped ==
  /\ printed \in Seq(Char) /\ pending \in Seq(Char) /\ shown \in Seq(Symbols)
  /\ last_stdout \in Char

\* Before stdout is cleaned, the terminal and the buffer hold what was printed,
\* and the last character is remembered unless it was a NUL.
Flowing ==
  /\ shown \o pending = printed
  /\ last_stdout # NUL => printed # <<>> /\ last_stdout = Last(printed)

\* After that nothing is buffered, and a newline was added to an open line.
Cleaned ==
  /\ pending = <<>>
  /\ \E message \in Messages :
       \/ /\ shown = printed \o message
          /\ \/ last_stdout = NUL
             \/ printed # <<>> /\ Last(printed) = Newline
       \/ /\ shown = printed \o <<Newline>> \o message
          /\ printed # <<>> /\ Last(printed) # Newline

Output ==
  /\ OutputTyped
  /\ exited => status \in Complaints \cup {"done"}
  /\ IF exited \/ status \in Complaints THEN Cleaned ELSE Flowing

LEMMA Sequences ==
  /\ Seq(Char) \subseteq Seq(Symbols)
  /\ <<>> \in Seq(Char) /\ <<Newline>> \in Seq(Char)
  /\ \A message \in Messages : message \in Seq(Symbols)
<1>1. Char \subseteq Symbols
  BY DEF Symbols
<1>2. Newline \in Char /\ ErrorMessage \in Symbols
  BY Characters DEF Symbols
<1>3. \A text \in Seq(Char) : text \in Seq(Symbols)
  BY <1>1
<1> QED BY <1>2, <1>3 DEF Messages

\* The last character of two texts.
LEMMA LastOfConcat ==
  ASSUME NEW S, NEW a \in Seq(S), NEW b \in Seq(S), b # <<>>
  PROVE  a \o b # <<>> /\ Last(a \o b) = Last(b)
<1>1. /\ a \o b \in Seq(S) /\ Len(a \o b) = Len(a) + Len(b)
      /\ \A i \in 1 .. Len(a) + Len(b) :
           (a \o b)[i] = IF i <= Len(a) THEN a[i] ELSE b[i - Len(a)]
  BY ConcatProperties
<1>2. Len(a) \in Nat /\ Len(b) \in Nat \ {0}
  OBVIOUS
<1>3. PICK la \in Nat, lb \in Nat \ {0} : la = Len(a) /\ lb = Len(b)
  BY <1>2
<1>4. (a \o b)[la + lb] = b[lb]
  <2>1. la + lb \in 1 .. la + lb /\ ~(la + lb <= la) /\ la + lb - la = lb
    OBVIOUS
  <2> QED BY <1>1, <1>3, <2>1
<1> QED BY <1>1, <1>3, <1>4 DEF Last

\* Printing.
LEMMA PrintingFlows ==
  ASSUME OutputTyped, Flowing, NEW str \in Seq(Char),
         printed' = printed \o str, pending' = pending \o str, shown' = shown,
         last_stdout' \in Char,
         last_stdout' # NUL => str # <<>> /\ last_stdout' = Last(str)
  PROVE  OutputTyped' /\ Flowing'
<1>1. printed \o str \in Seq(Char) /\ pending \o str \in Seq(Char)
  BY ConcatProperties DEF OutputTyped
<1>2. shown \o (pending \o str) = (shown \o pending) \o str
  <2>1. shown \in Seq(Symbols) /\ pending \in Seq(Symbols) /\ str \in Seq(Symbols)
    BY Sequences DEF OutputTyped
  <2> QED BY <2>1, ConcatAssociative, SMTT(30)
<1>3. ASSUME last_stdout' # NUL
      PROVE  printed' # <<>> /\ last_stdout' = Last(printed')
  BY <1>3, LastOfConcat DEF OutputTyped
<1>4. OutputTyped'
  BY <1>1 DEF OutputTyped
<1> QED BY <1>2, <1>3, <1>4 DEF Flowing

\* `hvme_fputs` of a string, and of its characters one by one.
LEMMA PutsFlows ==
  ASSUME OutputTyped, Flowing, NEW str \in Seq(Char), Puts(str)
  PROVE  OutputTyped' /\ Flowing'
<1>1. LastOf(str) \in Char /\ (LastOf(str) # NUL => str # <<>> /\ LastOf(str) = Last(str))
  <2>1. str # <<>> => Last(str) \in Char
    BY DEF Last
  <2> QED BY <2>1, Characters DEF LastOf
<1> QED BY <1>1, PrintingFlows DEF Puts

LEMMA PutsEachFlows ==
  ASSUME OutputTyped, Flowing, NEW chars \in Seq(Char), PutsEach(chars)
  PROVE  OutputTyped' /\ Flowing'
<1>1. CASE chars = <<>>
  BY <1>1 DEF PutsEach, output, OutputTyped, Flowing
<1>2. CASE chars # <<>>
  <2>1. Last(chars) \in Char
    BY <1>2 DEF Last
  <2> QED BY <1>2, <2>1, VisibleFacts, PrintingFlows DEF PutsEach
<1> QED BY <1>1, <1>2

\* Cleaning.
LEMMA CleaningCleans ==
  ASSUME OutputTyped, Flowing, NEW message \in Messages, CleanThen(message)
  PROVE  OutputTyped' /\ Cleaned'
<1>1. /\ printed \in Seq(Symbols) /\ pending \in Seq(Symbols) /\ shown \in Seq(Symbols)
      /\ message \in Seq(Symbols) /\ Trailer \in Seq(Symbols)
      /\ <<>> \in Seq(Symbols)
  BY Sequences DEF OutputTyped, Trailer
<1>2. shown' = printed \o Trailer \o message /\ shown' \in Seq(Symbols)
  BY <1>1, ConcatProperties DEF CleanThen, Flowing
<1>3. OutputTyped'
  BY <1>2, Characters, Sequences DEF OutputTyped, CleanThen
<1>4. CASE last_stdout \in {Newline, NUL}
  <2>1. Trailer = <<>> /\ last_stdout' = last_stdout
    BY <1>4 DEF Trailer, CleanThen
  <2>2. shown' = printed \o message
    BY <1>1, <1>2, <2>1, ConcatEmptySeq
  <2>3. last_stdout = NUL \/ (printed # <<>> /\ Last(printed) = Newline)
    BY <1>4 DEF Flowing
  <2> QED BY <1>3, <2>1, <2>2, <2>3 DEF Cleaned, CleanThen
<1>5. CASE last_stdout \notin {Newline, NUL}
  <2>1. Trailer = <<Newline>> /\ printed # <<>> /\ Last(printed) # Newline
    BY <1>5 DEF Trailer, Flowing
  <2> QED BY <1>2, <1>3, <2>1 DEF Cleaned, CleanThen
<1> QED BY <1>4, <1>5

\* A step that prints nothing but its error.
LEMMA ErrorOutputs ==
  ASSUME Output, ~exited, status \notin Complaints, ErrorOutput, exited' = exited
  PROVE  Output'
<1>1. OutputTyped /\ Flowing
  BY DEF Output
<1>2. CASE status' \in Complaints
  <2>1. <<ErrorMessage>> \in Messages
    BY DEF Messages
  <2> QED BY <1>1, <1>2, <2>1, CleaningCleans DEF ErrorOutput, Output
<1>3. CASE status' \notin Complaints
  <2>1. OutputTyped' /\ Flowing'
    BY <1>1, <1>3 DEF ErrorOutput, output, OutputTyped, Flowing
  <2> QED BY <1>3, <2>1 DEF Output
<1> QED BY <1>2, <1>3

LEMMA StillOpen ==
  ASSUME Output, status \in {"run", "skip_line", "skip_eof"}
  PROVE  ~exited /\ status \notin Complaints
  BY DEF Output, Complaints, Silent

LEMMA ComputeOutputs == ASSUME Output, Compute PROVE Output'
<1>1. status = "run"
  BY DEF Compute, MemoryAccess, PushFrame, PopFrame, PushFileSeg, PopFileSeg,
         PushConst, PushHeap, PopHeap, PushPointer, PopPointer, Unary, Binary,
         Goto, IfGoto, PopConst, Halt, FCall, Call, FRet, Ret, Executing
<1> QED BY <1>1, StillOpen, ErrorOutputs DEF Compute

LEMMA ReadsOutput == ASSUME Output, Reads PROVE Output'
<1>1. status = "run" /\ exited' = exited
  BY DEF Reads, GetChar, GetNum, GetLine, Reading, Executing
<1>2. CASE GetChar
  <2>1. UNCHANGED output /\ status' = status
    BY <1>2 DEF GetChar, TakeChar, Advance
  <2>2. ErrorOutput
    BY <1>1, <2>1 DEF ErrorOutput, Complaints
  <2> QED BY <1>1, <2>2, StillOpen, ErrorOutputs
<1>3. CASE GetNum \/ GetLine
  BY <1>1, <1>3, StillOpen, ErrorOutputs DEF GetNum, GetLine
<1> QED BY <1>2, <1>3 DEF Reads

LEMMA SkipOutputs == ASSUME Output, SkipChar PROVE Output'
  BY StillOpen, ErrorOutputs DEF SkipChar

LEMMA PrintingOutputs ==
  ASSUME Output, NEW op, Executing(op), ~(status' = "run"), ErrorOutput,
         exited' = exited
  PROVE  Output'
<1>1. status = "run"
  BY DEF Executing
<1> QED BY <1>1, StillOpen, ErrorOutputs

\* What the three builtins print when their operands are there.
LEMMA Operands ==
  ASSUME Inv, status' = "run"
  PROVE  /\ Executing("PRINT_CHAR") \/ Executing("PRINT_NUM") =>
              (Discard \/ PrintStr => Top(stack) \in Word)
         /\ Executing("PRINT_STR") /\ (Discard \/ PrintStr) =>
              /\ Top(stack) \in Word /\ Top(Pop(stack)) \in Word
              /\ StrCells(Top(stack), Top(Pop(stack))) \subseteq DOMAIN heap
<1>1. ASSUME Executing("PRINT_CHAR") \/ Executing("PRINT_NUM"), Discard \/ PrintStr
      PROVE  Top(stack) \in Word
  <2>1. Poppable(stack) /\ status = "run"
    BY <1>1 DEF Discard, PrintStr, Underflow, Stop, Executing
  <2> QED BY <2>1, Running, PopRunning
<1>2. ASSUME Executing("PRINT_STR"), Discard \/ PrintStr
      PROVE  /\ Top(stack) \in Word /\ Top(Pop(stack)) \in Word
             /\ StrCells(Top(stack), Top(Pop(stack))) \subseteq DOMAIN heap
  <2>1. PrintStr /\ status = "run"
    BY <1>2 DEF Discard, Executing
  <2>2. /\ PoppableTwice
        /\ StrCells(Top(stack), Top(Pop(stack))) \subseteq DOMAIN heap
    BY <2>1 DEF PrintStr, UnderflowOfTwo, Underflow, Stop
  <2>3. IsStack(Pop(stack)) /\ Backed(Pop(stack)) /\ Top(stack) \in Word
    BY <2>1, <2>2, Running, PopRunning DEF PoppableTwice
  <2> QED BY <2>1, <2>2, <2>3, PopRunning DEF PoppableTwice
<1> QED BY <1>1, <1>2

LEMMA RunningFlows ==
  ASSUME Output, status = "run", status' = "run", exited' = exited
  PROVE  /\ OutputTyped /\ Flowing
         /\ OutputTyped' /\ Flowing' => Output'
  BY StillOpen DEF Output, Complaints

\* A builtin that prints either prints what it should or fails before it.
LEMMA PrintsOutput == ASSUME Inv, Output, Prints PROVE Output'
<1>1. ASSUME NEW op, NEW effect, Printing(op, effect)
      PROVE  /\ Executing(op) /\ status = "run" /\ (Discard \/ PrintStr)
             /\ exited' = exited
             /\ IF status' = "run" THEN effect ELSE ErrorOutput
  BY <1>1 DEF Printing, Executing
<1>2. CASE PrintChar
  <2>1. CASE status' # "run"
    BY <1>1, <1>2, <2>1, PrintingOutputs DEF PrintChar
  <2>2. CASE status' = "run"
    <3>1. Top(stack) \in Word
      BY <1>1, <1>2, <2>2, Operands DEF PrintChar
    <3>2. Formatted(AsChar(Top(stack))) \in Seq(Char)
      BY <3>1, Characters DEF Formatted
    <3> QED BY <1>1, <1>2, <2>2, <3>2, PutsFlows, RunningFlows DEF PrintChar
  <2> QED BY <2>1, <2>2
<1>3. CASE PrintNum
  <2>1. CASE status' # "run"
    BY <1>1, <1>3, <2>1, PrintingOutputs DEF PrintNum
  <2>2. CASE status' = "run"
    <3>1. Top(stack) \in Word
      BY <1>1, <1>3, <2>2, Operands DEF PrintNum
    <3>2. Decimal(Top(stack)) \in Seq(Char)
      BY <3>1, DecimalFacts
    <3> QED BY <1>1, <1>3, <2>2, <3>2, PutsFlows, RunningFlows DEF PrintNum
  <2> QED BY <2>1, <2>2
<1>4. CASE PrintString
  <2>1. CASE status' # "run"
    BY <1>1, <1>4, <2>1, PrintingOutputs DEF PrintString
  <2>2. CASE status' = "run"
    <3> DEFINE n == Top(Pop(stack))
               chars == [i \in 1 .. n |-> AsChar(heap[(Top(stack) + i - 1) % WordMod])]
    <3>1. /\ Top(stack) \in Word /\ n \in Word
          /\ StrCells(Top(stack), n) \subseteq DOMAIN heap
      BY <1>1, <1>4, <2>2, Operands DEF PrintString
    <3>2. n \in Nat /\ Top(stack) \in Nat
      BY <3>1, Characters
    <3>3. ASSUME NEW i \in 1 .. n
          PROVE  AsChar(heap[(Top(stack) + i - 1) % WordMod]) \in Char
      <4>1. i - 1 \in 0 .. n - 1 /\ Top(stack) + (i - 1) = Top(stack) + i - 1
        BY <3>2
      <4>2. (Top(stack) + i - 1) % WordMod \in DOMAIN heap
        BY <3>1, <4>1 DEF StrCells
      <4>3. \A a \in DOMAIN heap : heap[a] \in Word
        BY DEF Inv, TypeOK
      <4> QED BY <4>2, <4>3, Characters
    <3>4. chars \in Seq(Char)
      BY <3>2, <3>3
    <3>5. PutsEach(chars) /\ status = "run" /\ exited' = exited
      BY <1>1, <1>4, <2>2 DEF PrintString
    <3> HIDE DEF chars
    <3> QED BY <2>2, <3>4, <3>5, PutsEachFlows, RunningFlows
  <2> QED BY <2>1, <2>2
<1> QED BY <1>2, <1>3, <1>4 DEF Prints

\* stdio's own write, and the end of `main`.
LEMMA DrainOutputs == ASSUME Output, Drain PROVE Output'
<1>1. ~exited /\ status \notin Complaints
  BY DEF Drain, Output, Cleaned, Complaints, Silent
<1>2. OutputTyped /\ Flowing
  BY <1>1 DEF Output
<1>3. /\ shown \o pending \in Seq(Symbols) /\ shown' \o <<>> = shown'
      /\ <<>> \in Seq(Char)
  BY <1>2, Sequences, ConcatProperties, ConcatEmptySeq DEF Drain, OutputTyped
<1>4. OutputTyped' /\ Flowing'
  BY <1>2, <1>3 DEF OutputTyped, Flowing, Drain
<1> QED BY <1>1, <1>4 DEF Output, Drain, fvars, vars

\* `run_hvme` cleans stdout a last time.
LEMMA LeaveOutputs == ASSUME Output, Leave PROVE Output'
<1>1. /\ ~exited /\ exited' /\ status' = status
      /\ status \in Complaints \cup {"done"} /\ "done" \notin Complaints
  BY DEF Leave, fvars, vars, Complaints
<1>2. CASE status = "done"
  <2>1. OutputTyped /\ Flowing /\ <<>> \in Messages /\ CleanThen(<<>>)
    BY <1>1, <1>2 DEF Output, Messages, Leave
  <2> QED BY <1>1, <2>1, CleaningCleans DEF Output
<1>3. CASE status # "done"
  <2>1. OutputTyped /\ Cleaned
    BY <1>1, <1>3 DEF Output
  <2>2. shown \o <<>> = shown
    BY <2>1, ConcatEmptySeq DEF OutputTyped
  <2>3. OutputTyped' /\ Cleaned'
    BY <1>3, <2>1, <2>2, Sequences DEF Leave, OutputTyped, Cleaned
  <2> QED BY <1>1, <2>3 DEF Output
<1> QED BY <1>2, <1>3

\* Every step keeps the invariant of the output.
LEMMA StepsOutput == ASSUME Inv, Output, [CNext]_cvars PROVE Output'
<1>1. CASE UNCHANGED cvars
  BY <1>1 DEF cvars, fvars, vars, Output, OutputTyped, Flowing, Cleaned
<1> QED BY <1>1, ComputeOutputs, PrintsOutput, ReadsOutput, SkipOutputs,
           LeaveOutputs, DrainOutputs DEF CNext, Step

LEMMA OutputStarts == ASSUME CInit PROVE Output
<1>1. OutputTyped
  BY Characters, Sequences DEF CInit, OutputTyped
<1>2. shown \o pending = printed
  BY ConcatEmptySeq, Sequences DEF CInit
<1>3. ~exited /\ status \notin Complaints
  BY DEF CInit, FInit, Init, Complaints
<1> QED BY <1>1, <1>2, <1>3 DEF CInit, Output, Flowing

\* The order of the output, and its last line, follow from the invariant.
LEMMA OrderKept == ASSUME Output PROVE OutputInOrder
<1>1. /\ printed \in Seq(Symbols) /\ shown \in Seq(Symbols)
      /\ <<>> \in Seq(Symbols) /\ <<Newline>> \in Seq(Symbols)
      /\ \A message \in Messages : message \in Seq(Symbols)
  BY Sequences DEF Output, OutputTyped
<1>2. CASE exited \/ status \in Complaints
  <2>1. Cleaned
    BY <1>2 DEF Output
  <2>2. shown \o pending = shown
    BY <1>1, <2>1, ConcatEmptySeq DEF Cleaned
  <2>3. PICK message \in Messages :
          \/ shown = printed \o message
          \/ shown = printed \o <<Newline>> \o message
    BY <2>1 DEF Cleaned
  <2>4. printed \o <<>> = printed
    BY <1>1, ConcatEmptySeq
  <2> QED BY <2>2, <2>3, <2>4 DEF OutputInOrder, Messages
<1>3. CASE ~exited /\ status \notin Complaints
  <2>1. shown \o pending = printed
    BY <1>3 DEF Output, Flowing
  <2>2. printed \o <<>> = printed /\ printed \o <<>> \o <<>> = printed
    BY <1>1, ConcatEmptySeq
  <2> QED BY <2>1, <2>2 DEF OutputInOrder
<1> QED BY <1>2, <1>3

LEMMA LineClosed == ASSUME Output PROVE EndsOnNewLine
<1> DEFINE text == IF Last(shown) = ErrorMessage THEN Front(shown) ELSE shown
<1> SUFFICES ASSUME exited, printed # <<>>
             PROVE  IF Last(printed) = Newline THEN text = printed
                    ELSE Last(text) = Newline \/ last_stdout = NUL
  BY DEF EndsOnNewLine
<1>1. Cleaned /\ printed \in Seq(Char) /\ printed \in Seq(Symbols)
  BY Sequences DEF Output, OutputTyped
\* The message is not part of the text.
<1>2. ASSUME NEW s \in Seq(Char), s # <<>>, NEW message \in Messages,
             shown = s \o message
      PROVE  text = s
  <2>1. CASE message = <<>>
    <3>1. shown = s
      BY <1>2, <2>1, ConcatEmptySeq
    <3>2. Last(s) \in Char
      BY <1>2 DEF Last
    <3> QED BY <3>1, <3>2, Characters
  <2>2. CASE message = <<ErrorMessage>>
    <3>1. s \in Seq(Symbols) /\ ErrorMessage \in Symbols
      BY Sequences DEF Symbols
    <3>2. shown = Append(s, ErrorMessage)
      BY <1>2, <2>2, <3>1, AppendIsConcat
    <3>3. Last(shown) = ErrorMessage /\ Front(shown) = s
      BY <3>1, <3>2 DEF Last, Front
    <3> QED BY <3>3
  <2> QED BY <1>2, <2>1, <2>2 DEF Messages
<1> HIDE DEF text
<1>3. PICK message \in Messages :
        \/ /\ shown = printed \o message
           /\ last_stdout = NUL \/ Last(printed) = Newline
        \/ shown = printed \o <<Newline>> \o message /\ Last(printed) # Newline
  BY <1>1 DEF Cleaned
<1>4. CASE /\ shown = printed \o message
           /\ last_stdout = NUL \/ Last(printed) = Newline
  BY <1>1, <1>2, <1>4
<1>5. CASE shown = printed \o <<Newline>> \o message /\ Last(printed) # Newline
  <2>1. <<Newline>> \in Seq(Char) /\ printed \o <<Newline>> \in Seq(Char)
    BY <1>1, Sequences, ConcatProperties
  <2>2. printed \o <<Newline>> # <<>> /\ Last(printed \o <<Newline>>) = Newline
    BY <1>1, <2>1, LastOfConcat DEF Last
  <2>3. text = printed \o <<Newline>>
    BY <1>2, <1>5, <2>1, <2>2
  <2> QED BY <1>5, <2>2, <2>3
<1> QED BY <1>3, <1>4, <1>5

\* The invariants of the executor and of the output hold together.
LEMMA ConsoleInvariant ==
  CSpec => [](Inv /\ StdinLeft /\ Output)
<1>1. CInit => Inv /\ StdinLeft /\ Output
  BY ConsoleStarts, InitInv, OutputStarts
<1>2. Inv /\ StdinLeft /\ Output /\ [CNext]_cvars => (Inv /\ StdinLeft /\ Output)'
  BY ConsoleSteps, NextInv, StepsOutput
<1> QED BY <1>1, <1>2, PTL DEF CSpec

\* The terminal shows what the program printed, in that order, then at most a
\* newline and an error message.
THEOREM OutputKeepsOrder == CSpec => []OutputInOrder
<1>1. Output => OutputInOrder
  BY OrderKept
<1> QED BY <1>1, ConsoleInvariant, PTL

\* The program leaves the terminal at the start of a line, without adding an
\* empty one.
THEOREM TerminalOnNewLine == CSpec => []EndsOnNewLine
<1>1. Output => EndsOnNewLine
  BY LineClosed
<1> QED BY <1>1, ConsoleInvariant, PTL

-----------------------------------------------------------------------------
(* Lines that are not numbers.  That they are reported in the end is left  *)
(* to TLC (InvalidLineReported); how they are discarded is proved.         *)

\* While a line is discarded its end is still to come; once the error is reported
\* it was the last thing read, and the message is the last thing shown.
LineDiscarded ==
  /\ status = "skip_line" => Contains(stdin, Newline)
  /\ status = "read_num_char" =>
       Last(Read_so_far) = Newline /\ Last(shown) = ErrorMessage

\* Nothing else is done meanwhile, and every turn of the loop takes a character.
LineShrinks ==
  status = "skip_line" /\ Step =>
    SkipChar /\ Len(stdin') = Len(stdin) - 1 /\ printed' = printed

Discarding == {"skip_line", "read_num_char"}

\* Only `Sys.read_num` begins to discard a line.
LEMMA ComputeDiscardsNone == ASSUME Compute PROVE status' \notin Discarding
<1> USE DEF Stop, Underflow, Executing, Discarding
<1>1. ASSUME NEW S, Advance(S), status = "run" PROVE status' = "run"
  BY <1>1 DEF Advance
<1>2. ASSUME NEW key, NEW S, JumpError(key, S) PROVE status' \in {"ctrl_flow", "def"}
  BY <1>2 DEF JumpError
<1>3. ASSUME NEW key, NEW k, JumpTo(key, k), status = "run" PROVE status' = "run"
  BY <1>3 DEF JumpTo
<1>4. CASE PushFrame \/ PopFrame \/ PushConst
  BY <1>1, <1>4 DEF PushFrame, PopFrame, PushConst, SegmentError
<1>5. CASE PushFileSeg \/ PopFileSeg
  BY <1>1, <1>5 DEF PushFileSeg, PopFileSeg, FileSegError
<1>6. CASE PushHeap \/ PopHeap
  BY <1>1, <1>6 DEF PushHeap, PopHeap, HeapError
<1>7. CASE PushPointer \/ PopPointer
  BY <1>1, <1>7 DEF PushPointer, PopPointer, PointerError
<1>8. CASE Unary \/ PopConst
  BY <1>1, <1>8 DEF Unary, PopConst, Discard
<1>9. CASE Binary
  BY <1>1, <1>9 DEF Binary, UnderflowOfTwo, ArithmeticError
<1>10. CASE Goto \/ IfGoto
  BY <1>1, <1>2, <1>3, <1>10 DEF Goto, IfGoto
<1>11. CASE Call
  BY <1>2, <1>3, <1>11 DEF Call
<1>12. CASE Ret
  BY <1>12 DEF Ret
<1>13. CASE Halt
  BY <1>13 DEF Halt
<1> QED BY <1>4, <1>5, <1>6, <1>7, <1>8, <1>9, <1>10, <1>11, <1>12, <1>13
        DEF Compute, MemoryAccess, FCall, FRet

LEMMA OthersDiscardNone ==
  ASSUME Prints \/ GetChar \/ GetLine PROVE status' \notin Discarding
<1> USE DEF Stop, Underflow, Executing, Discarding
<1>1. CASE Prints
  BY <1>1 DEF Prints, PrintChar, PrintNum, PrintString, Printing, Discard, PrintStr,
     UnderflowOfTwo, Advance
<1>2. CASE GetChar
  BY <1>2 DEF GetChar, Reading, TakeChar, Advance
<1>3. CASE GetLine
  BY <1>3 DEF GetLine, Reading, TakeLine, Advance
<1> QED BY <1>1, <1>2, <1>3

\* One turn of the loop.
LEMMA SkipCharDiscards ==
  ASSUME StdinLeft, Output, LineDiscarded, SkipChar PROVE LineDiscarded'
<1>1. stdin \in Seq(Char) /\ stdin # <<>> /\ stdin' = Tail(stdin) /\ ErrorOutput
      /\ input' = input
  BY StdinTyped DEF SkipChar
<1>2. /\ Len(stdin) \in Nat \ {0} /\ Len(stdin') = Len(stdin) - 1
      /\ \A i \in 1 .. Len(stdin) - 1 : stdin'[i] = stdin[i + 1]
      /\ Head(stdin) = stdin[1]
  BY <1>1
<1>3. CASE Head(stdin) = Newline /\ SkipLine
  <2>1. status' = "read_num_char" /\ status = "skip_line"
    BY <1>3 DEF SkipLine, Stop
  <2>2. Last(Read_so_far') = Newline
    <3>1. PICK k \in 0 .. Len(input) : stdin = Without(input, k)
      BY DEF StdinLeft
    <3>2. input \in Seq(Char) /\ Len(input) \in Nat
      BY StdinTyped
    <3>3. Len(stdin) = Len(input) - k /\ stdin[1] = input[k + 1]
      <4>1. /\ Len(Without(input, k)) = Len(input) - k
            /\ \A i \in 1 .. Len(input) - k : Without(input, k)[i] = input[k + i]
        BY <3>2, WithoutFacts
      <4>2. 1 \in 1 .. Len(input) - k
        BY <1>2, <3>1, <3>2, <4>1
      <4> QED BY <3>1, <4>1, <4>2
    <3>4. Len(input) - Len(stdin') = k + 1 /\ k + 1 \in 1 .. Len(input)
      BY <1>2, <3>2, <3>3
    <3>5. /\ SubSeq(input, 1, k + 1) \in Seq(Char)
          /\ Len(SubSeq(input, 1, k + 1)) = k + 1
          /\ SubSeq(input, 1, k + 1)[k + 1] = input[k + 1]
      BY <3>2, <3>4
    <3> QED BY <1>1, <1>2, <1>3, <3>3, <3>4, <3>5 DEF Read_so_far, Last
  <2>3. Last(shown') = ErrorMessage
    <3>1. "read_num_char" \in Complaints
      BY DEF Complaints, Silent, Statuses
    <3>2. shown' = shown \o pending \o Trailer \o <<ErrorMessage>>
      BY <1>1, <2>1, <3>1 DEF ErrorOutput, CleanThen
    <3>3. /\ shown \in Seq(Symbols) /\ pending \in Seq(Symbols)
          /\ Trailer \in Seq(Symbols) /\ <<ErrorMessage>> \in Seq(Symbols)
      BY Sequences DEF Output, OutputTyped, Trailer, Messages
    <3>4. shown \o pending \o Trailer \in Seq(Symbols)
      BY <3>3, ConcatProperties
    <3> QED BY <3>2, <3>3, <3>4, LastOfConcat DEF Last
  <2> QED BY <2>1, <2>2, <2>3 DEF LineDiscarded
<1>4. CASE Head(stdin) # Newline /\ UNCHANGED vars
  <2>1. status' = status /\ status \in {"skip_line", "skip_eof"}
    BY <1>4 DEF SkipChar, vars
  <2>2. ASSUME status = "skip_line" PROVE Contains(stdin', Newline)
    <3>1. PICK i \in 1 .. Len(stdin) : stdin[i] = Newline
      BY <2>2 DEF LineDiscarded, Contains
    <3>2. i # 1
      BY <1>2, <1>4, <3>1
    <3>3. i - 1 \in 1 .. Len(stdin) - 1 /\ i - 1 + 1 = i
      BY <1>2, <3>1, <3>2
    <3>4. stdin'[i - 1] = Newline /\ i - 1 \in 1 .. Len(stdin')
      BY <1>2, <3>1, <3>3
    <3> QED BY <3>4 DEF Contains
  <2> QED BY <2>1, <2>2 DEF LineDiscarded
<1> QED BY <1>3, <1>4 DEF SkipChar, SkipEnds

LEMMA StepsDiscard ==
  ASSUME StdinLeft, Output, LineDiscarded, [CNext]_cvars PROVE LineDiscarded'
<1>1. CASE UNCHANGED cvars
  BY <1>1 DEF cvars, fvars, vars, LineDiscarded, Read_so_far
<1>2. CASE Compute \/ Prints \/ GetChar \/ GetLine
  BY <1>2, ComputeDiscardsNone, OthersDiscardNone DEF LineDiscarded, Discarding
<1>3. CASE GetNum
  <2>1. status' # "read_num_char"
    BY <1>3 DEF GetNum, Stop, TakeNum, Advance, Reading, Executing
  <2>2. status' = "skip_line" => Contains(stdin', Newline)
    BY <1>3 DEF GetNum, Stop, TakeNum, Advance, Reading, Executing
  <2> QED BY <2>1, <2>2 DEF LineDiscarded
<1>4. CASE SkipChar
  BY <1>4, SkipCharDiscards
<1>5. CASE Drain
  BY <1>5 DEF Drain, fvars, vars, LineDiscarded
<1>6. CASE Leave
  <2>1. UNCHANGED <<status, stdin, input>> /\ status # "skip_line"
    BY <1>6 DEF Leave, fvars, vars, Complaints, Silent
  <2>2. ASSUME status = "read_num_char" PROVE shown' = shown
    <3>1. "read_num_char" \in Complaints
      BY DEF Complaints, Silent, Statuses
    <3>2. pending = <<>> /\ shown \in Seq(Symbols)
      BY <2>2, <3>1 DEF Output, OutputTyped, Cleaned
    <3> QED BY <1>6, <2>2, <3>2, ConcatEmptySeq DEF Leave
  <2> QED BY <2>1, <2>2 DEF LineDiscarded, Read_so_far
<1> QED BY <1>1, <1>2, <1>3, <1>4, <1>5, <1>6 DEF CNext, Step, Reads

\* Of a line that is no number neither less nor more is discarded than it has, up to
\* its newline, which comes after finitely many turns of the loop in which nothing
\* else happens; then, and only then, the error is reported, after all output.
THEOREM BadLinesAreDiscarded == CSpec => []LineDiscarded /\ [][LineShrinks]_cvars
<1>1. CInit => LineDiscarded
  BY DEF CInit, FInit, Init, LineDiscarded
<1>2. StdinLeft /\ Output /\ LineDiscarded /\ [CNext]_cvars => LineDiscarded'
  BY StepsDiscard
<1>3. StdinLeft => LineShrinks
  <2> SUFFICES ASSUME StdinLeft, status = "skip_line", Step
               PROVE  SkipChar /\ Len(stdin') = Len(stdin) - 1 /\ printed' = printed
    BY DEF LineShrinks
  <2>1. SkipChar
    <3>1. \A op : ~Executing(op)
      BY DEF Executing
    <3>2. ~Prints /\ ~Reads
      BY <3>1 DEF Prints, PrintChar, PrintNum, PrintString, Printing,
         Reads, GetChar, GetNum, GetLine, Reading
    <3>3. ~Compute
      BY <3>1 DEF Compute, MemoryAccess, PushFrame, PopFrame, PushFileSeg, PopFileSeg,
         PushConst, PushHeap, PopHeap, PushPointer, PopPointer, Unary, Binary, Goto, IfGoto,
         PopConst, Halt, FCall, Call, FRet, Ret
    <3>4. ~Leave
      BY DEF Leave, Complaints, Silent
    <3> QED BY <3>2, <3>3, <3>4 DEF Step
  <2>2. Len(stdin') = Len(stdin) - 1
    BY <2>1, StdinTyped DEF SkipChar
  <2>3. printed' = printed
    BY <2>1 DEF SkipChar, ErrorOutput, CleanThen, output
  <2> QED BY <2>1, <2>2, <2>3
<1> QED BY <1>1, <1>2, <1>3, ConsoleInvariant, PTL DEF CSpec

-----------------------------------------------------------------------------
(* The characters that show, and the digits of a number. *)

\* The characters that show, one by one.
LEMMA VisibleCount ==
  ASSUME NEW chars \in Seq(Char), NEW seen,
         seen = {i \in DOMAIN chars : chars[i] # NUL}
  PROVE  /\ Len(Visible(chars)) = Cardinality(seen)
         /\ \A i \in seen :
              Visible(chars)[Cardinality({j \in seen : j <= i})] = chars[i]
<1> DEFINE place == [k \in 1 .. Cardinality(seen) |->
                       CHOOSE i \in seen : Cardinality(UpTo(seen, i)) = k]
<1>1. Len(chars) \in Nat /\ DOMAIN chars = 1 .. Len(chars)
  OBVIOUS
<1>2. seen \subseteq 1 .. Len(chars)
  BY <1>1
<1>3. Visible(chars) = [k \in 1 .. Cardinality(seen) |-> chars[place[k]]]
  BY DEF Visible, UpTo
<1>4. \A k \in 1 .. Cardinality(seen) :
        place[k] = CHOOSE i \in seen : Cardinality(UpTo(seen, i)) = k
  OBVIOUS
<1> HIDE DEF place
<1>5. IsFiniteSet(seen) /\ Cardinality(seen) \in Nat
  <2>1. IsFiniteSet(1 .. Len(chars))
    BY <1>1, FS_Interval, 1 \in Int, Len(chars) \in Int
  <2>2. seen \in SUBSET (1 .. Len(chars))
    BY <1>2
  <2> QED BY <2>1, <2>2, FS_Subset, FS_CardinalityType
<1>6. Len(Visible(chars)) = Cardinality(seen)
  <2>1. Visible(chars) \in Seq(Char)
    BY VisibleFacts
  <2>2. DOMAIN Visible(chars) = 1 .. Cardinality(seen)
    BY <1>3
  <2> QED BY <1>5, <2>1, <2>2
<1>7. ASSUME NEW i \in seen
      PROVE  Visible(chars)[Cardinality({j \in seen : j <= i})] = chars[i]
  <2> DEFINE k == Cardinality(UpTo(seen, i))
             p == place[k]
  <2>1. k \in 1 .. Cardinality(seen)
    <3>1. i \in UpTo(seen, i)
      BY <1>2 DEF UpTo
    <3>2. /\ IsFiniteSet(UpTo(seen, i)) /\ k \in Nat /\ k <= Cardinality(seen)
      BY <1>5, UpToFacts
    <3>3. k # 0
      BY <3>1, <3>2, FS_EmptySet
    <3> QED BY <1>5, <3>2, <3>3
  <2>2. p \in seen /\ Cardinality(UpTo(seen, p)) = k
    <3>1. \E q \in seen : Cardinality(UpTo(seen, q)) = k
      OBVIOUS
    <3>2. p = CHOOSE q \in seen : Cardinality(UpTo(seen, q)) = k
      BY <1>4, <2>1
    <3> QED BY <3>1, <3>2
  <2> HIDE DEF p
  \* Two elements with as many below them are the same.
  <2>3. ASSUME NEW a \in seen, NEW b \in seen, a < b
        PROVE  Cardinality(UpTo(seen, a)) # Cardinality(UpTo(seen, b))
    <3>1. a \in Nat /\ b \in Nat
      BY <1>2
    <3>2. \A j \in seen : j \in Nat
      BY <1>2
    <3>3. b \in UpTo(seen, b) /\ b \notin UpTo(seen, a)
      BY <2>3, <3>1 DEF UpTo
    <3>4. UpTo(seen, a) \in SUBSET UpTo(seen, b)
      BY <2>3, <3>1, <3>2 DEF UpTo
    <3>5. IsFiniteSet(UpTo(seen, b))
      BY <1>5, UpToFacts
    <3> QED BY <3>3, <3>4, <3>5, FS_Subset
  <2>4. p = i
    <3>1. p \in Nat /\ i \in Nat
      BY <1>2, <2>2
    <3>2. ~(p < i) /\ ~(i < p)
      BY <2>2, <2>3
    <3> QED BY <3>1, <3>2
  <2>5. Visible(chars)[k] = chars[p]
    BY <1>3, <2>1 DEF p
  <2> QED BY <2>4, <2>5 DEF UpTo
<1> QED BY <1>6, <1>7

-----------------------------------------------------------------------------
(* The decimal digits of a word. *)

LEMMA PowersAre ==
  /\ Powers[1] = 10000 /\ Powers[2] = 1000 /\ Powers[3] = 100
  /\ Powers[4] = 10 /\ Powers[5] = 1
  BY DEF Powers

\* A number with m leading zeros out of five digits.
Zeros(n, m) == \A i \in 1 .. 4 : n < Powers[i] <=> i <= m
DecimalFrom(n, m) ==
  /\ Decimal(n) \in Seq(Int) /\ Len(Decimal(n)) = 5 - m
  /\ \A i \in 1 .. 5 - m :
       Decimal(n)[i] = 48 + ((n \div Powers[m + i]) % 10)

LEMMA DecimalBy ==
  ASSUME NEW n \in Nat, NEW m \in 0 .. 4, Zeros(n, m)
  PROVE  DecimalFrom(n, m)
<1> DEFINE leading == {i \in 1 .. 4 : n < Powers[i]}
<1>1. Decimal(n) = [i \in 1 .. 5 - Cardinality(leading) |->
                      48 + ((n \div Powers[Cardinality(leading) + i]) % 10)]
  BY DEF Decimal
<1>2. leading = {i \in 1 .. 4 : i <= m}
  BY DEF Zeros
<1> HIDE DEF leading
<1>3. leading = 1 .. m
  BY <1>2
<1>4. Cardinality(1 .. m) = m
  <2>1. 1 \in Int /\ m \in Int /\ (1 > m => m = 0) /\ m - 1 + 1 = m
    OBVIOUS
  <2> QED BY <2>1, FS_Interval
<1>5. Decimal(n) = [i \in 1 .. 5 - m |-> 48 + ((n \div Powers[m + i]) % 10)]
  BY <1>1, <1>3, <1>4
<1>6. \A i \in 1 .. 5 - m : 48 + ((n \div Powers[m + i]) % 10) \in Int
  <2> TAKE i \in 1 .. 5 - m
  <2>1. m + i \in 1 .. 5
    OBVIOUS
  <2>2. \A k \in 1 .. 5 : k = 1 \/ k = 2 \/ k = 3 \/ k = 4 \/ k = 5
    OBVIOUS
  <2>3. Powers[m + i] \in Nat \ {0}
    BY <2>1, <2>2, PowersAre
  <2> QED BY <2>3
<1> QED BY <1>5, <1>6 DEF DecimalFrom

\* Every number has some.
LEMMA LeadingZeros ==
  ASSUME NEW n \in Nat
  PROVE  \E m \in 0 .. 4 : Zeros(n, m)
<1>1. \A i \in 1 .. 4 : i = 1 \/ i = 2 \/ i = 3 \/ i = 4
  OBVIOUS
<1>2. ASSUME NEW m \in 0 .. 4,
             (n < 10000 <=> 1 <= m) /\ (n < 1000 <=> 2 <= m),
             (n < 100 <=> 3 <= m) /\ (n < 10 <=> 4 <= m)
      PROVE  Zeros(n, m)
  BY <1>1, <1>2, PowersAre DEF Zeros
<1>3. CASE n < 10
  BY <1>3, <1>2, 4 \in 0 .. 4
<1>4. CASE n \in 10 .. 99
  BY <1>4, <1>2, 3 \in 0 .. 4
<1>5. CASE n \in 100 .. 999
  BY <1>5, <1>2, 2 \in 0 .. 4
<1>6. CASE n \in 1000 .. 9999
  BY <1>6, <1>2, 1 \in 0 .. 4
<1>7. CASE n >= 10000
  BY <1>7, <1>2, 0 \in 0 .. 4
<1> QED BY <1>3, <1>4, <1>5, <1>6, <1>7

LEMMA DecimalOfDigit ==
  ASSUME NEW n \in 0 .. 9
  PROVE  Decimal(n) = <<48 + n>>
<1>1. \A i \in 1 .. 4 : i = 1 \/ i = 2 \/ i = 3 \/ i = 4
  OBVIOUS
<1>2. Zeros(n, 4)
  BY <1>1, PowersAre DEF Zeros
<1>3. /\ Decimal(n) \in Seq(Int) /\ Len(Decimal(n)) = 1
      /\ Decimal(n)[1] = 48 + ((n \div Powers[5]) % 10)
  <2>1. n \in Nat /\ 4 \in 0 .. 4
    OBVIOUS
  <2>2. DecimalFrom(n, 4)
    BY <1>2, <2>1, DecimalBy
  <2> QED BY <2>2 DEF DecimalFrom
<1>4. (n \div 1) % 10 = n
  OBVIOUS
<1>5. Decimal(n)[1] = 48 + n
  BY <1>3, <1>4, PowersAre
<1> QED BY <1>3, <1>5

\* A digit more.
LEMMA DecimalAppend ==
  ASSUME NEW a \in Nat, a # 0, NEW c \in 0 .. 9, 10 * a + c \in Word
  PROVE  Decimal(10 * a + c) = Append(Decimal(a), 48 + c)
<1>0. a \in Nat /\ a < 10000
  <2>1. 10 * a + c < WordMod /\ WordMod \in Nat
    BY WordModAssumption DEF Word
  <2> QED BY <2>1, WordCharAssumption
<1>1. PICK m \in 0 .. 4 : Zeros(a, m)
  BY <1>0, LeadingZeros
<1>2. m # 0
  <2>1. a < Powers[1]
    BY <1>0, PowersAre
  <2> QED BY <1>1, <2>1 DEF Zeros
<1>3. PICK n \in Nat : n = 10 * a + c
  OBVIOUS
<1>4. Zeros(n, m - 1)
  <2> SUFFICES ASSUME NEW i \in 1 .. 4
               PROVE  n < Powers[i] <=> i <= m - 1
    BY DEF Zeros
  <2>1. CASE i = 4
    BY <1>2, <1>3, <2>1, PowersAre
  <2>2. CASE i \in 1 .. 3
    <3>1. Powers[i] = 10 * Powers[i + 1] /\ Powers[i + 1] \in Nat
      <4>1. i = 1 \/ i = 2 \/ i = 3
        BY <2>2
      <4> QED BY <4>1, PowersAre
    <3>2. n < Powers[i] <=> a < Powers[i + 1]
      BY <1>3, <3>1
    <3>3. a < Powers[i + 1] <=> i + 1 <= m
      BY <1>1, <2>2 DEF Zeros
    <3> QED BY <3>2, <3>3
  <2> QED BY <2>1, <2>2
<1>5. /\ Decimal(a) \in Seq(Int) /\ Len(Decimal(a)) = 5 - m
      /\ \A i \in 1 .. 5 - m :
           Decimal(a)[i] = 48 + ((a \div Powers[m + i]) % 10)
  <2>1. DecimalFrom(a, m)
    BY <1>0, <1>1, DecimalBy
  <2> QED BY <2>1 DEF DecimalFrom
<1>6. /\ Decimal(n) \in Seq(Int) /\ Len(Decimal(n)) = 6 - m
      /\ \A i \in 1 .. 6 - m :
           Decimal(n)[i] = 48 + ((n \div Powers[m - 1 + i]) % 10)
  <2>1. PICK l \in 0 .. 4 : l = m - 1
    BY <1>2
  <2>2. 5 - l = 6 - m
    BY <2>1
  <2>3. DecimalFrom(n, l)
    BY <1>4, <2>1, DecimalBy
  <2>4. DecimalFrom(n, l) =>
          /\ Decimal(n) \in Seq(Int) /\ Len(Decimal(n)) = 5 - l
          /\ \A i \in 1 .. 5 - l :
               Decimal(n)[i] = 48 + ((n \div Powers[l + i]) % 10)
    BY DEF DecimalFrom
  <2> QED BY <2>1, <2>2, <2>3, <2>4
<1>7. ASSUME NEW i \in 1 .. 5 - m
      PROVE  n \div Powers[m - 1 + i] = a \div Powers[m + i]
  <2>1. m - 1 + i \in 1 .. 4 /\ m + i = m - 1 + i + 1
    BY <1>2
  <2>2. \A k \in 1 .. 4 : n \div Powers[k] = a \div Powers[k + 1]
    <3> TAKE k \in 1 .. 4
    <3>1. k = 1 \/ k = 2 \/ k = 3 \/ k = 4
      OBVIOUS
    <3>2. n \div 10000 = a \div 1000 /\ n \div 1000 = a \div 100
      BY <1>3
    <3>3. n \div 100 = a \div 10 /\ n \div 10 = a \div 1
      BY <1>3
    <3> QED BY <3>1, <3>2, <3>3, PowersAre
  <2> QED BY <2>1, <2>2
<1>8. (n \div Powers[5]) % 10 = c
  <2>1. (n \div 1) % 10 = c
    BY <1>3
  <2> QED BY <2>1, PowersAre
<1> DEFINE t == Append(Decimal(a), 48 + c)
<1>9. /\ t \in Seq(Int) /\ Len(t) = 6 - m /\ t[6 - m] = 48 + c
      /\ \A i \in 1 .. 5 - m : t[i] = Decimal(a)[i]
  BY <1>5
<1> HIDE DEF t
<1>10. ASSUME NEW i \in 1 .. 6 - m
       PROVE  Decimal(n)[i] = t[i]
  <2>1. CASE i = 6 - m
    <3>1. m - 1 + i = 5
      BY <2>1
    <3> QED BY <1>6, <1>8, <1>9, <2>1, <3>1
  <2>2. CASE i # 6 - m
    <3>1. i \in 1 .. 5 - m
      BY <2>2
    <3> QED BY <1>5, <1>6, <1>7, <1>9, <3>1
  <2> QED BY <2>1, <2>2
<1>11. Decimal(n) = t
  BY <1>6, <1>9, <1>10, SeqEqual
<1> QED BY <1>3, <1>11 DEF t

LEMMA PartFacts ==
  ASSUME NEW X, NEW d \in Seq(X), NEW m \in Nat, NEW n \in m .. Len(d)
  PROVE  /\ SubSeq(d, m + 1, n) \in Seq(X) /\ Len(SubSeq(d, m + 1, n)) = n - m
         /\ \A i \in 1 .. n - m : SubSeq(d, m + 1, n)[i] = d[m + i]
<1>1. Len(d) \in Nat
  OBVIOUS
<1>2. m + 1 \in 1 .. Len(d) + 1 /\ n \in (m + 1) - 1 .. Len(d)
  BY <1>1
<1>3. /\ SubSeq(d, m + 1, n) \in Seq(X)
      /\ Len(SubSeq(d, m + 1, n)) = n - (m + 1) + 1
      /\ \A i \in 1 .. n - (m + 1) + 1 : SubSeq(d, m + 1, n)[i] = d[(m + 1) + i - 1]
  BY <1>2, SubSeqProperties
<1>4. n - (m + 1) + 1 = n - m /\ \A i \in Int : (m + 1) + i - 1 = m + i
  BY <1>1
<1> QED BY <1>3, <1>4

\* The k first digits of d, of which v is the number, without leading zeros.
DigitsShown(d, k, v) ==
  \E zeros \in 0 .. k - 1 :
    /\ \A i \in 1 .. zeros : d[i] = 48
    /\ Decimal(v) = SubSeq(d, zeros + 1, k)
    /\ d[zeros + 1] # 48 \/ (v = 0 /\ zeros + 1 = k)

LEMMA OneDigitMore ==
  ASSUME NEW d \in Seq(Int), NEW k \in 1 .. Len(d), NEW c \in 0 .. 9, d[k] = 48 + c,
         NEW u \in Nat, NEW v \in Word, v = 10 * u + c,
         u = 0 => \A i \in 1 .. k - 1 : d[i] = 48,
         u # 0 => DigitsShown(d, k - 1, u)
  PROVE  DigitsShown(d, k, v)
<1>1. Len(d) \in Nat /\ k \in Nat /\ k >= 1 /\ k <= Len(d)
  OBVIOUS
<1>2. CASE u = 0
  <2>1. Decimal(v) = <<d[k]>>
    <3>1. v = c
      BY <1>2
    <3>2. Decimal(c) = <<48 + c>>
      BY DecimalOfDigit
    <3> QED BY <3>1, <3>2
  <2>2. PICK zeros \in 0 .. k - 1 : zeros = k - 1 /\ zeros + 1 = k
    BY <1>1
  <2>3. SubSeq(d, zeros + 1, k) = <<d[k]>>
    <3> DEFINE s == SubSeq(d, zeros + 1, k)
    <3>1. zeros \in Nat /\ k \in zeros .. Len(d) /\ k - zeros = 1 /\ 1 \in 1 .. 1
      BY <1>1, <2>2
    <3>2. s \in Seq(Int) /\ Len(s) = 1 /\ s[1] = d[zeros + 1]
      BY <3>1, PartFacts
    <3> HIDE DEF s
    <3>3. s = <<d[k]>>
      BY <2>2, <3>2
    <3> QED BY <3>3 DEF s
  <2>4. d[k] # 48 \/ v = 0
    BY <1>2
  <2>5. \A i \in 1 .. zeros : d[i] = 48
    BY <1>2, <2>2
  <2>6. d[zeros + 1] # 48 \/ (v = 0 /\ zeros + 1 = k)
    BY <2>2, <2>4
  <2> QED BY <2>1, <2>2, <2>3, <2>5, <2>6 DEF DigitsShown
<1>3. CASE u # 0
  <2>1. PICK zeros \in 0 .. k - 1 - 1 :
          /\ \A i \in 1 .. zeros : d[i] = 48
          /\ Decimal(u) = SubSeq(d, zeros + 1, k - 1)
          /\ d[zeros + 1] # 48
    <3>1. DigitsShown(d, k - 1, u)
      BY <1>3
    <3> QED BY <1>3, <3>1 DEF DigitsShown
  <2>2. zeros \in Nat /\ zeros + 1 <= k - 1 /\ zeros \in 0 .. k - 1
    BY <1>1
  <2>3. 10 * u + c \in Word /\ Decimal(v) = Decimal(10 * u + c)
    OBVIOUS
  <2>4. u \in Nat /\ u # 0
    BY <1>3
  <2>5. Decimal(v) = Append(Decimal(u), d[k])
    <3>1. Decimal(10 * u + c) = Append(Decimal(u), 48 + c)
      BY <2>3, <2>4, DecimalAppend
    <3> QED BY <2>3, <3>1
  <2>6. Append(SubSeq(d, zeros + 1, k - 1), d[k]) = SubSeq(d, zeros + 1, k)
    <3> DEFINE s == SubSeq(d, zeros + 1, k - 1)
               t == SubSeq(d, zeros + 1, k)
    <3>1. /\ s \in Seq(Int) /\ Len(s) = k - 1 - zeros
          /\ \A i \in 1 .. k - 1 - zeros : s[i] = d[zeros + i]
      <4>1. zeros \in Nat /\ k - 1 \in zeros .. Len(d)
        BY <1>1, <2>2
      <4> QED BY <4>1, PartFacts
    <3>2. /\ t \in Seq(Int) /\ Len(t) = k - zeros
          /\ \A i \in 1 .. k - zeros : t[i] = d[zeros + i]
      <4>1. zeros \in Nat /\ k \in zeros .. Len(d)
        BY <1>1, <2>2
      <4> QED BY <4>1, PartFacts
    <3> HIDE DEF s, t
    <3>3. d[k] \in Int /\ k - zeros \in Nat /\ k - 1 - zeros \in Nat
      BY <1>1, <2>2
    <3> DEFINE a == Append(s, d[k])
    <3>4. /\ a \in Seq(Int) /\ Len(a) = k - zeros
          /\ \A i \in 1 .. k - 1 - zeros : a[i] = s[i]
          /\ a[k - zeros] = d[k]
      <4>1. k - 1 - zeros + 1 = k - zeros
        BY <3>3
      <4> QED BY <3>1, <3>3, <4>1
    <3> HIDE DEF a
    <3>5. ASSUME NEW i \in 1 .. k - zeros
          PROVE  a[i] = t[i]
      <4>1. CASE i = k - zeros
        <5>1. zeros + i = k
          BY <1>1, <2>2, <4>1
        <5> QED BY <3>2, <3>4, <4>1, <5>1
      <4>2. CASE i # k - zeros
        <5>1. i \in 1 .. k - 1 - zeros
          BY <3>3, <4>2
        <5>2. a[i] = s[i] /\ s[i] = d[zeros + i]
          BY <3>1, <3>4, <5>1
        <5> QED BY <3>2, <5>2
      <4> QED BY <4>1, <4>2
    <3>6. a = t
      <4>1. Len(a) = Len(t) /\ \A i \in 1 .. Len(a) : a[i] = t[i]
        BY <3>2, <3>4, <3>5
      <4> QED BY <3>2, <3>4, <4>1, SeqEqual
    <3> QED BY <3>6 DEF a, s, t
  <2> QED BY <2>1, <2>2, <2>5, <2>6 DEF DigitsShown
<1> QED BY <1>2, <1>3

\* The number that digits stand for, and how it is printed.
LEMMA NumberShown ==
  ASSUME NEW d \in Seq(Int), \A i \in 1 .. Len(d) : d[i] \in 48 .. 57,
         NEW V, V[0] = 0,
         \A n \in 1 .. Len(d) : V[n] = 10 * V[n - 1] + d[n] - 48
  PROVE  \A k \in 0 .. Len(d) :
           V[k] \in Nat /\ (k # 0 /\ V[k] \in Word => DigitsShown(d, k, V[k]))
<1> DEFINE Good(k) ==
      /\ V[k] \in Nat /\ (V[k] = 0 => \A i \in 1 .. k : d[i] = 48)
      /\ k # 0 /\ V[k] \in Word => DigitsShown(d, k, V[k])
    Bad == {k \in 0 .. Len(d) : ~Good(k)}
<1>1. Len(d) \in Nat
  OBVIOUS
<1>2. Good(0)
  OBVIOUS
<1>3. ASSUME NEW k \in 1 .. Len(d), Good(k - 1) PROVE Good(k)
  <2> DEFINE u == V[k - 1]
             v == V[k]
  <2>1. u \in Nat /\ (u = 0 => \A i \in 1 .. k - 1 : d[i] = 48)
    BY <1>3
  <2>2. u # 0 /\ u \in Word => DigitsShown(d, k - 1, u)
    <3>1. u # 0 => k - 1 # 0
      OBVIOUS
    <3> QED BY <1>3, <3>1
  <2>3. PICK c \in 0 .. 9 : v = 10 * u + c /\ d[k] = 48 + c
    <3>1. V[k] = 10 * V[k - 1] + d[k] - 48
      OBVIOUS
    <3>2. PICK e \in 48 .. 57 : e = d[k]
      OBVIOUS
    <3>3. v = 10 * u + (e - 48) /\ e - 48 \in 0 .. 9 /\ d[k] = 48 + (e - 48)
      BY <2>1, <3>1, <3>2
    <3> QED BY <3>3
  <2> HIDE DEF u, v
  <2>4. v \in Nat /\ (v = 0 => u = 0 /\ d[k] = 48) /\ u <= v
    BY <2>1, <2>3
  <2>5. v = 0 => \A i \in 1 .. k : d[i] = 48
    <3>1. \A i \in 1 .. k : i = k \/ i \in 1 .. k - 1
      BY <1>1
    <3> QED BY <2>1, <2>4, <3>1
  <2>6. ASSUME v \in Word PROVE DigitsShown(d, k, v)
    <3>1. u \in Word
      BY <2>1, <2>4, <2>6, WordModAssumption DEF Word
    <3>2. u # 0 => DigitsShown(d, k - 1, u)
      BY <2>2, <3>1
    <3>3. u \in Nat /\ (u = 0 => \A i \in 1 .. k - 1 : d[i] = 48)
      BY <2>1
    <3>4. c \in 0 .. 9 /\ d[k] = 48 + c /\ v = 10 * u + c /\ v \in Word
      BY <2>3, <2>6
    <3>5. d \in Seq(Int) /\ k \in 1 .. Len(d)
      OBVIOUS
    <3> QED BY <3>2, <3>3, <3>4, <3>5, OneDigitMore, Zenon
  <2> QED BY <2>4, <2>5, <2>6 DEF v
<1> HIDE DEF Good
<1>4. Bad = {}
  <2> SUFFICES ASSUME Bad # {} PROVE FALSE
    OBVIOUS
  <2>1. PICK k \in Bad : \A j \in Bad : k <= j
    <3>1. Bad \subseteq Nat
      OBVIOUS
    <3> HIDE DEF Bad
    <3> QED BY <3>1, LeastNumber
  <2>2. k \in 1 .. Len(d) /\ k - 1 \in 0 .. Len(d) /\ ~(k <= k - 1)
    <3>1. k # 0 /\ k \in 0 .. Len(d)
      BY <1>2, <2>1
    <3> QED BY <1>1, <3>1
  <2>3. Good(k - 1)
    BY <2>1, <2>2
  <2> QED BY <1>3, <2>1, <2>2, <2>3
<1>5. \A k \in 0 .. Len(d) : Good(k)
  BY <1>4
<1> QED BY <1>5 DEF Good

-----------------------------------------------------------------------------
(* The instructions of the echo programs, on a console. *)

Quiet == UNCHANGED <<input, stdin, printed>>

LEMMA QuietErrors == ASSUME ErrorOutput PROVE printed' = printed
  BY DEF ErrorOutput, CleanThen, output

LEMMA ComputeRuns ==
  ASSUME Inv, status = "run", ei[fi] < Len(Active.insts), Compute
  PROVE  /\ Quiet
         /\ Cur.op = "PUSH" /\ Cur.seg = "CONST" => PushConst
         /\ Cur.op = "PUSH" /\ Cur.seg = "ARG" => PushFrame
         /\ Cur.op = "CALL" => Call
         /\ Cur.op = "RET" => Ret
         /\ Cur.op \notin BuiltinOps
<1>1. Quiet
  BY QuietErrors DEF Compute, Quiet
<1>2. \/ MemoryAccess \/ Unary \/ Binary \/ Goto \/ IfGoto \/ PopConst
      \/ Call \/ Ret
  <2>1. ~Halt
    <3>1. ei[fi] \in Nat /\ Len(Active.insts) \in Nat
      BY FileTyped DEF Inv, TypeOK, Active, IsFile
    <3> QED BY <3>1 DEF Halt
  <2> QED BY <2>1 DEF Compute, FCall, FRet
<1>3. \A op : Executing(op) => Cur.op = op
  BY DEF Executing
<1>4. CASE MemoryAccess
  BY <1>1, <1>3, <1>4 DEF MemoryAccess, PushFrame, PopFrame, PushFileSeg, PopFileSeg,
     PushConst, PushHeap, PopHeap, PushPointer, PopPointer, BuiltinOps
<1>5. CASE Unary \/ Binary \/ Goto \/ IfGoto \/ PopConst
  BY <1>1, <1>3, <1>5
     DEF Unary, Binary, Goto, IfGoto, PopConst, UnaryOps, BinaryOps, BuiltinOps
<1>6. CASE Call \/ Ret
  BY <1>1, <1>3, <1>6 DEF Call, Ret, BuiltinOps
<1> QED BY <1>2, <1>4, <1>5, <1>6

\* What may happen while the program runs is decided by the instruction.
LEMMA Dispatch ==
  ASSUME Inv, status = "run", ei[fi] < Len(Active.insts), Step
  PROVE  /\ Cur.op = "PUSH" /\ Cur.seg = "CONST" => PushConst /\ Quiet
         /\ Cur.op = "PUSH" /\ Cur.seg = "ARG" => PushFrame /\ Quiet
         /\ Cur.op = "CALL" => Call /\ Quiet
         /\ Cur.op = "RET" => Ret /\ Quiet
         /\ Cur.op = "READ_STR" => GetLine
         /\ Cur.op = "READ_NUM" => GetNum
         /\ Cur.op = "PRINT_STR" => PrintString
         /\ Cur.op = "PRINT_NUM" => PrintNum
<1>1. Compute \/ Prints \/ Reads
  BY DEF Step, SkipChar, Leave, Complaints
<1>2. \A op : Executing(op) => Cur.op = op
  BY DEF Executing
<1>3. CASE Compute
  BY <1>3, ComputeRuns DEF BuiltinOps
<1>4. CASE Prints
  BY <1>2, <1>4 DEF Prints, PrintChar, PrintNum, PrintString, Printing
<1>5. CASE Reads
  BY <1>2, <1>5 DEF Reads, GetChar, GetNum, GetLine, Reading
<1> QED BY <1>1, <1>3, <1>4, <1>5

\* The next instruction, and a cell more.
OnTo == /\ UNCHANGED <<prog, fi, reg>>
        /\ status' = "run" /\ ei'[fi] = ei[fi] + 1
KeepsBelow(m) ==
  m <= stack'.len /\ \A a \in 0 .. m - 1 : stack'.ops[a] = stack.ops[a]
Pushes(v) ==
  OnTo /\ stack'.sp = stack.sp + 1 /\ stack'.ops[stack.sp] = v /\ KeepsBelow(stack.sp)

LEMMA AdvanceOn ==
  ASSUME Inv, status = "run", NEW S, Advance(S)
  PROVE  OnTo /\ stack' = S
  BY DEF Inv, TypeOK, Advance, OnTo

LEMMA Pushing ==
  ASSUME Inv, status = "run", NEW v \in Word, Advance(Push(stack, v))
  PROVE  Pushes(v)
<1>1. OnTo /\ stack' = Push(stack, v)
  BY AdvanceOn
<1>2. IsStack(stack) /\ Backed(stack) /\ stack.sp \in Nat
  BY Running
<1>3. PICK T : T = Push(stack, v)
  OBVIOUS
<1>4. /\ IsStack(T) /\ Backed(T)
      /\ T.sp = stack.sp + 1 /\ T.ops[stack.sp] = v
      /\ \A a \in 0 .. stack.sp - 1 : T.ops[a] = stack.ops[a]
  BY <1>2, <1>3, PushFacts
<1>5. stack.sp <= T.len
  BY <1>2, <1>4 DEF IsStack, Backed
<1> QED BY <1>1, <1>3, <1>4, <1>5 DEF Pushes, KeepsBelow

LEMMA PushesConst ==
  ASSUME Inv, status = "run", PushConst
  PROVE  Pushes(Cur.offset) /\ heap' = heap
<1>1. Cur.offset \in Word
  BY CurTyped DEF Inv, PushConst
<1> QED BY <1>1, Pushing DEF PushConst, KeepMemory

LEMMA PushesArg ==
  ASSUME Inv, status = "run", PushFrame, Cur.seg = "ARG", status' = "run",
         NEW a, a = reg.arg + Cur.offset
  PROVE  Pushes(stack.ops[a]) /\ heap' = heap
<1>1. InSegment /\ Advance(Push(stack, stack.ops[SegAddr])) /\ KeepMemory
  BY DEF PushFrame, SegmentError, Stop
<1>2. SegAddr = a /\ a \in Nat
  <2>1. Cur.offset \in Nat /\ reg.arg \in Nat
    BY CurTyped DEF Inv, PushFrame, TypeOK
  <2> QED BY <2>1 DEF SegAddr, SegBase
<1>3. stack.ops[a] \in Word
  <2>1. a < stack.sp
    BY <1>1, <1>2 DEF InSegment
  <2>2. a \in 0 .. stack.len - 1
    BY <1>2, <2>1, Running
  <2> QED BY <2>2, Running
<1> QED BY <1>1, <1>2, <1>3, Pushing DEF KeepMemory

-----------------------------------------------------------------------------
(* Where the echo programs are. *)

\* In the startup code, in `Sys.init`, which returns to the startup code, and in
\* a builtin whose frame is at l, which returns to Sys.init.
Starting(a, n) == fi = 0 /\ ei[0] = a /\ stack.sp = n /\ reg.lcl = 0
Ended == fi = 0 /\ ei[0] = 22
InInit(a, n) ==
  /\ fi = 1 /\ ei[1] = a /\ stack.sp = n /\ reg.lcl = 9
  /\ stack.ops[1] = 21 /\ stack.ops[2] = 0
InBuiltin(a, n, l, ret) ==
  /\ fi = 0 /\ ei[0] = a /\ stack.sp = n /\ reg.arg = 9 /\ reg.lcl = l
  /\ stack.ops[l - 8] = ret /\ stack.ops[l - 7] = 1 /\ stack.ops[l - 6] = 9
  /\ stack.ops[1] = 21 /\ stack.ops[2] = 0

LEMMA InitGoesOn ==
  ASSUME NEW a, NEW n, NEW k, InInit(a, n), OnTo, KeepsBelow(9), stack'.sp = k
  PROVE  InInit(a + 1, k)'
<1>1. stack'.ops[1] = stack.ops[1] /\ stack'.ops[2] = stack.ops[2]
  BY DEF KeepsBelow
<1> QED BY <1>1 DEF InInit, OnTo

LEMMA BuiltinGoesOn ==
  ASSUME NEW a, NEW n, NEW k, NEW l \in 17 .. 19, NEW ret,
         InBuiltin(a, n, l, ret), OnTo, KeepsBelow(l), stack'.sp = k
  PROVE  InBuiltin(a + 1, k, l, ret)'
<1>1. stack'.ops[1] = stack.ops[1] /\ stack'.ops[2] = stack.ops[2]
  BY DEF KeepsBelow
<1>2. l - 8 \in 0 .. l - 1 /\ l - 7 \in 0 .. l - 1 /\ l - 6 \in 0 .. l - 1
  OBVIOUS
<1>3. /\ stack'.ops[l - 8] = stack.ops[l - 8] /\ stack'.ops[l - 7] = stack.ops[l - 7]
      /\ stack'.ops[l - 6] = stack.ops[l - 6]
  BY <1>2 DEF KeepsBelow
<1> QED BY <1>1, <1>3 DEF InBuiltin, OnTo

LEMMA SmallIsItself ==
  ASSUME NEW n \in 0 .. 22
  PROVE  n % WordMod = n
  BY WordModAssumption, WordBitsAssumption

LEMMA SavedFirst ==
  ASSUME ei[fi] \in 0 .. 22, fi \in 0 .. 22, reg.lcl \in 0 .. 22
  PROVE  SavedWords[1] = ei[fi] /\ SavedWords[2] = fi /\ SavedWords[3] = reg.lcl
<1>1. SavedWords = << ei[fi] % WordMod, fi % WordMod,
                      reg.lcl % WordMod, reg.lcl_len % WordMod,
                      reg.arg % WordMod, reg.arg_len % WordMod,
                      ptr.this % WordMod, ptr.that % WordMod >>
  BY TwoAndSix DEF SavedWords, Registers
<1>2. /\ SavedWords[1] = ei[fi] % WordMod /\ SavedWords[2] = fi % WordMod
      /\ SavedWords[3] = reg.lcl % WordMod
  BY <1>1
<1> QED BY <1>2, SmallIsItself

\* A program of one file, which defines `Sys.init` alone.
OneFile ==
  /\ Files = 0 .. 1
  /\ DOMAIN FileOf(1).st = {Func("Sys.init")}
  /\ FileOf(1).st[Func("Sys.init")] = At(0, 0)

LEMMA MkFileFacts ==
  ASSUME NEW insts, prog = << MkFile(insts, {<<Func("Sys.init"), 0, 0>>}) >>
  PROVE  OneFile /\ FileOf(1).insts = insts
<1> DEFINE syms == {<<Func("Sys.init"), 0, 0>>}
<1>1. Files = 0 .. 1 /\ FileOf(1) = MkFile(insts, syms)
  BY DEF Files, FileOf
<1>2. {s[1] : s \in syms} = {Func("Sys.init")}
  OBVIOUS
<1>3. (CHOOSE t \in syms : t[1] = Func("Sys.init")) = <<Func("Sys.init"), 0, 0>>
  OBVIOUS
<1> HIDE DEF syms
<1>4. /\ MkFile(insts, syms).insts = insts
      /\ DOMAIN MkFile(insts, syms).st = {Func("Sys.init")}
      /\ MkFile(insts, syms).st[Func("Sys.init")] = At(0, 0)
  <2>1. /\ MkFile(insts, syms).insts = insts
        /\ MkFile(insts, syms).st =
             [key \in {s[1] : s \in syms} |->
                At((CHOOSE t \in syms : t[1] = key)[2], (CHOOSE t \in syms : t[1] = key)[3])]
    BY DEF MkFile
  <2>2. <<Func("Sys.init"), 0, 0>>[2] = 0 /\ <<Func("Sys.init"), 0, 0>>[3] = 0
    OBVIOUS
  <2>3. DOMAIN MkFile(insts, syms).st = {Func("Sys.init")}
    BY <1>2, <2>1
  <2> DEFINE t == CHOOSE s \in syms : s[1] = Func("Sys.init")
  <2>4. MkFile(insts, syms).st[Func("Sys.init")] = At(t[2], t[3])
    BY <1>2, <2>1, Zenon
  <2>5. t[2] = 0 /\ t[3] = 0
    BY <1>3, <2>2
  <2> HIDE DEF t
  <2>6. At(t[2], t[3]) = At(0, 0)
    BY <2>5
  <2> QED BY <2>1, <2>3, <2>4, <2>6, Zenon
<1> QED BY <1>1, <1>4 DEF OneFile, syms

\* Where a call leads, and what it leaves.
LEMMA Calling ==
  ASSUME Inv, OneFile, Call, status' = "run"
  PROVE  /\ Called /\ UNCHANGED <<heap, prog>>
         /\ \E k \in 0 .. 1 :
              /\ Func(Cur.ident) \in DOMAIN FileOf(k).st
              /\ fi' = k /\ ei'[k] = FileOf(k).st[Func(Cur.ident)].inst_addr
              /\ reg'.lcl_len = FileOf(k).st[Func(Cur.ident)].nlocals
<1>1. Called
  BY CallIs DEF Stopped
<1>2. ~JumpError(Func(Cur.ident), stack)
  BY DEF JumpError, Stop
<1>3. PICK k \in Files :
        /\ JumpTo(Func(Cur.ident), k)
        /\ reg' = [arg |-> stack.sp - Cur.nargs, arg_len |-> Cur.nargs,
                   lcl |-> stack.sp + 8,
                   lcl_len |-> FileOf(k).st[Func(Cur.ident)].nlocals]
        /\ KeepMemory
  BY <1>2 DEF Call, Stop
<1>4. Func(Cur.ident) \in DOMAIN FileOf(k).st
  <2>1. k \in Targets(Func(Cur.ident))
    BY <1>3 DEF JumpTo
  <2> QED BY <2>1 DEF Targets
<1>5. fi' = k /\ ei'[k] = FileOf(k).st[Func(Cur.ident)].inst_addr /\ prog' = prog
  BY <1>3 DEF JumpTo, Inv, TypeOK
<1>6. reg'.lcl_len = FileOf(k).st[Func(Cur.ident)].nlocals /\ heap' = heap
  BY <1>3 DEF KeepMemory
<1>7. k \in 0 .. 1
  BY DEF OneFile
<1> QED BY <1>1, <1>4, <1>5, <1>6, <1>7

LEMMA CallsBuiltin ==
  ASSUME Inv, OneFile, NEW a \in 0 .. 3, NEW n \in 9 .. 11, InInit(a, n), Call,
         status' = "run", Cur.ident # "Sys.init", Cur.nargs = n - 9,
         NEW s, s = SystemSymbol(Cur.ident)
  PROVE  /\ InBuiltin(s.inst_addr, n + 8 + s.nlocals, n + 8, a)'
         /\ KeepsBelow(n) /\ UNCHANGED <<heap, prog>>
<1>1. PICK k \in 0 .. 1 :
        /\ Func(Cur.ident) \in DOMAIN FileOf(k).st
        /\ fi' = k /\ ei'[k] = FileOf(k).st[Func(Cur.ident)].inst_addr
        /\ reg'.lcl_len = FileOf(k).st[Func(Cur.ident)].nlocals
  BY Calling
<1>2. k = 0
  <2>1. Func(Cur.ident) # Func("Sys.init")
    BY DEF Func
  <2>2. k # 1
    BY <1>1, <2>1 DEF OneFile
  <2> QED BY <2>2
<1>3. FileOf(0).st[Func(Cur.ident)] = s
  <2>1. Func(Cur.ident) \in DOMAIN SystemFile.st
    BY <1>1, <1>2 DEF FileOf
  <2>2. SystemFile.st[Func(Cur.ident)] = SystemSymbol(Cur.ident)
    BY <2>1 DEF SystemFile, Func
  <2> QED BY <2>2 DEF FileOf
<1>4. fi' = 0 /\ ei'[0] = s.inst_addr /\ reg'.lcl_len = s.nlocals
  BY <1>1, <1>2, <1>3
<1>5. /\ Called /\ UNCHANGED <<heap, prog>>
  BY Calling
<1>6. /\ stack.sp = n /\ reg'.arg = 9 /\ reg'.lcl = n + 8
      /\ stack'.sp = n + 8 + s.nlocals
  <2>1. n - (n - 9) = 9
    OBVIOUS
  <2> QED BY <1>4, <1>5, <2>1 DEF Called, InInit
<1>7. /\ stack'.ops[n] = a /\ stack'.ops[n + 1] = 1 /\ stack'.ops[n + 2] = 9
  <2>1. ei[fi] = a /\ fi = 1 /\ reg.lcl = 9
    BY DEF InInit
  <2>2. SavedWords[1] = a /\ SavedWords[2] = 1 /\ SavedWords[3] = 9
    BY <2>1, SavedFirst
  <2>3. \A b \in 1 .. 8 : stack'.ops[n + b - 1] = SavedWords[b]
    BY <1>5, <1>6 DEF Called
  <2>4. n + 1 - 1 = n /\ n + 2 - 1 = n + 1 /\ n + 3 - 1 = n + 2
    OBVIOUS
  <2>5. /\ stack'.ops[n + 1 - 1] = SavedWords[1] /\ stack'.ops[n + 2 - 1] = SavedWords[2]
        /\ stack'.ops[n + 3 - 1] = SavedWords[3]
    BY <2>3
  <2> QED BY <2>2, <2>4, <2>5
<1>8. KeepsBelow(n)
  <2>1. IsStack(stack') /\ stack'.sp <= stack'.len
    BY <1>5, CallInv DEF Inv, TypeOK, Called
  <2>2. \A b \in 0 .. n - 1 : stack'.ops[b] = stack.ops[b]
    BY <1>5, <1>6 DEF Called
  <2>3. n <= stack'.len
    <3>1. s.nlocals \in Nat /\ stack'.len \in Nat
      BY <1>4, <2>1, CallInv DEF IsStack, Inv, TypeOK
    <3> QED BY <1>6, <2>1, <3>1
  <2> QED BY <2>2, <2>3 DEF KeepsBelow
<1>9. stack'.ops[1] = 21 /\ stack'.ops[2] = 0
  BY <1>8 DEF KeepsBelow, InInit
<1>10. n + 8 - 8 = n /\ n + 8 - 7 = n + 1 /\ n + 8 - 6 = n + 2
  OBVIOUS
<1> QED BY <1>4, <1>5, <1>6, <1>7, <1>8, <1>9, <1>10 DEF InBuiltin

LEMMA CallsInit ==
  ASSUME Inv, OneFile, Starting(21, 1), Call, status' = "run",
         Cur = CallI("Sys.init", 1)
  PROVE  InInit(0, 9)' /\ UNCHANGED <<heap, prog>>
<1>1. PICK k \in 0 .. 1 :
        /\ Func("Sys.init") \in DOMAIN FileOf(k).st
        /\ fi' = k /\ ei'[k] = FileOf(k).st[Func("Sys.init")].inst_addr
        /\ reg'.lcl_len = FileOf(k).st[Func("Sys.init")].nlocals
  BY Calling DEF CallI, Plain
<1>2. k = 1
  <2>1. Func("Sys.init") \notin DOMAIN FileOf(0).st
    BY DEF FileOf, SystemFile, Func, SystemNames
  <2>2. k # 0
    BY <1>1, <2>1
  <2> QED BY <2>2
<1>3. fi' = 1 /\ ei'[1] = 0 /\ reg'.lcl_len = 0
  BY <1>1, <1>2 DEF OneFile, At
<1>4. Called /\ UNCHANGED <<heap, prog>>
  BY Calling
<1>5. stack.sp = 1 /\ reg'.lcl = 9 /\ stack'.sp = 9
  BY <1>3, <1>4 DEF Called, Starting
<1>6. stack'.ops[1] = 21 /\ stack'.ops[2] = 0
  <2>1. ei[fi] = 21 /\ fi = 0 /\ reg.lcl = 0
    BY DEF Starting
  <2>2. SavedWords[1] = 21 /\ SavedWords[2] = 0
    BY <2>1, SavedFirst
  <2>3. \A b \in 1 .. 8 : stack'.ops[1 + b - 1] = SavedWords[b]
    BY <1>4, <1>5 DEF Called
  <2>4. stack'.ops[1 + 1 - 1] = SavedWords[1] /\ stack'.ops[1 + 2 - 1] = SavedWords[2]
    BY <2>3
  <2> QED BY <2>2, <2>4
<1> QED BY <1>3, <1>4, <1>5, <1>6 DEF InInit

\* What a return needs of the frame.
LEMMA Returning ==
  ASSUME Inv, Ret, status' = "run", NEW l \in 9 .. 19, reg.lcl = l
  PROVE  /\ Frame = l /\ stack.sp > l /\ Poppable(stack) /\ FrameReadable
         /\ fi' = stack.ops[l - 7] /\ ei'[fi'] = stack.ops[l - 8] + 1
         /\ stack' = ReturnedStack /\ reg' = RestoredReg(ReturnedStack.ops)
         /\ UNCHANGED <<heap, prog>>
<1>1. Frame = l
  <2>1. l \in 0 .. 22
    OBVIOUS
  <2> QED BY <2>1, SmallIsItself DEF Frame
<1>2. /\ Poppable(stack) /\ FrameReadable /\ stack.ops[Frame - 7] \in Files
      /\ stack' = ReturnedStack /\ reg' = RestoredReg(ReturnedStack.ops)
      /\ fi' = stack.ops[Frame - 7]
      /\ ei' = [ei EXCEPT ![stack.ops[Frame - 7]] = Resume(stack.ops[Frame - 8])]
      /\ UNCHANGED <<heap, prog>>
  BY DEF Ret, Stop, Underflow
<1>3. stack.sp > l
  <2>1. reg.lcl_len \in Nat /\ stack.sp \in Nat
    BY DEF Inv, TypeOK, IsStack
  <2> QED BY <1>2, <2>1 DEF Poppable, CanPop, Floor
<1>4. ei'[fi'] = stack.ops[l - 8] + 1
  BY <1>1, <1>2 DEF Inv, TypeOK, Resume
<1> QED BY <1>1, <1>2, <1>3, <1>4

LEMMA InitReturns ==
  ASSUME Inv, NEW a, NEW n, InInit(a, n), Ret, status' = "run"
  PROVE  Ended' /\ prog' = prog
<1>1. 9 \in 9 .. 19 /\ reg.lcl = 9 /\ stack.ops[1] = 21 /\ stack.ops[2] = 0
  BY DEF InInit
<1>2. 9 - 7 = 2 /\ 9 - 8 = 1 /\ 21 + 1 = 22
  OBVIOUS
<1>3. fi' = stack.ops[9 - 7] /\ ei'[fi'] = stack.ops[9 - 8] + 1 /\ prog' = prog
  BY <1>1, Returning
<1> QED BY <1>1, <1>2, <1>3 DEF Ended

LEMMA BuiltinReturns ==
  ASSUME Inv, NEW a, NEW n, NEW l \in 17 .. 19, NEW ret,
         InBuiltin(a, n, l, ret), Ret, status' = "run"
  PROVE  /\ InInit(ret + 1, 10)' /\ stack'.ops[9] = stack.ops[n - 1]
         /\ UNCHANGED <<heap, prog>>
<1>1. l \in 9 .. 19 /\ reg.lcl = l /\ reg.arg = 9 /\ stack.sp = n
  BY DEF InBuiltin
<1>2. /\ Frame = l /\ stack.sp > l /\ Poppable(stack) /\ FrameReadable
      /\ fi' = stack.ops[l - 7] /\ ei'[fi'] = stack.ops[l - 8] + 1
      /\ stack' = ReturnedStack /\ reg' = RestoredReg(ReturnedStack.ops)
      /\ UNCHANGED <<heap, prog>>
  BY <1>1, Returning
<1>3. fi' = 1 /\ ei'[1] = ret + 1
  BY <1>2 DEF InBuiltin
<1>4. PICK T : T = Pop(stack)
  OBVIOUS
<1>5. /\ IsStack(T) /\ T.sp = stack.sp - 1 /\ T.sp < T.len
      /\ \A i \in 0 .. T.len - 1 : T.ops[i] = stack.ops[i]
  <2>1. IsStack(stack) /\ Backed(stack) /\ stack.sp \in Nat
    BY Running DEF Ret, Executing
  <2>2. stack.sp > 0
    BY <1>2, <2>1
  <2> QED BY <1>4, <2>1, <2>2, PopFacts
<1>6. PICK v : v = Top(stack)
  OBVIOUS
<1>7. stack' = [[T EXCEPT !.ops[9] = v] EXCEPT !.sp = 9 + 1]
  BY <1>1, <1>2, <1>4, <1>6 DEF ReturnedStack, Poke
<1>8. /\ stack'.sp = 10 /\ stack'.ops = [T.ops EXCEPT ![9] = v]
      /\ T.ops \in [0 .. T.len - 1 -> Word] /\ T.len \in Nat
  BY <1>5, <1>7 DEF IsStack
<1>9. l < T.len
  <2>1. stack.sp \in Nat
    BY DEF Inv, TypeOK, IsStack
  <2> QED BY <1>2, <1>5, <1>8, <2>1
<1>10. \A b \in 0 .. l : b # 9 => stack'.ops[b] = stack.ops[b]
  <2>1. \A b \in 0 .. l : b \in 0 .. T.len - 1
    BY <1>8, <1>9
  <2> QED BY <1>5, <1>8, <2>1
<1>11. stack'.ops[9] = v
  <2>1. 9 \in 0 .. T.len - 1
    BY <1>8, <1>9
  <2> QED BY <1>8, <2>1
<1>12. stack'.ops[1] = 21 /\ stack'.ops[2] = 0
  <2>1. stack.ops[1] = 21 /\ stack.ops[2] = 0 /\ 1 \in 0 .. l /\ 2 \in 0 .. l
    BY DEF InBuiltin
  <2> QED BY <1>10, <2>1
<1>13. reg'.lcl = 9
  <2>1. reg'.lcl = stack'.ops[l - 6]
    BY <1>2 DEF RestoredReg
  <2>2. l - 6 \in 0 .. l /\ l - 6 # 9
    OBVIOUS
  <2>3. stack.ops[l - 6] = 9
    BY DEF InBuiltin
  <2> QED BY <1>10, <2>1, <2>2, <2>3
<1>14. v = stack.ops[n - 1]
  BY <1>1, <1>6 DEF Top
<1> QED BY <1>2, <1>3, <1>8, <1>11, <1>12, <1>13, <1>14 DEF InInit

LEMMA Popping ==
  ASSUME Inv, status = "run", Poppable(stack), NEW T, T = Pop(stack)
  PROVE  /\ IsStack(T) /\ Backed(T) /\ T.sp = stack.sp - 1 /\ T.sp < T.len
         /\ T.sp \in Nat /\ T.len \in Nat /\ stack.sp \in Nat
         /\ \A a \in 0 .. T.len - 1 : T.ops[a] = stack.ops[a]
         /\ Top(stack) = stack.ops[stack.sp - 1]
<1>1. IsStack(stack) /\ Backed(stack) /\ stack.sp \in Nat /\ Floor \in Nat
  BY Running
<1>2. stack.sp > 0
  BY <1>1 DEF Poppable, CanPop
<1>3. /\ IsStack(T) /\ Backed(T) /\ T.sp = stack.sp - 1 /\ T.sp < T.len
      /\ \A a \in 0 .. T.len - 1 : T.ops[a] = stack.ops[a]
  BY <1>1, <1>2, PopFacts
<1> QED BY <1>1, <1>3 DEF IsStack, Top

\* `Sys.read_str` of all of stdin.
LEMMA ReadsLine ==
  ASSUME Inv, status = "run", GetLine, status' = "run",
         stdin = input, input \in Seq(Char), Contains(input, Newline),
         NEW at \in 0 .. HeapSize, NEW n \in Nat, stack.sp = n + 1, stack.ops[n] = at
  PROVE  /\ OnTo /\ stack'.sp = n + 1 /\ KeepsBelow(n)
         /\ stack'.ops[n] = Len(FirstLine)
         /\ UNCHANGED <<input, printed>>
         /\ at + Len(FirstLine) <= HeapSize
         /\ \A i \in 1 .. Len(FirstLine) : heap'[at + i - 1] = AsWord(FirstLine[i])
<1>1. PICK k \in 0 .. Len(input) : k = Span(input, Char \ {Newline})
  BY SpanFacts
<1>2. k < Len(input)
  <2>1. \A i \in 1 .. k : input[i] # Newline
    BY <1>1, SpanFacts
  <2>2. \E i \in 1 .. Len(input) : input[i] = Newline
    BY DEF Contains
  <2> QED BY <2>1, <2>2
<1>3. LineLen(stdin) = k + 1 /\ stdin # <<>>
  BY <1>1, <1>2 DEF LineLen
<1>4. /\ Len(FirstLine) = k /\ k \in Nat
      /\ \A i \in 1 .. k : FirstLine[i] = input[i]
  <2>1. FirstLine = SubSeq(input, 1, k) /\ k \in Nat /\ k \in 0 .. Len(input)
    BY <1>1 DEF FirstLine
  <2>2. SubSeq(input, 0 + 1, k) = SubSeq(input, 1, k)
    OBVIOUS
  <2>4. /\ Len(SubSeq(input, 0 + 1, k)) = k - 0
        /\ \A i \in 1 .. k - 0 : SubSeq(input, 0 + 1, k)[i] = input[0 + i]
    BY <2>1, PartFacts, 0 \in Nat, k \in 0 .. Len(input)
  <2> QED BY <2>1, <2>2, <2>4
<1> DEFINE line == [i \in 1 .. k + 1 |-> AsWord(stdin[i])]
<1>5. Poppable(stack) /\ TakeLine(line)
  BY <1>3 DEF GetLine, Underflow, Stop
<1>6. Len(line) - 1 = k /\ \A i \in 1 .. k : line[i] = AsWord(input[i])
  BY <1>4
<1> HIDE DEF line
<1>7. Top(stack) = at /\ n \in Nat
  <2>1. stack.sp \in Nat /\ Top(stack) = stack.ops[stack.sp - 1]
    BY <1>5, Popping
  <2>2. stack.sp - 1 = n
    OBVIOUS
  <2> QED BY <2>1, <2>2
<1>8. /\ at + k <= HeapSize
      /\ heap' = [a \in DOMAIN heap |->
                   IF a \in at .. at + k - 1 THEN line[a - at + 1] ELSE heap[a]]
      /\ Advance(Push(Pop(stack), k % WordMod))
  <2>1. /\ at + (Len(line) - 1) <= HeapSize
        /\ heap' = [a \in DOMAIN heap |->
                     IF a \in at .. at + (Len(line) - 1) - 1
                     THEN line[a - at + 1] ELSE heap[a]]
        /\ Advance(Push(Pop(stack), (Len(line) - 1) % WordMod))
    BY <1>5, <1>7 DEF TakeLine, Stop
  <2> QED BY <1>6, <2>1
<1>9. HeapSize \in Nat /\ HeapSize < WordMod /\ WordMod \in Nat /\ at \in Nat
  BY SizesAssumption, SmallWords
<1>10. k % WordMod = k /\ k \in Word
  <2>1. k \in 0 .. WordMod - 1
    BY <1>1, <1>8, <1>9
  <2> QED BY <1>9, <2>1, WordModAssumption DEF Word
<1>11. PICK T : T = Pop(stack)
  OBVIOUS
<1>12. /\ IsStack(T) /\ Backed(T) /\ T.sp = n /\ T.sp < T.len /\ T.len \in Nat
       /\ \A a \in 0 .. T.len - 1 : T.ops[a] = stack.ops[a]
  BY <1>5, <1>11, Popping
<1>13. PICK S : S = Push(T, k)
  OBVIOUS
<1>14. /\ IsStack(S) /\ S.sp = n + 1 /\ T.len <= S.len /\ S.ops[n] = k
       /\ \A a \in 0 .. n - 1 : S.ops[a] = T.ops[a]
  BY <1>10, <1>12, <1>13, PushFacts
<1>15. OnTo /\ stack' = S
  BY <1>8, <1>10, <1>11, <1>13, AdvanceOn
<1>16. KeepsBelow(n)
  <2>1. S.len \in Nat /\ n <= S.len
    BY <1>12, <1>14 DEF IsStack
  <2>2. \A a \in 0 .. n - 1 : a \in 0 .. T.len - 1
    BY <1>12
  <2> QED BY <1>12, <1>14, <1>15, <2>1, <2>2 DEF KeepsBelow
<1>17. UNCHANGED <<input, printed>>
  BY QuietErrors DEF GetLine, Reading
<1>18. ASSUME NEW i \in 1 .. Len(FirstLine)
       PROVE  heap'[at + i - 1] = AsWord(FirstLine[i])
  <2>1. i \in 1 .. k
    BY <1>4
  <2>2. PICK a \in 0 .. HeapSize - 1 : a = at + i - 1
    BY <1>4, <1>8, <1>9, <2>1
  <2>3. a \in DOMAIN heap /\ a \in at .. at + k - 1 /\ a - at + 1 = i
    BY <1>4, <1>9, <2>1, <2>2 DEF Inv, TypeOK
  <2>4. heap'[a] = line[i]
    BY <1>8, <2>3
  <2> QED BY <1>4, <1>6, <2>1, <2>2, <2>4
<1> QED BY <1>4, <1>8, <1>14, <1>15, <1>16, <1>17, <1>18

LEMMA ReadsNumber ==
  ASSUME Inv, status = "run", GetNum, status' = "run"
  PROVE  Pushes(Scanned) /\ Scanned \in Word /\ UNCHANGED <<input, printed>>
<1>1. UNCHANGED <<input, printed>>
  BY QuietErrors DEF GetNum, Reading
<1>2. TakeNum(Scanned)
  BY DEF GetNum, Stop
<1>3. Scanned \in Word /\ Advance(Push(stack, Scanned))
  BY <1>2 DEF TakeNum, Stop
<1> QED BY <1>1, <1>3, Pushing

LEMMA PrintsNumber ==
  ASSUME Inv, status = "run", PrintNum, status' = "run"
  PROVE  /\ OnTo /\ stack'.sp = stack.sp - 1 /\ KeepsBelow(stack.sp - 1)
         /\ printed' = printed \o Decimal(stack.ops[stack.sp - 1])
         /\ input' = input
<1>1. /\ Cur.op = "PRINT_NUM" /\ (Discard \/ PrintStr) /\ input' = input
      /\ Puts(Decimal(Top(stack)))
  BY DEF PrintNum, Printing, Executing
<1>2. Discard
  BY <1>1 DEF PrintStr, Executing
<1>3. Poppable(stack) /\ Advance(Pop(stack))
  BY <1>2 DEF Discard, Underflow, Stop
<1>4. PICK T : T = Pop(stack)
  OBVIOUS
<1>5. /\ T.sp = stack.sp - 1 /\ T.sp < T.len /\ T.sp \in Nat /\ T.len \in Nat
      /\ \A a \in 0 .. T.len - 1 : T.ops[a] = stack.ops[a]
      /\ Top(stack) = stack.ops[stack.sp - 1]
  BY <1>3, <1>4, Popping
<1>6. OnTo /\ stack' = T
  BY <1>3, <1>4, AdvanceOn
<1>7. KeepsBelow(T.sp)
  BY <1>5, <1>6 DEF KeepsBelow
<1> QED BY <1>1, <1>5, <1>6, <1>7 DEF Puts

\* The heap cells that `Sys.print_str` prints.
HeapText(start, n) == [i \in 1 .. n |-> AsChar(heap[(start + i - 1) % WordMod])]

LEMMA PrintsText ==
  ASSUME Inv, status = "run", PrintString, status' = "run",
         NEW n, n = stack.ops[stack.sp - 2], NEW start, start = stack.ops[stack.sp - 1]
  PROVE  /\ OnTo /\ stack'.sp = stack.sp - 2 /\ KeepsBelow(stack.sp - 2)
         /\ IF HeapText(start, n) = <<>> THEN printed' = printed
            ELSE printed' = printed \o Visible(HeapText(start, n))
         /\ input' = input
<1>1. /\ Cur.op = "PRINT_STR" /\ (Discard \/ PrintStr) /\ input' = input
      /\ PutsEach(HeapText(Top(stack), Top(Pop(stack))))
  BY DEF PrintString, Printing, Executing, HeapText
<1>2. PrintStr
  BY <1>1 DEF Discard, Executing
<1>3. PoppableTwice /\ Advance(Pop(Pop(stack)))
  BY <1>2 DEF PrintStr, UnderflowOfTwo, Underflow, Stop
<1>4. PICK S : S = Pop(stack)
  OBVIOUS
<1>5. /\ IsStack(S) /\ Backed(S) /\ S.sp = stack.sp - 1 /\ S.sp < S.len
      /\ S.sp \in Nat /\ S.len \in Nat /\ stack.sp \in Nat
      /\ \A a \in 0 .. S.len - 1 : S.ops[a] = stack.ops[a]
      /\ Top(stack) = stack.ops[stack.sp - 1]
  BY <1>3, <1>4, Popping DEF PoppableTwice
<1>6. PICK T : T = Pop(S)
  OBVIOUS
<1>7. S.sp > 0
  <2>1. Floor \in Nat
    BY Running
  <2> QED BY <1>3, <1>4, <1>5, <2>1 DEF PoppableTwice, Poppable, CanPop
<1>8. /\ T.sp = S.sp - 1 /\ T.sp < T.len /\ T.len <= S.len /\ IsStack(T)
      /\ \A a \in 0 .. T.len - 1 : T.ops[a] = S.ops[a]
  BY <1>5, <1>6, <1>7, PopFacts
<1>9. T.sp = stack.sp - 2 /\ T.sp \in Nat /\ T.len \in Nat
  BY <1>5, <1>7, <1>8 DEF IsStack
<1>10. OnTo /\ stack' = T
  BY <1>3, <1>4, <1>6, AdvanceOn
<1>11. KeepsBelow(T.sp)
  <2>1. \A a \in 0 .. T.sp - 1 : a \in 0 .. T.len - 1 /\ a \in 0 .. S.len - 1
    BY <1>5, <1>8, <1>9
  <2>2. \A a \in 0 .. T.sp - 1 : T.ops[a] = stack.ops[a]
    BY <1>5, <1>8, <2>1
  <2>3. T.sp <= T.len
    BY <1>8, <1>9
  <2> QED BY <1>10, <2>2, <2>3 DEF KeepsBelow
<1>12. Top(Pop(stack)) = n
  <2>1. Top(S) = S.ops[S.sp - 1]
    BY DEF Top
  <2>2. S.sp - 1 = stack.sp - 2 /\ S.sp - 1 \in 0 .. S.len - 1
    BY <1>5, <1>7
  <2>3. Top(S) = stack.ops[stack.sp - 2]
    BY <1>5, <2>1, <2>2
  <2> QED BY <1>4, <2>3
<1>13. PutsEach(HeapText(start, n))
  BY <1>1, <1>5, <1>12
<1>14. IF HeapText(start, n) = <<>> THEN printed' = printed
       ELSE printed' = printed \o Visible(HeapText(start, n))
  BY <1>13 DEF PutsEach, output
<1> QED BY <1>1, <1>9, <1>10, <1>11, <1>14

-----------------------------------------------------------------------------
(* The number on stdin. *)

NumberLine == Without(input, Span(input, Blanks))

LEMMA NumberTextIs ==
  ASSUME input \in Seq(Char), NEW l, l = Len(NumberText)
  PROVE  /\ NumberLine \in Seq(Char) /\ l = Span(NumberLine, DigitChars)
         /\ l \in Nat /\ l <= Len(NumberLine) /\ NumberText \in Seq(Char)
         /\ \A i \in 1 .. l : NumberText[i] = NumberLine[i] /\ NumberText[i] \in 48 .. 57
<1>1. NumberLine \in Seq(Char)
  <2>1. Span(input, Blanks) \in 0 .. Len(input)
    BY SpanFacts
  <2> QED BY <2>1, WithoutFacts DEF NumberLine
<1>2. PICK k \in 0 .. Len(NumberLine) : k = Span(NumberLine, DigitChars)
  BY <1>1, SpanFacts
<1>3. NumberText = SubSeq(NumberLine, 0 + 1, k)
  BY <1>2, 0 + 1 = 1 DEF NumberText, NumberLine
<1>4. /\ NumberText \in Seq(Char) /\ Len(NumberText) = k - 0
      /\ \A i \in 1 .. k - 0 : NumberText[i] = NumberLine[0 + i]
  BY <1>1, <1>3, PartFacts, 0 \in Nat, k \in 0 .. Len(NumberLine)
<1>5. k - 0 = k /\ \A i \in 1 .. k : 0 + i = i
  OBVIOUS
<1>6. \A i \in 1 .. k : NumberLine[i] \in DigitChars
  BY <1>1, <1>2, SpanFacts
<1>7. k \in Nat /\ k <= Len(NumberLine) /\ l = k
  BY <1>1, <1>4, <1>5
<1>8. \A i \in 1 .. k : NumberText[i] = NumberLine[i]
  BY <1>4, <1>5
<1>9. \A i \in 1 .. k : NumberText[i] \in 48 .. 57
  BY <1>6, <1>8 DEF DigitChars
<1> QED BY <1>1, <1>2, <1>4, <1>7, <1>8, <1>9

LEMMA ValueIs ==
  /\ Value[0] = 0
  /\ \A n \in Nat \ {0} : Value[n] = 10 * Value[n - 1] + NumberText[n] - 48
<1>1. \E f : f = [n \in Nat |-> IF n = 0 THEN 0 ELSE 10 * f[n - 1] + NumberText[0 + n] - 48]
  <2>1. PICK t, s : t = NumberText /\ s = 0
    OBVIOUS
  <2>2. \E f : f = [n \in Nat |-> IF n = 0 THEN 0 ELSE 10 * f[n - 1] + t[s + n] - 48]
    BY SumsTotal
  <2> QED BY <2>1, <2>2
<1>2. \A n \in Nat : NumberText[0 + n] = NumberText[n]
  OBVIOUS
<1>3. \E f : f = [n \in Nat |-> IF n = 0 THEN 0 ELSE 10 * f[n - 1] + NumberText[n] - 48]
  BY <1>1, <1>2
<1>4. Value = [n \in Nat |-> IF n = 0 THEN 0 ELSE 10 * Value[n - 1] + NumberText[n] - 48]
  BY <1>3 DEF Value
<1>5. \A n \in Nat : Value[n] = IF n = 0 THEN 0 ELSE 10 * Value[n - 1] + NumberText[n] - 48
  BY <1>4
<1> QED BY <1>5

LEMMA MagnitudeIs ==
  /\ Magnitude[0] = 0
  /\ \A n \in Nat \ {0} : Magnitude[n] = 10 * Magnitude[n - 1] + Text[Sign + n] - 48
<1>1. Magnitude = [n \in Nat |->
        IF n = 0 THEN 0 ELSE 10 * Magnitude[n - 1] + Text[Sign + n] - 48]
  BY SumsTotal DEF Magnitude
<1>2. \A n \in Nat : Magnitude[n] =
        IF n = 0 THEN 0 ELSE 10 * Magnitude[n - 1] + Text[Sign + n] - 48
  BY <1>1
<1> QED BY <1>2

\* The number typed, and how it is to be printed.
Typed == Value[Len(NumberText)]
NumberTyped == NumberText # <<>> /\ Typed < UintMod

LEMMA TypedShown ==
  ASSUME input \in Seq(Char), NumberTyped
  PROVE  /\ Typed \in Nat
         /\ Typed \in Word => DigitsShown(NumberText, Len(NumberText), Typed)
<1> DEFINE d == NumberText
           l == Len(d)
<1>1. /\ l \in Nat /\ l # 0 /\ d \in Seq(Char)
      /\ \A i \in 1 .. l : d[i] \in 48 .. 57
  BY NumberTextIs DEF NumberTyped
<1>2. d \in Seq(Int)
  <2>1. \A i \in 1 .. l : d[i] \in Int
    BY <1>1
  <2> QED BY <1>1, <2>1
<1>3. \A n \in 1 .. l : Value[n] = 10 * Value[n - 1] + d[n] - 48
  BY <1>1, ValueIs
<1>4. Value[0] = 0
  BY ValueIs
<1>5. Value[l] \in Nat /\ (Value[l] \in Word => DigitsShown(d, l, Value[l]))
  <2> HIDE DEF d
  <2>1. l \in 0 .. l
    BY <1>1
  <2> QED BY <1>1, <1>2, <1>3, <1>4, <2>1, NumberShown
<1> QED BY <1>5 DEF Typed

LEMMA ScansTyped ==
  ASSUME stdin = input, input \in Seq(Char), NumberTyped
  PROVE  Scanned = Typed
<1> DEFINE l == Len(NumberText)
<1>1. /\ NumberLine \in Seq(Char) /\ l = Span(NumberLine, DigitChars)
      /\ l \in Nat /\ l <= Len(NumberLine) /\ l # 0
      /\ \A i \in 1 .. l : NumberText[i] = NumberLine[i] /\ NumberText[i] \in 48 .. 57
  BY NumberTextIs DEF NumberTyped
<1>2. Text = NumberLine
  BY DEF Text, NumberLine
<1>3. Sign = 0
  <2>1. 1 \in 1 .. l
    BY <1>1
  <2>2. Text[1] \in 48 .. 57
    BY <1>1, <1>2, <2>1
  <2> QED BY <2>2 DEF Sign, SignChars
<1>4. Without(Text, Sign) = Text
  <2>1. SubSeq(Text, 1, Len(Text)) = Text
    BY <1>1, <1>2, SubSeqFull
  <2> QED BY <1>3, <2>1 DEF Without
<1>5. Digits = l
  BY <1>1, <1>2, <1>4 DEF Digits
<1>6. \A n \in 1 .. l : Magnitude[n] = 10 * Magnitude[n - 1] + NumberText[n] - 48
  <2>1. \A n \in 1 .. l : Sign + n = n /\ n \in Nat \ {0}
    BY <1>1, <1>3
  <2>2. \A n \in 1 .. l : Magnitude[n] = 10 * Magnitude[n - 1] + Text[Sign + n] - 48
    BY <2>1, MagnitudeIs
  <2> QED BY <1>1, <1>2, <2>1, <2>2
<1>7. Magnitude[l] = Value[l]
  <2> DEFINE Bad == {n \in 0 .. l : Magnitude[n] # Value[n]}
  <2>1. Bad = {}
    <3> SUFFICES ASSUME Bad # {} PROVE FALSE
      OBVIOUS
    <3>1. PICK n \in Bad : \A m \in Bad : n <= m
      <4>1. Bad \subseteq Nat
        OBVIOUS
      <4> HIDE DEF Bad
      <4> QED BY <4>1, LeastNumber
    <3>2. n \in 1 .. l /\ n - 1 \in 0 .. l /\ ~(n <= n - 1) /\ n \in Nat \ {0}
      <4>1. n # 0 /\ n \in 0 .. l
        BY <3>1, MagnitudeIs, ValueIs
      <4> QED BY <1>1, <4>1
    <3>3. Magnitude[n - 1] = Value[n - 1]
      BY <3>1, <3>2
    <3>4. Magnitude[n] = Value[n]
      BY <1>6, <3>2, <3>3, ValueIs
    <3> QED BY <3>1, <3>4
  <2>2. l \in 0 .. l
    BY <1>1
  <2> QED BY <2>1, <2>2
<1>8. Value[l] \in Nat /\ Value[l] < UintMod
  BY TypedShown DEF NumberTyped, Typed
<1>9. Value[l] % UintMod = Value[l]
  BY <1>8, WordCharAssumption
<1>10. Scanned = Magnitude[l] % UintMod
  BY <1>3, <1>5 DEF Scanned
<1> QED BY <1>7, <1>9, <1>10 DEF Typed

-----------------------------------------------------------------------------
(* The stages of the echo programs. *)

Stored(at) ==
  /\ at + Len(FirstLine) <= HeapSize
  /\ \A i \in 1 .. Len(FirstLine) : heap[at + i - 1] = AsWord(FirstLine[i])

\* The stages of echo_str: before the line is read, while it is in the heap, and
\* once it is printed.
LineReading(at) ==
  /\ stdin = input /\ printed = <<>>
  /\ \/ Starting(20, 0) \/ Starting(21, 1) \/ InInit(0, 9)
     \/ InInit(1, 10) /\ stack.ops[9] = at
     \/ InBuiltin(17, 19, 18, 1) /\ stack.ops[9] = at
     \/ InBuiltin(18, 20, 18, 1) /\ stack.ops[19] = at
LinePrinting(at) ==
  LET n == Len(FirstLine)
  IN  /\ Stored(at) /\ printed = <<>>
      /\ \/ InBuiltin(19, 20, 18, 1) /\ stack.ops[19] = n
         \/ InInit(2, 10) /\ stack.ops[9] = n
         \/ InInit(3, 11) /\ stack.ops[9] = n /\ stack.ops[10] = at
         \/ InBuiltin(8, 19, 19, 3) /\ stack.ops[9] = n /\ stack.ops[10] = at
         \/ InBuiltin(9, 20, 19, 3) /\ stack.ops[10] = at /\ stack.ops[19] = n
         \/ InBuiltin(10, 21, 19, 3) /\ stack.ops[19] = n /\ stack.ops[20] = at
LinePrinted ==
  /\ printed = Visible(FirstLine)
  /\ InBuiltin(11, 19, 19, 3) \/ InBuiltin(12, 20, 19, 3) \/ InInit(4, 10) \/ Ended

\* The same for echo_num.
NumReading ==
  /\ stdin = input /\ printed = <<>>
  /\ Starting(20, 0) \/ Starting(21, 1) \/ InInit(0, 9) \/ InBuiltin(15, 17, 17, 0)
NumPrinting ==
  /\ printed = <<>> /\ Typed \in Word
  /\ \/ InBuiltin(16, 18, 17, 0) /\ stack.ops[17] = Typed
     \/ InInit(1, 10) /\ stack.ops[9] = Typed
     \/ InBuiltin(4, 18, 18, 1) /\ stack.ops[9] = Typed
     \/ InBuiltin(5, 19, 18, 1) /\ stack.ops[18] = Typed
NumPrinted ==
  /\ printed = Decimal(Typed) /\ Typed \in Word
  /\ InBuiltin(6, 18, 18, 1) \/ InBuiltin(7, 19, 18, 1) \/ InInit(2, 10) \/ Ended

\* The two programs, and what makes them echo.
EchoesLine(at) == prog = EchoStr(at) /\ Contains(input, Newline)
EchoesNumber == prog = EchoNum /\ NumberTyped

Echoing ==
  /\ \A at \in 0 .. HeapSize : EchoesLine(at) =>
       /\ status = "run" => LineReading(at) \/ LinePrinting(at) \/ LinePrinted
       /\ status = "done" => printed = Visible(FirstLine)
  /\ EchoesNumber =>
       /\ status = "run" => NumReading \/ NumPrinting \/ NumPrinted
       /\ status = "done" => printed = Decimal(Typed) /\ Typed \in Word

-----------------------------------------------------------------------------
(* One step between two stages. *)

\* A step of the machine after which it still runs.
Going ==
  /\ Inv /\ Inv' /\ status = "run" /\ ei[fi] < Len(Active.insts) /\ Step /\ status' = "run"
Calm == Quiet /\ UNCHANGED <<heap, prog>>

LEMMA InstFields ==
  /\ \A seg, o : /\ PushI(seg, o).op = "PUSH" /\ PushI(seg, o).seg = seg
                 /\ PushI(seg, o).offset = o
  /\ \A ident, n : /\ CallI(ident, n).op = "CALL" /\ CallI(ident, n).ident = ident
                   /\ CallI(ident, n).nargs = n
  /\ \A op : Plain(op).op = op
<1>1. \A seg, o : /\ PushI(seg, o).op = "PUSH" /\ PushI(seg, o).seg = seg
                  /\ PushI(seg, o).offset = o
  BY DEF PushI, Plain
<1>2. \A ident, n : /\ CallI(ident, n).op = "CALL" /\ CallI(ident, n).ident = ident
                    /\ CallI(ident, n).nargs = n
  BY DEF CallI, Plain
<1>3. \A op : Plain(op).op = op
  BY DEF Plain
<1> QED BY <1>1, <1>2, <1>3

LEMMA PushConstGoes ==
  ASSUME Going, NEW v, Cur = PushI("CONST", v)
  PROVE  Pushes(v) /\ Calm
<1>1. PushConst /\ Quiet /\ Cur.offset = v
  BY InstFields, Dispatch DEF Going
<1>2. Pushes(v) /\ heap' = heap
  BY <1>1, PushesConst DEF Going
<1> QED BY <1>1, <1>2 DEF Pushes, OnTo, Calm

LEMMA PushArgGoes ==
  ASSUME Going, NEW o \in 0 .. 1, Cur = PushI("ARG", o), reg.arg = 9
  PROVE  Pushes(stack.ops[9 + o]) /\ Calm
<1>1. PushFrame /\ Quiet /\ Cur.offset = o /\ Cur.seg = "ARG"
  BY InstFields, Dispatch DEF Going
<1>2. 9 + o = reg.arg + Cur.offset
  BY <1>1
<1>3. Pushes(stack.ops[9 + o]) /\ heap' = heap
  BY <1>1, <1>2, PushesArg DEF Going
<1> QED BY <1>1, <1>3 DEF Pushes, OnTo, Calm

LEMMA LessKept ==
  ASSUME Inv', NEW n \in Nat, KeepsBelow(n), NEW m \in 0 .. n
  PROVE  KeepsBelow(m)
<1>1. stack'.len \in Nat
  BY DEF Inv, TypeOK, IsStack
<1> QED BY <1>1 DEF KeepsBelow

LEMMA PushInInit ==
  ASSUME Inv', NEW a, NEW n \in 9 .. 11, InInit(a, n), NEW v, Pushes(v)
  PROVE  /\ InInit(a + 1, n + 1)' /\ stack'.ops[n] = v
         /\ \A b \in 9 .. n - 1 : stack'.ops[b] = stack.ops[b]
<1>1. stack.sp = n
  BY DEF InInit
<1>2. OnTo /\ stack'.sp = n + 1 /\ stack'.ops[n] = v /\ KeepsBelow(n)
  BY <1>1 DEF Pushes
<1>3. KeepsBelow(9)
  BY <1>2, LessKept
<1>4. InInit(a + 1, n + 1)'
  BY <1>2, <1>3, InitGoesOn
<1> QED BY <1>2, <1>4 DEF KeepsBelow

LEMMA MoveInBuiltin ==
  ASSUME Inv', NEW a, NEW n, NEW l \in 17 .. 19, NEW ret, InBuiltin(a, n, l, ret),
         OnTo, NEW m \in l .. 21, KeepsBelow(m), NEW k, stack'.sp = k
  PROVE  /\ InBuiltin(a + 1, k, l, ret)'
         /\ \A b \in 9 .. m - 1 : stack'.ops[b] = stack.ops[b]
<1>1. KeepsBelow(l)
  BY LessKept
<1>2. InBuiltin(a + 1, k, l, ret)'
  BY <1>1, BuiltinGoesOn
<1> QED BY <1>2 DEF KeepsBelow

LEMMA PushInBuiltin ==
  ASSUME Inv', NEW a, NEW l \in 17 .. 19, NEW n \in l .. 21, NEW ret,
         InBuiltin(a, n, l, ret), NEW v, Pushes(v)
  PROVE  /\ InBuiltin(a + 1, n + 1, l, ret)' /\ stack'.ops[n] = v
         /\ \A b \in 9 .. n - 1 : stack'.ops[b] = stack.ops[b]
<1>1. stack.sp = n
  BY DEF InBuiltin
<1>2. OnTo /\ stack'.sp = n + 1 /\ stack'.ops[n] = v /\ KeepsBelow(n)
  BY <1>1 DEF Pushes
<1>3. n \in l .. 21
  OBVIOUS
<1> QED BY <1>2, <1>3, MoveInBuiltin

\* The startup code.
LEMMA AtStart ==
  ASSUME Going, Starting(20, 0)
  PROVE  Starting(21, 1)' /\ Calm
<1>1. Cur = PushI("CONST", 0)
  <2>1. Cur = SystemInsts[20 + 1]
    BY InSystemFile DEF Starting
  <2> QED BY <2>1, SystemCode
<1>2. Pushes(0) /\ Calm
  BY <1>1, PushConstGoes
<1> QED BY <1>2 DEF Pushes, OnTo, Starting

LEMMA AtCallInit ==
  ASSUME Going, Starting(21, 1), OneFile
  PROVE  InInit(0, 9)' /\ Calm
<1>1. Cur = CallI("Sys.init", 1)
  <2>1. Cur = SystemInsts[21 + 1]
    BY InSystemFile DEF Starting
  <2> QED BY <2>1, SystemCode
<1>2. Call /\ Quiet
  BY <1>1, InstFields, Dispatch DEF Going
<1> QED BY <1>1, <1>2, CallsInit DEF Going, Calm

\* A call of a builtin from Sys.init, and the returns.
LEMMA AtCall ==
  ASSUME Going, OneFile, NEW a \in 0 .. 3, NEW n \in 9 .. 11, InInit(a, n),
         NEW ident \in SystemNames, Cur = CallI(ident, n - 9),
         NEW s, s = SystemSymbol(ident)
  PROVE  /\ InBuiltin(s.inst_addr, n + 8 + s.nlocals, n + 8, a)' /\ Calm
         /\ \A b \in 9 .. n - 1 : stack'.ops[b] = stack.ops[b]
<1>1. Call /\ Quiet /\ Cur.ident = ident /\ Cur.nargs = n - 9
  BY InstFields, Dispatch DEF Going
<1>2. Cur.ident # "Sys.init"
  BY <1>1 DEF SystemNames
<1>3. s = SystemSymbol(Cur.ident)
  BY <1>1
<1>4. /\ InBuiltin(s.inst_addr, n + 8 + s.nlocals, n + 8, a)'
      /\ KeepsBelow(n) /\ UNCHANGED <<heap, prog>>
  BY <1>1, <1>2, <1>3, CallsBuiltin DEF Going
<1> QED BY <1>1, <1>4 DEF Calm, KeepsBelow

LEMMA AtReturn ==
  ASSUME Going, NEW a, NEW n, NEW l \in 17 .. 19, NEW ret,
         InBuiltin(a, n, l, ret), Cur = Plain("RET")
  PROVE  InInit(ret + 1, 10)' /\ stack'.ops[9] = stack.ops[n - 1] /\ Calm
<1>1. Ret /\ Quiet
  BY InstFields, Dispatch DEF Going
<1> QED BY <1>1, BuiltinReturns DEF Going, Calm

LEMMA AtEnd ==
  ASSUME Going, NEW a, NEW n, InInit(a, n), Cur = Plain("RET")
  PROVE  Ended' /\ Calm
<1>1. Ret /\ Quiet
  BY InstFields, Dispatch DEF Going
<1>2. heap' = heap
  BY <1>1 DEF Going, Ret, Stop, Underflow
<1> QED BY <1>1, <1>2, InitReturns DEF Going, Calm

\* A push in a builtin: of a constant, and of one of its arguments.
LEMMA AtPushConst ==
  ASSUME Going, NEW a, NEW n, NEW l, NEW ret, InBuiltin(a, n, l, ret),
         l \in 17 .. 19, n \in l .. 21, NEW v, Cur = PushI("CONST", v)
  PROVE  InBuiltin(a + 1, n + 1, l, ret)' /\ Calm
<1>1. Pushes(v) /\ Calm
  BY PushConstGoes
<1>2. Inv'
  BY DEF Going
<1> QED BY <1>1, <1>2, PushInBuiltin

LEMMA AtPushArg ==
  ASSUME Going, NEW a, NEW n, NEW l, NEW ret, InBuiltin(a, n, l, ret),
         l \in 17 .. 19, n \in l .. 21, NEW o \in 0 .. 1, Cur = PushI("ARG", o)
  PROVE  /\ InBuiltin(a + 1, n + 1, l, ret)' /\ stack'.ops[n] = stack.ops[9 + o] /\ Calm
         /\ \A b \in 9 .. n - 1 : stack'.ops[b] = stack.ops[b]
<1>1. reg.arg = 9
  BY DEF InBuiltin
<1>2. Pushes(stack.ops[9 + o]) /\ Calm
  BY <1>1, PushArgGoes
<1>3. Inv'
  BY DEF Going
<1> QED BY <1>2, <1>3, PushInBuiltin

-----------------------------------------------------------------------------
(* The code of the echo programs. *)

LEMMA BuiltinCode ==
  ASSUME fi = 0
  PROVE  /\ Len(Active.insts) = 22
         /\ ei[0] \in {6, 11} => Cur = PushI("CONST", 0)
         /\ ei[0] \in {4, 8, 17} => Cur = PushI("ARG", 0)
         /\ ei[0] = 9 => Cur = PushI("ARG", 1)
         /\ ei[0] \in {7, 12, 16, 19} => Cur = Plain("RET")
         /\ ei[0] = 5 => Cur = Plain("PRINT_NUM")
         /\ ei[0] = 10 => Cur = Plain("PRINT_STR")
         /\ ei[0] = 15 => Cur = Plain("READ_NUM")
         /\ ei[0] = 18 => Cur = Plain("READ_STR")
<1>1. Cur = SystemInsts[ei[0] + 1] /\ Len(Active.insts) = 22
  BY InSystemFile, SystemCode
<1>2. /\ SystemInsts[7] = PushI("CONST", 0) /\ SystemInsts[12] = PushI("CONST", 0)
      /\ SystemInsts[5] = PushI("ARG", 0) /\ SystemInsts[9] = PushI("ARG", 0)
      /\ SystemInsts[18] = PushI("ARG", 0) /\ SystemInsts[10] = PushI("ARG", 1)
      /\ SystemInsts[8] = Plain("RET") /\ SystemInsts[13] = Plain("RET")
      /\ SystemInsts[17] = Plain("RET") /\ SystemInsts[20] = Plain("RET")
      /\ SystemInsts[6] = Plain("PRINT_NUM") /\ SystemInsts[11] = Plain("PRINT_STR")
      /\ SystemInsts[16] = Plain("READ_NUM") /\ SystemInsts[19] = Plain("READ_STR")
  BY DEF SystemInsts
<1> QED BY <1>1, <1>2

LEMMA SymbolAddresses ==
  /\ SystemSymbol("Sys.print_num") = At(4, 0) /\ SystemSymbol("Sys.print_str") = At(8, 0)
  /\ SystemSymbol("Sys.read_num") = At(15, 0) /\ SystemSymbol("Sys.read_str") = At(17, 1)
  /\ \A a, n : At(a, n).inst_addr = a /\ At(a, n).nlocals = n
  /\ {"Sys.print_num", "Sys.print_str", "Sys.read_num", "Sys.read_str"} \subseteq SystemNames
<1>1. \A a, n : At(a, n).inst_addr = a /\ At(a, n).nlocals = n
  BY DEF At
<1>2. SystemSymbol("Sys.print_num") = At(4, 0)
  BY DEF SystemSymbol
<1>3. SystemSymbol("Sys.print_str") = At(8, 0)
  BY DEF SystemSymbol
<1>4. SystemSymbol("Sys.read_num") = At(15, 0)
  BY DEF SystemSymbol
<1>5. SystemSymbol("Sys.read_str") = At(17, 1)
  BY DEF SystemSymbol
<1> QED BY <1>1, <1>2, <1>3, <1>4, <1>5 DEF SystemNames

LEMMA LineCode ==
  ASSUME NEW at, prog = EchoStr(at)
  PROVE  /\ OneFile
         /\ fi = 1 =>
              /\ Len(Active.insts) = 5
              /\ ei[1] \in {0, 2} => Cur = PushI("CONST", at)
              /\ ei[1] = 1 => Cur = CallI("Sys.read_str", 1)
              /\ ei[1] = 3 => Cur = CallI("Sys.print_str", 2)
              /\ ei[1] = 4 => Cur = Plain("RET")
<1> DEFINE insts == << C(at), CallI("Sys.read_str", 1), C(at), CallI("Sys.print_str", 2),
                       Return >>
<1>1. prog = << MkFile(insts, {<<Func("Sys.init"), 0, 0>>}) >>
  BY DEF EchoStr
<1>2. /\ Len(insts) = 5 /\ insts[1] = PushI("CONST", at) /\ insts[3] = PushI("CONST", at)
      /\ insts[2] = CallI("Sys.read_str", 1) /\ insts[4] = CallI("Sys.print_str", 2)
      /\ insts[5] = Plain("RET")
  BY DEF C, Return
<1> HIDE DEF insts
<1>3. OneFile /\ FileOf(1).insts = insts
  BY <1>1, MkFileFacts
<1>4. fi = 1 => Active.insts = insts /\ Cur = insts[ei[1] + 1]
  BY <1>3 DEF Active, Cur
<1> QED BY <1>2, <1>3, <1>4

LEMMA NumCode ==
  ASSUME prog = EchoNum
  PROVE  /\ OneFile
         /\ fi = 1 =>
              /\ Len(Active.insts) = 3
              /\ ei[1] = 0 => Cur = CallI("Sys.read_num", 0)
              /\ ei[1] = 1 => Cur = CallI("Sys.print_num", 1)
              /\ ei[1] = 2 => Cur = Plain("RET")
<1> DEFINE insts == << CallI("Sys.read_num", 0), CallI("Sys.print_num", 1), Return >>
<1>1. prog = << MkFile(insts, {<<Func("Sys.init"), 0, 0>>}) >>
  BY DEF EchoNum
<1>2. /\ Len(insts) = 3 /\ insts[1] = CallI("Sys.read_num", 0)
      /\ insts[2] = CallI("Sys.print_num", 1) /\ insts[3] = Plain("RET")
  BY DEF Return
<1> HIDE DEF insts
<1>3. OneFile /\ FileOf(1).insts = insts
  BY <1>1, MkFileFacts
<1>4. fi = 1 => Active.insts = insts /\ Cur = insts[ei[1] + 1]
  BY <1>3 DEF Active, Cur
<1> QED BY <1>2, <1>3, <1>4

-----------------------------------------------------------------------------
(* The steps of echo_str. *)

LEMMA FromLineReading ==
  ASSUME Going, input \in Seq(Char), NEW at \in 0 .. HeapSize, EchoesLine(at),
         LineReading(at)
  PROVE  (LineReading(at) \/ LinePrinting(at))'
<1>1. OneFile /\ prog = EchoStr(at) /\ Contains(input, Newline)
  BY LineCode DEF EchoesLine
<1>2. ASSUME Calm
      PROVE  stdin' = input' /\ printed' = <<>>
  BY <1>2 DEF LineReading, Calm, Quiet
<1>3. CASE Starting(20, 0)
  BY <1>2, <1>3, AtStart DEF LineReading
<1>4. CASE Starting(21, 1)
  BY <1>1, <1>2, <1>4, AtCallInit DEF LineReading
<1>5. CASE InInit(0, 9)
  <2>1. Cur = PushI("CONST", at)
    BY <1>1, <1>5, LineCode DEF InInit
  <2>2. Pushes(at) /\ Calm
    BY <2>1, PushConstGoes
  <2>3. InInit(0 + 1, 9 + 1)' /\ stack'.ops[9] = at
    BY <1>5, <2>2, PushInInit DEF Going
  <2> QED BY <1>2, <2>2, <2>3 DEF LineReading
<1>6. CASE InInit(1, 10) /\ stack.ops[9] = at
  <2>1. Cur = CallI("Sys.read_str", 10 - 9)
    BY <1>1, <1>6, LineCode DEF InInit
  <2>2. PICK s : s = SystemSymbol("Sys.read_str") /\ s.inst_addr = 17 /\ s.nlocals = 1
    BY SymbolAddresses
  <2>3. /\ InBuiltin(s.inst_addr, 10 + 8 + s.nlocals, 10 + 8, 1)' /\ Calm
        /\ \A b \in 9 .. 10 - 1 : stack'.ops[b] = stack.ops[b]
    BY <1>1, <1>6, <2>1, <2>2, SymbolAddresses, AtCall
  <2>4. InBuiltin(17, 19, 18, 1)' /\ stack'.ops[9] = at
    BY <1>6, <2>2, <2>3
  <2> QED BY <1>2, <2>3, <2>4 DEF LineReading
<1>7. CASE InBuiltin(17, 19, 18, 1) /\ stack.ops[9] = at
  <2>1. PICK a, n, l, ret, o : a = 17 /\ n = 19 /\ l = 18 /\ ret = 1 /\ o = 0
    OBVIOUS
  <2>2. InBuiltin(a, n, l, ret) /\ l \in 17 .. 19 /\ n \in l .. 21 /\ o \in 0 .. 1
    BY <1>7, <2>1
  <2>3. Cur = PushI("ARG", o)
    BY <2>1, <2>2, BuiltinCode DEF InBuiltin
  <2>4. /\ InBuiltin(a + 1, n + 1, l, ret)' /\ Calm
        /\ stack'.ops[n] = stack.ops[9 + o]
    BY <2>2, <2>3, AtPushArg
  <2>5. InBuiltin(18, 20, 18, 1)' /\ stack'.ops[19] = at
    BY <1>7, <2>1, <2>4
  <2> QED BY <1>2, <2>4, <2>5 DEF LineReading
<1>8. CASE InBuiltin(18, 20, 18, 1) /\ stack.ops[19] = at
  <2>1. Cur.op = "READ_STR" /\ stack.sp = 19 + 1
    BY <1>8, BuiltinCode, InstFields DEF InBuiltin
  <2>2. GetLine
    BY <2>1, Dispatch DEF Going
  <2>3. /\ OnTo /\ stack'.sp = 19 + 1 /\ KeepsBelow(19)
        /\ stack'.ops[19] = Len(FirstLine)
        /\ UNCHANGED <<input, printed>>
        /\ at + Len(FirstLine) <= HeapSize
        /\ \A i \in 1 .. Len(FirstLine) : heap'[at + i - 1] = AsWord(FirstLine[i])
    BY <1>1, <1>8, <2>1, <2>2, ReadsLine DEF Going, LineReading
  <2>4. FirstLine' = FirstLine
    BY <2>3 DEF FirstLine
  <2>5. InBuiltin(18 + 1, 20, 18, 1)'
    BY <1>8, <2>3, MoveInBuiltin DEF Going
  <2>6. printed' = <<>> /\ Stored(at)'
    BY <2>3, <2>4 DEF LineReading, Stored
  <2> QED BY <2>3, <2>4, <2>5, <2>6 DEF LinePrinting
<1> QED BY <1>3, <1>4, <1>5, <1>6, <1>7, <1>8 DEF LineReading

LEMMA FirstLineTyped ==
  ASSUME input \in Seq(Char)
  PROVE  FirstLine \in Seq(Char) /\ Len(FirstLine) \in Nat
<1>1. PICK k \in 0 .. Len(input) : k = Span(input, Char \ {Newline})
  BY SpanFacts
<1>2. FirstLine = SubSeq(input, 0 + 1, k)
  BY <1>1, 0 + 1 = 1 DEF FirstLine
<1>3. FirstLine \in Seq(Char)
  BY <1>1, <1>2, PartFacts
<1> QED BY <1>3

LEMMA CharAgain == ASSUME NEW c \in Char PROVE AsChar(AsWord(c)) = c
<1>1. WordMod \in Nat /\ 256 < WordMod /\ WordMod % 256 = 0
  BY WordModAssumption, WordCharAssumption DEF CharMod
<1>2. c \in 0 .. 255
  BY DEF Char, CharMod
<1>3. CASE c < 128
  <2>1. AsWord(c) = c
    BY <1>3 DEF AsWord, CharMod
  <2>2. c % 256 = c
    BY <1>2
  <2> QED BY <2>1, <2>2 DEF AsChar, CharMod
<1>4. CASE ~(c < 128)
  <2>1. AsWord(c) = WordMod - 256 + c
    BY <1>4 DEF AsWord, CharMod
  <2>2. (WordMod - 256 + c) % 256 = c
    BY <1>1, <1>2, SMT
  <2> QED BY <2>1, <2>2 DEF AsChar, CharMod
<1> QED BY <1>3, <1>4

\* The characters in the heap are those of the line.
LEMMA LineInHeap ==
  ASSUME input \in Seq(Char), NEW at \in 0 .. HeapSize, Stored(at),
         NEW n, n = Len(FirstLine)
  PROVE  HeapText(at, n) = FirstLine
<1>1. FirstLine \in Seq(Char) /\ n \in Nat
  BY FirstLineTyped
<1>2. ASSUME NEW i \in 1 .. n
      PROVE  AsChar(heap[(at + i - 1) % WordMod]) = FirstLine[i]
  <2>1. at + i - 1 \in 0 .. WordMod - 1
    BY <1>1, SizesAssumption, SmallWords DEF Stored
  <2>2. (at + i - 1) % WordMod = at + i - 1
    BY <2>1, SmallWords
  <2>3. FirstLine[i] \in Char
    BY <1>1
  <2> QED BY <2>2, <2>3, CharAgain DEF Stored
<1>3. HeapText(at, n) = [i \in 1 .. n |-> FirstLine[i]]
  BY <1>2 DEF HeapText
<1>4. FirstLine = [i \in 1 .. n |-> FirstLine[i]]
  BY <1>1
<1> QED BY <1>3, <1>4

LEMMA NothingVisible == Visible(<<>>) = <<>>
<1>1. <<>> \in Seq(Char) /\ {i \in DOMAIN <<>> : <<>>[i] # NUL} = {}
  OBVIOUS
<1>2. Len(Visible(<<>>)) = Cardinality({}) /\ Visible(<<>>) \in Seq(Char)
  BY <1>1, VisibleCount, VisibleFacts
<1>3. Cardinality({}) = 0
  BY FS_EmptySet
<1> QED BY <1>2, <1>3

LEMMA FromLinePrinting ==
  ASSUME Going, input \in Seq(Char), NEW at \in 0 .. HeapSize, EchoesLine(at),
         LinePrinting(at)
  PROVE  (LinePrinting(at) \/ LinePrinted)'
<1> DEFINE n == Len(FirstLine)
<1>1. OneFile /\ prog = EchoStr(at)
  BY LineCode DEF EchoesLine
<1>2. ASSUME Calm
      PROVE  Stored(at)' /\ printed' = <<>> /\ Len(FirstLine)' = n
  <2>1. FirstLine' = FirstLine
    BY <1>2 DEF Calm, Quiet, FirstLine
  <2> QED BY <1>2, <2>1 DEF Calm, Quiet, LinePrinting, Stored
<1>3. PICK len : len = n
  OBVIOUS
<1>4. ASSUME Calm,
             \/ InInit(2, 10)' /\ stack'.ops[9] = len
             \/ InInit(3, 11)' /\ stack'.ops[9] = len /\ stack'.ops[10] = at
             \/ InBuiltin(8, 19, 19, 3)' /\ stack'.ops[9] = len /\ stack'.ops[10] = at
             \/ InBuiltin(9, 20, 19, 3)' /\ stack'.ops[10] = at /\ stack'.ops[19] = len
             \/ InBuiltin(10, 21, 19, 3)' /\ stack'.ops[19] = len /\ stack'.ops[20] = at
      PROVE  LinePrinting(at)'
  BY <1>2, <1>3, <1>4 DEF LinePrinting
<1>5. CASE InBuiltin(19, 20, 18, 1) /\ stack.ops[19] = len
  <2>1. Cur = Plain("RET")
    BY <1>5, BuiltinCode DEF InBuiltin
  <2>2. InInit(1 + 1, 10)' /\ stack'.ops[9] = stack.ops[20 - 1] /\ Calm
    BY <1>5, <2>1, AtReturn
  <2> QED BY <1>4, <1>5, <2>2
<1>6. CASE InInit(2, 10) /\ stack.ops[9] = len
  <2>1. Cur = PushI("CONST", at)
    BY <1>1, <1>6, LineCode DEF InInit
  <2>2. Pushes(at) /\ Calm
    BY <2>1, PushConstGoes
  <2>3. /\ InInit(2 + 1, 10 + 1)' /\ stack'.ops[10] = at
        /\ \A b \in 9 .. 10 - 1 : stack'.ops[b] = stack.ops[b]
    BY <1>6, <2>2, PushInInit DEF Going
  <2>4. stack'.ops[9] = stack.ops[9]
    BY <2>3
  <2> QED BY <1>4, <1>6, <2>2, <2>3, <2>4
<1>7. CASE InInit(3, 11) /\ stack.ops[9] = len /\ stack.ops[10] = at
  <2>1. Cur = CallI("Sys.print_str", 11 - 9)
    BY <1>1, <1>7, LineCode DEF InInit
  <2>2. PICK s : s = SystemSymbol("Sys.print_str") /\ s.inst_addr = 8 /\ s.nlocals = 0
    BY SymbolAddresses
  <2>3. /\ InBuiltin(s.inst_addr, 11 + 8 + s.nlocals, 11 + 8, 3)' /\ Calm
        /\ \A b \in 9 .. 11 - 1 : stack'.ops[b] = stack.ops[b]
    BY <1>1, <1>7, <2>1, <2>2, SymbolAddresses, AtCall
  <2>4. InBuiltin(8, 19, 19, 3)' /\ stack'.ops[9] = len /\ stack'.ops[10] = at
    BY <1>7, <2>2, <2>3
  <2> QED BY <1>4, <2>3, <2>4
<1>8. CASE InBuiltin(8, 19, 19, 3) /\ stack.ops[9] = len /\ stack.ops[10] = at
  <2>1. PICK a, m, l, ret, o : a = 8 /\ m = 19 /\ l = 19 /\ ret = 3 /\ o = 0
    OBVIOUS
  <2>2. InBuiltin(a, m, l, ret) /\ l \in 17 .. 19 /\ m \in l .. 21 /\ o \in 0 .. 1
    BY <1>8, <2>1
  <2>3. Cur = PushI("ARG", o)
    BY <2>1, <2>2, BuiltinCode DEF InBuiltin
  <2>4. /\ InBuiltin(a + 1, m + 1, l, ret)' /\ Calm
        /\ stack'.ops[m] = stack.ops[9 + o]
        /\ \A b \in 9 .. m - 1 : stack'.ops[b] = stack.ops[b]
    BY <2>2, <2>3, AtPushArg
  <2>5. InBuiltin(9, 20, 19, 3)' /\ stack'.ops[10] = at /\ stack'.ops[19] = len
    BY <1>8, <2>1, <2>4
  <2> QED BY <1>4, <2>4, <2>5
<1>9. CASE InBuiltin(9, 20, 19, 3) /\ stack.ops[10] = at /\ stack.ops[19] = len
  <2>1. PICK a, m, l, ret, o : a = 9 /\ m = 20 /\ l = 19 /\ ret = 3 /\ o = 1
    OBVIOUS
  <2>2. InBuiltin(a, m, l, ret) /\ l \in 17 .. 19 /\ m \in l .. 21 /\ o \in 0 .. 1
    BY <1>9, <2>1
  <2>3. Cur = PushI("ARG", o)
    BY <2>1, <2>2, BuiltinCode DEF InBuiltin
  <2>4. /\ InBuiltin(a + 1, m + 1, l, ret)' /\ Calm
        /\ stack'.ops[m] = stack.ops[9 + o]
        /\ \A b \in 9 .. m - 1 : stack'.ops[b] = stack.ops[b]
    BY <2>2, <2>3, AtPushArg
  <2>5. InBuiltin(10, 21, 19, 3)' /\ stack'.ops[19] = len /\ stack'.ops[20] = at
    BY <1>9, <2>1, <2>4
  <2> QED BY <1>4, <2>4, <2>5
<1>10. CASE InBuiltin(10, 21, 19, 3) /\ stack.ops[19] = len /\ stack.ops[20] = at
  <2>1. PrintString /\ stack.sp = 21
    BY <1>10, BuiltinCode, InstFields, Dispatch DEF InBuiltin, Going
  <2>2. len = stack.ops[stack.sp - 2] /\ at = stack.ops[stack.sp - 1]
    BY <1>10, <2>1
  <2>3. /\ OnTo /\ stack'.sp = stack.sp - 2 /\ KeepsBelow(stack.sp - 2)
        /\ IF HeapText(at, len) = <<>> THEN printed' = printed
           ELSE printed' = printed \o Visible(HeapText(at, len))
        /\ input' = input
    BY <2>1, <2>2, PrintsText DEF Going
  <2>4. HeapText(at, len) = FirstLine /\ printed = <<>>
    BY <1>3, LineInHeap DEF LinePrinting
  <2>5. printed' = Visible(FirstLine)
    <3>1. Visible(FirstLine) \in Seq(Char)
      BY FirstLineTyped, VisibleFacts
    <3>2. <<>> \o Visible(FirstLine) = Visible(FirstLine)
      BY <3>1, ConcatEmptySeq
    <3> QED BY <2>3, <2>4, <3>2, NothingVisible
  <2>6. Visible(FirstLine)' = Visible(FirstLine)
    <3>1. FirstLine' = FirstLine
      BY <2>3 DEF FirstLine
    <3> QED BY <3>1 DEF Visible
  <2>7. OnTo /\ stack'.sp = 19 /\ KeepsBelow(19)
    BY <2>1, <2>3
  <2>8. InBuiltin(10 + 1, 19, 19, 3)'
    BY <1>10, <2>7, MoveInBuiltin DEF Going
  <2> QED BY <2>5, <2>6, <2>8 DEF LinePrinted
<1> QED BY <1>3, <1>5, <1>6, <1>7, <1>8, <1>9, <1>10 DEF LinePrinting

LEMMA EndedIsPast == ASSUME Ended PROVE ~(ei[fi] < Len(Active.insts))
<1>1. Len(Active.insts) = 22 /\ ei[fi] = 22
  BY InSystemFile, SystemCode DEF Ended
<1> QED BY <1>1

LEMMA FromLinePrinted ==
  ASSUME Going, NEW at \in 0 .. HeapSize, EchoesLine(at), LinePrinted
  PROVE  LinePrinted'
<1>1. prog = EchoStr(at)
  BY DEF EchoesLine
<1>2. ASSUME Calm
      PROVE  printed' = Visible(FirstLine)'
  <2>1. FirstLine' = FirstLine
    BY <1>2 DEF Calm, Quiet, FirstLine
  <2> QED BY <1>2, <2>1 DEF Calm, Quiet, LinePrinted, Visible
<1>3. CASE InBuiltin(11, 19, 19, 3)
  <2>1. PICK a, m, l, ret, v : a = 11 /\ m = 19 /\ l = 19 /\ ret = 3 /\ v = 0
    OBVIOUS
  <2>2. InBuiltin(a, m, l, ret) /\ l \in 17 .. 19 /\ m \in l .. 21
    BY <1>3, <2>1
  <2>3. Cur = PushI("CONST", v)
    BY <2>1, <2>2, BuiltinCode DEF InBuiltin
  <2>4. InBuiltin(a + 1, m + 1, l, ret)' /\ Calm
    BY <2>2, <2>3, AtPushConst
  <2> QED BY <1>2, <2>1, <2>4 DEF LinePrinted
<1>4. CASE InBuiltin(12, 20, 19, 3)
  <2>1. Cur = Plain("RET")
    BY <1>4, BuiltinCode DEF InBuiltin
  <2>2. InInit(3 + 1, 10)' /\ Calm
    BY <1>4, <2>1, AtReturn
  <2> QED BY <1>2, <2>2 DEF LinePrinted
<1>5. CASE InInit(4, 10)
  <2>1. Cur = Plain("RET")
    BY <1>1, <1>5, LineCode DEF InInit
  <2>2. Ended' /\ Calm
    BY <1>5, <2>1, AtEnd
  <2> QED BY <1>2, <2>2 DEF LinePrinted
<1>6. ~Ended
  BY EndedIsPast DEF Going
<1> QED BY <1>3, <1>4, <1>5, <1>6 DEF LinePrinted

-----------------------------------------------------------------------------
(* The steps of echo_num. *)

LEMMA SameNumber == ASSUME input' = input PROVE Typed' = Typed /\ NumberText' = NumberText
<1>1. NumberText' = NumberText
  BY DEF NumberText
<1>2. Value' = Value
  BY <1>1 DEF Value
<1> QED BY <1>1, <1>2 DEF Typed

LEMMA FromNumReading ==
  ASSUME Going, input \in Seq(Char), EchoesNumber, NumReading
  PROVE  (NumReading \/ NumPrinting)'
<1>1. OneFile /\ prog = EchoNum /\ NumberTyped
  BY NumCode DEF EchoesNumber
<1>2. ASSUME Calm
      PROVE  stdin' = input' /\ printed' = <<>>
  BY <1>2 DEF NumReading, Calm, Quiet
<1>3. CASE Starting(20, 0)
  BY <1>2, <1>3, AtStart DEF NumReading
<1>4. CASE Starting(21, 1)
  BY <1>1, <1>2, <1>4, AtCallInit DEF NumReading
<1>5. CASE InInit(0, 9)
  <2>1. Cur = CallI("Sys.read_num", 9 - 9)
    BY <1>1, <1>5, NumCode DEF InInit
  <2>2. PICK s : s = SystemSymbol("Sys.read_num") /\ s.inst_addr = 15 /\ s.nlocals = 0
    BY SymbolAddresses
  <2>3. InBuiltin(s.inst_addr, 9 + 8 + s.nlocals, 9 + 8, 0)' /\ Calm
    BY <1>1, <1>5, <2>1, <2>2, SymbolAddresses, AtCall
  <2>4. InBuiltin(15, 17, 17, 0)'
    BY <2>2, <2>3
  <2> QED BY <1>2, <2>3, <2>4 DEF NumReading
<1>6. CASE InBuiltin(15, 17, 17, 0)
  <2>1. GetNum /\ stack.sp = 17
    BY <1>6, BuiltinCode, InstFields, Dispatch DEF InBuiltin, Going
  <2>2. Pushes(Scanned) /\ Scanned \in Word /\ UNCHANGED <<input, printed>>
    BY <2>1, ReadsNumber DEF Going
  <2>3. Scanned = Typed
    BY <1>1, ScansTyped DEF NumReading
  <2>4. PICK a, m, l, ret : a = 15 /\ m = 17 /\ l = 17 /\ ret = 0
    OBVIOUS
  <2>5. InBuiltin(a, m, l, ret) /\ l \in 17 .. 19 /\ m \in l .. 21
    BY <1>6, <2>4
  <2>6. InBuiltin(a + 1, m + 1, l, ret)' /\ stack'.ops[m] = Scanned
    BY <2>2, <2>5, PushInBuiltin DEF Going
  <2>7. InBuiltin(16, 18, 17, 0)' /\ stack'.ops[17] = Scanned
    BY <2>4, <2>6
  <2>8. Typed' = Typed
    BY <2>2, SameNumber
  <2>9. Typed' \in Word'
    BY <2>2, <2>3, <2>8 DEF Word
  <2> QED BY <2>2, <2>3, <2>7, <2>8, <2>9 DEF NumPrinting, NumReading
<1> QED BY <1>3, <1>4, <1>5, <1>6 DEF NumReading

LEMMA FromNumPrinting ==
  ASSUME Going, EchoesNumber, NumPrinting
  PROVE  (NumPrinting \/ NumPrinted)'
<1>1. OneFile /\ prog = EchoNum
  BY NumCode DEF EchoesNumber
<1>2. PICK t : t = Typed
  OBVIOUS
<1>3. ASSUME input' = input
      PROVE  Typed' = t /\ (Typed \in Word)'
  <2>1. Typed' = Typed
    BY <1>3, SameNumber
  <2> QED BY <1>2, <2>1 DEF NumPrinting, Word
<1>4. ASSUME Calm,
             \/ InInit(1, 10)' /\ stack'.ops[9] = t
             \/ InBuiltin(4, 18, 18, 1)' /\ stack'.ops[9] = t
             \/ InBuiltin(5, 19, 18, 1)' /\ stack'.ops[18] = t
      PROVE  NumPrinting'
  <2>1. printed' = <<>> /\ input' = input
    BY <1>4 DEF Calm, Quiet, NumPrinting
  <2> QED BY <1>3, <1>4, <2>1 DEF NumPrinting
<1>5. CASE InBuiltin(16, 18, 17, 0) /\ stack.ops[17] = t
  <2>1. Cur = Plain("RET")
    BY <1>5, BuiltinCode DEF InBuiltin
  <2>2. InInit(0 + 1, 10)' /\ stack'.ops[9] = stack.ops[18 - 1] /\ Calm
    BY <1>5, <2>1, AtReturn
  <2> QED BY <1>4, <1>5, <2>2
<1>6. CASE InInit(1, 10) /\ stack.ops[9] = t
  <2>1. Cur = CallI("Sys.print_num", 10 - 9)
    BY <1>1, <1>6, NumCode DEF InInit
  <2>2. PICK s : s = SystemSymbol("Sys.print_num") /\ s.inst_addr = 4 /\ s.nlocals = 0
    BY SymbolAddresses
  <2>3. /\ InBuiltin(s.inst_addr, 10 + 8 + s.nlocals, 10 + 8, 1)' /\ Calm
        /\ \A b \in 9 .. 10 - 1 : stack'.ops[b] = stack.ops[b]
    BY <1>1, <1>6, <2>1, <2>2, SymbolAddresses, AtCall
  <2>4. InBuiltin(4, 18, 18, 1)' /\ stack'.ops[9] = t
    BY <1>6, <2>2, <2>3
  <2> QED BY <1>4, <2>3, <2>4
<1>7. CASE InBuiltin(4, 18, 18, 1) /\ stack.ops[9] = t
  <2>1. PICK a, m, l, ret, o : a = 4 /\ m = 18 /\ l = 18 /\ ret = 1 /\ o = 0
    OBVIOUS
  <2>2. InBuiltin(a, m, l, ret) /\ l \in 17 .. 19 /\ m \in l .. 21 /\ o \in 0 .. 1
    BY <1>7, <2>1
  <2>3. Cur = PushI("ARG", o)
    BY <2>1, <2>2, BuiltinCode DEF InBuiltin
  <2>4. /\ InBuiltin(a + 1, m + 1, l, ret)' /\ Calm
        /\ stack'.ops[m] = stack.ops[9 + o]
    BY <2>2, <2>3, AtPushArg
  <2>5. InBuiltin(5, 19, 18, 1)' /\ stack'.ops[18] = t
    BY <1>7, <2>1, <2>4
  <2> QED BY <1>4, <2>4, <2>5
<1>8. CASE InBuiltin(5, 19, 18, 1) /\ stack.ops[18] = t
  <2>1. PrintNum /\ stack.sp = 19
    BY <1>8, BuiltinCode, InstFields, Dispatch DEF InBuiltin, Going
  <2>2. /\ OnTo /\ stack'.sp = stack.sp - 1 /\ KeepsBelow(stack.sp - 1)
        /\ printed' = printed \o Decimal(stack.ops[stack.sp - 1])
        /\ input' = input
    BY <2>1, PrintsNumber DEF Going
  <2>3. OnTo /\ stack'.sp = 18 /\ KeepsBelow(18) /\ stack.ops[stack.sp - 1] = t
    BY <1>8, <2>1, <2>2
  <2>4. printed' = Decimal(t)
    <3>1. t \in Word /\ printed = <<>>
      BY <1>2 DEF NumPrinting
    <3>2. Decimal(t) \in Seq(Char)
      BY <3>1, DecimalFacts
    <3>3. <<>> \o Decimal(t) = Decimal(t)
      BY <3>2, ConcatEmptySeq
    <3> QED BY <2>2, <2>3, <3>1, <3>3
  <2>5. InBuiltin(5 + 1, 18, 18, 1)'
    BY <1>8, <2>3, MoveInBuiltin DEF Going
  <2>6. Decimal(Typed)' = Decimal(t)
    BY <1>3, <2>2 DEF Decimal, Powers
  <2> QED BY <1>3, <2>2, <2>4, <2>5, <2>6 DEF NumPrinted
<1> QED BY <1>2, <1>5, <1>6, <1>7, <1>8 DEF NumPrinting

LEMMA FromNumPrinted ==
  ASSUME Going, EchoesNumber, NumPrinted
  PROVE  NumPrinted'
<1>1. prog = EchoNum
  BY DEF EchoesNumber
<1>2. ASSUME Calm
      PROVE  printed' = Decimal(Typed)' /\ (Typed \in Word)'
  <2>1. Typed' = Typed /\ printed' = printed
    BY <1>2, SameNumber DEF Calm, Quiet
  <2> QED BY <2>1 DEF NumPrinted, Decimal, Powers, Word
<1>3. CASE InBuiltin(6, 18, 18, 1)
  <2>1. PICK a, m, l, ret, v : a = 6 /\ m = 18 /\ l = 18 /\ ret = 1 /\ v = 0
    OBVIOUS
  <2>2. InBuiltin(a, m, l, ret) /\ l \in 17 .. 19 /\ m \in l .. 21
    BY <1>3, <2>1
  <2>3. Cur = PushI("CONST", v)
    BY <2>1, <2>2, BuiltinCode DEF InBuiltin
  <2>4. InBuiltin(a + 1, m + 1, l, ret)' /\ Calm
    BY <2>2, <2>3, AtPushConst
  <2> QED BY <1>2, <2>1, <2>4 DEF NumPrinted
<1>4. CASE InBuiltin(7, 19, 18, 1)
  <2>1. Cur = Plain("RET")
    BY <1>4, BuiltinCode DEF InBuiltin
  <2>2. InInit(1 + 1, 10)' /\ Calm
    BY <1>4, <2>1, AtReturn
  <2> QED BY <1>2, <2>2 DEF NumPrinted
<1>5. CASE InInit(2, 10)
  <2>1. Cur = Plain("RET")
    BY <1>1, <1>5, NumCode DEF InInit
  <2>2. Ended' /\ Calm
    BY <1>5, <2>1, AtEnd
  <2> QED BY <1>2, <2>2 DEF NumPrinted
<1>6. ~Ended
  BY EndedIsPast DEF Going
<1> QED BY <1>3, <1>4, <1>5, <1>6 DEF NumPrinted

-----------------------------------------------------------------------------
(* The invariant. *)

\* A run ends with success only past the end of its file.
LEMMA DoneOnlyAtEnd ==
  ASSUME Inv, [Next]_vars, status' = "done"
  PROVE  \/ status = "done"
         \/ status = "run" /\ ei[fi] >= Len(Active.insts)
<1>1. CASE Local
  BY <1>1, LocalIs DEF Moves, Stopped, Advanced, Jumped, Halt, Skip, SkipLine, SkipEof, Stop
<1>2. CASE Call
  BY <1>2, CallIs DEF Called, Stopped
<1>3. CASE Ret
  BY <1>3 DEF Ret, Executing, Underflow, Stop
<1>4. CASE UNCHANGED vars
  BY <1>4 DEF vars
<1> QED BY <1>1, <1>2, <1>3, <1>4 DEF Next

\* Once the machine has stopped, nothing is printed.
LEMMA StoppedIsQuiet ==
  ASSUME status # "run", [CNext]_cvars
  PROVE  printed' = printed /\ status' # "run"
<1>1. \A op : ~Executing(op)
  BY DEF Executing
<1>2. ~Compute /\ ~Prints /\ ~Reads
  <2>1. ~MemoryAccess /\ ~Unary /\ ~Binary /\ ~Goto /\ ~IfGoto /\ ~PopConst
    BY <1>1 DEF MemoryAccess, PushFrame, PopFrame, PushFileSeg, PopFileSeg, PushConst,
       PushHeap, PopHeap, PushPointer, PopPointer, Unary, Binary, Goto, IfGoto, PopConst
  <2>2. ~Halt /\ ~Call /\ ~Ret
    BY <1>1 DEF Halt, Call, Ret
  <2>3. ~Prints /\ ~Reads
    BY <1>1 DEF Prints, PrintChar, PrintNum, PrintString, Printing,
       Reads, GetChar, GetNum, GetLine, Reading
  <2> QED BY <2>1, <2>2, <2>3 DEF Compute, FCall, FRet
<1>3. CASE UNCHANGED cvars
  BY <1>3 DEF cvars, fvars, vars
<1>4. CASE Drain
  BY <1>4 DEF Drain, fvars, vars
<1>5. CASE Leave
  BY <1>5 DEF Leave, CleanThen, fvars, vars
<1>6. CASE SkipChar
  BY <1>6, QuietErrors DEF SkipChar, SkipLine, Stop, vars
<1> QED BY <1>2, <1>3, <1>4, <1>5, <1>6 DEF CNext, Step

\* While it runs, every step is the machine's, or changes only the terminal.
LEMMA RunningSteps ==
  ASSUME status = "run", [CNext]_cvars
  PROVE  Step \/ UNCHANGED <<vars, input, stdin, printed>>
  BY DEF CNext, Drain, cvars, fvars, vars

LEMMA LineStaysDone ==
  ASSUME input' = input
  PROVE  FirstLine' = FirstLine /\ Visible(FirstLine)' = Visible(FirstLine)
<1>1. FirstLine' = FirstLine
  BY DEF FirstLine
<1> QED BY <1>1 DEF Visible

LEMMA SameStage ==
  ASSUME UNCHANGED <<vars, input, stdin, printed>>
  PROVE  /\ \A at : /\ LineReading(at) => LineReading(at)'
                    /\ LinePrinting(at) => LinePrinting(at)'
         /\ LinePrinted => LinePrinted'
         /\ NumReading => NumReading'
         /\ NumPrinting => NumPrinting'
         /\ NumPrinted => NumPrinted'
<1>1. /\ \A a, n : Starting(a, n)' = Starting(a, n)
      /\ \A a, n : InInit(a, n)' = InInit(a, n)
      /\ \A a, n, l, ret : InBuiltin(a, n, l, ret)' = InBuiltin(a, n, l, ret)
      /\ Ended' = Ended
  BY DEF vars, Starting, InInit, InBuiltin, Ended
<1>2. FirstLine' = FirstLine /\ Visible(FirstLine)' = Visible(FirstLine)
  BY LineStaysDone
<1>3. \A at : Stored(at)' = Stored(at)
  BY <1>2 DEF vars, Stored
<1>4. Typed' = Typed
  BY SameNumber
<1>5. Decimal(Typed)' = Decimal(Typed) /\ (Typed \in Word)' = (Typed \in Word)
  BY <1>4 DEF Decimal, Powers, Word
<1>6. stack' = stack /\ stdin' = stdin /\ input' = input /\ printed' = printed
  BY DEF vars
<1>7. \A at : LineReading(at) => LineReading(at)'
  BY <1>1, <1>6 DEF LineReading
<1>8. \A at : LinePrinting(at) => LinePrinting(at)'
  BY <1>1, <1>2, <1>3, <1>6 DEF LinePrinting
<1>9. LinePrinted => LinePrinted'
  BY <1>1, <1>2, <1>6 DEF LinePrinted
<1>10. NumReading => NumReading'
  BY <1>1, <1>6 DEF NumReading
<1>11. NumPrinting => NumPrinting'
  BY <1>1, <1>4, <1>5, <1>6 DEF NumPrinting
<1>12. NumPrinted => NumPrinted'
  BY <1>1, <1>5, <1>6 DEF NumPrinted
<1> QED BY <1>7, <1>8, <1>9, <1>10, <1>11, <1>12

\* Before the end of the programs there is a next instruction.
LEMMA StagesGoOn ==
  ASSUME Inv,
         \/ \E at : EchoesLine(at) /\ (LineReading(at) \/ LinePrinting(at) \/ LinePrinted)
         \/ EchoesNumber /\ (NumReading \/ NumPrinting \/ NumPrinted)
  PROVE  Ended \/ ei[fi] < Len(Active.insts)
<1>1. ASSUME fi = 0, ei[0] \in 0 .. 21
      PROVE  ei[fi] < Len(Active.insts)
  <2>1. Len(Active.insts) = 22
    BY <1>1, InSystemFile, SystemCode
  <2> QED BY <1>1, <2>1
<1>2. \A a \in 0 .. 21 : \A n : Starting(a, n) => ei[fi] < Len(Active.insts)
  BY <1>1 DEF Starting
<1>3. \A a \in 0 .. 21 : \A n, l, ret : InBuiltin(a, n, l, ret) => ei[fi] < Len(Active.insts)
  BY <1>1 DEF InBuiltin
<1>4. ASSUME NEW at, EchoesLine(at), LineReading(at) \/ LinePrinting(at) \/ LinePrinted
      PROVE  Ended \/ ei[fi] < Len(Active.insts)
  <2>1. \A a \in 0 .. 4 : \A n : InInit(a, n) => ei[fi] < Len(Active.insts)
    <3> SUFFICES ASSUME NEW a \in 0 .. 4, NEW n, InInit(a, n)
                 PROVE  ei[fi] < Len(Active.insts)
      OBVIOUS
    <3>1. fi = 1 /\ ei[fi] = a
      BY DEF InInit
    <3>2. Len(Active.insts) = 5
      BY <1>4, <3>1, LineCode DEF EchoesLine
    <3> QED BY <3>1, <3>2
  <2>2. CASE LineReading(at)
    BY <1>2, <1>3, <2>1, <2>2 DEF LineReading
  <2>3. CASE LinePrinting(at)
    BY <1>3, <2>1, <2>3 DEF LinePrinting
  <2>4. CASE LinePrinted
    BY <1>3, <2>1, <2>4 DEF LinePrinted
  <2> QED BY <1>4, <2>2, <2>3, <2>4
<1>5. ASSUME EchoesNumber, NumReading \/ NumPrinting \/ NumPrinted
      PROVE  Ended \/ ei[fi] < Len(Active.insts)
  <2>1. \A a \in 0 .. 2 : \A n : InInit(a, n) => ei[fi] < Len(Active.insts)
    <3> SUFFICES ASSUME NEW a \in 0 .. 2, NEW n, InInit(a, n)
                 PROVE  ei[fi] < Len(Active.insts)
      OBVIOUS
    <3>1. fi = 1 /\ ei[fi] = a
      BY DEF InInit
    <3>2. Len(Active.insts) = 3
      BY <1>5, <3>1, NumCode DEF EchoesNumber
    <3> QED BY <3>1, <3>2
  <2>2. CASE NumReading
    BY <1>2, <1>3, <2>1, <2>2 DEF NumReading
  <2>3. CASE NumPrinting
    BY <1>3, <2>1, <2>3 DEF NumPrinting
  <2>4. CASE NumPrinted
    BY <1>3, <2>1, <2>4 DEF NumPrinted
  <2> QED BY <1>5, <2>2, <2>3, <2>4
<1> QED BY <1>4, <1>5

\* At the end, what was read is printed.
LEMMA EndedHasPrinted ==
  ASSUME Ended
  PROVE  /\ \A at : LineReading(at) \/ LinePrinting(at) => FALSE
         /\ NumReading \/ NumPrinting => FALSE
<1>1. fi = 0 /\ ei[0] = 22
  BY DEF Ended
<1>2. /\ \A n : ~Starting(20, n) /\ ~Starting(21, n)
      /\ \A a, n : ~InInit(a, n)
      /\ \A a \in 0 .. 21 : \A n, l, ret : ~InBuiltin(a, n, l, ret)
  BY <1>1 DEF Starting, InInit, InBuiltin
<1> QED BY <1>2 DEF LineReading, LinePrinting, NumReading, NumPrinting

LEMMA InputStays == ASSUME [CNext]_cvars PROVE input' = input
<1>1. CASE Prints \/ Reads
  BY <1>1 DEF Prints, PrintChar, PrintNum, PrintString, Printing,
     Reads, GetChar, GetNum, GetLine, Reading
<1> QED BY <1>1 DEF CNext, Step, Compute, SkipChar, Leave, Drain, cvars

LEMMA ProgramStays == ASSUME Inv, [Next]_vars PROVE prog' = prog
<1>1. CASE Local
  BY <1>1, LocalIs DEF Moves, Stopped, Advanced, Jumped, Halt, Skip, SkipLine, SkipEof, Stop
<1>2. CASE Call
  BY <1>2, CallIs DEF Called, Stopped
<1>3. CASE Ret
  BY <1>3 DEF Ret, Underflow, Stop
<1>4. CASE UNCHANGED vars
  BY <1>4 DEF vars
<1> QED BY <1>1, <1>2, <1>3, <1>4 DEF Next

\* What a step of the machine may do in a stage of a program.
LEMMA StageSteps ==
  ASSUME Inv, Inv', [Next]_vars, Step, status = "run",
         \/ \E at : EchoesLine(at) /\ (LineReading(at) \/ LinePrinting(at) \/ LinePrinted)
         \/ EchoesNumber /\ (NumReading \/ NumPrinting \/ NumPrinted)
  PROVE  \/ Going
         \/ status' \notin {"run", "done"}
         \/ Ended /\ status' # "run" /\ printed' = printed
<1>1. Ended \/ ei[fi] < Len(Active.insts)
  BY StagesGoOn
<1>2. CASE ei[fi] < Len(Active.insts)
  <2>1. ei[fi] \in Nat /\ Len(Active.insts) \in Nat
    BY FileTyped DEF Inv, TypeOK, Active, IsFile
  <2>2. status' # "done"
    BY <1>2, <2>1, DoneOnlyAtEnd
  <2> QED BY <1>2, <2>2 DEF Going
<1>3. CASE Ended
  <2>1. ~(ei[fi] < Len(Active.insts))
    BY <1>3, EndedIsPast
  <2>2. \A op : ~Executing(op)
    BY <2>1 DEF Executing
  <2>3. ~MemoryAccess /\ ~Unary /\ ~Binary /\ ~Goto /\ ~IfGoto /\ ~PopConst
    BY <2>2 DEF MemoryAccess, PushFrame, PopFrame, PushFileSeg, PopFileSeg, PushConst,
       PushHeap, PopHeap, PushPointer, PopPointer, Unary, Binary, Goto, IfGoto, PopConst
  <2>4. ~Call /\ ~Ret /\ ~Prints /\ ~Reads
    BY <2>2 DEF Call, Ret, Prints, PrintChar, PrintNum, PrintString, Printing,
       Reads, GetChar, GetNum, GetLine, Reading
  <2>5. ~SkipChar /\ ~Leave
    BY DEF SkipChar, Leave, Complaints
  <2>6. Halt /\ ErrorOutput
    BY <2>3, <2>4, <2>5 DEF Step, Compute, FCall, FRet
  <2> QED BY <1>3, <2>6, QuietErrors DEF Halt, Stop
<1> QED BY <1>1, <1>2, <1>3

LEMMA LineEchoing ==
  ASSUME Inv, StdinLeft, [CNext]_cvars, NEW at \in 0 .. HeapSize, EchoesLine(at),
         status = "run" => LineReading(at) \/ LinePrinting(at) \/ LinePrinted,
         status = "done" => printed = Visible(FirstLine)
  PROVE  /\ status' = "run" => (LineReading(at) \/ LinePrinting(at) \/ LinePrinted)'
         /\ status' = "done" => printed' = Visible(FirstLine)'
<1>1. [Next]_vars /\ Inv' /\ input' = input /\ input \in Seq(Char)
  BY ConsoleSteps, NextInv, InputStays, StdinTyped
<1>2. Visible(FirstLine)' = Visible(FirstLine)
  BY <1>1, LineStaysDone
<1>3. CASE status # "run"
  <2>1. printed' = printed /\ status' # "run" /\ (status' = "done" => status = "done")
    BY <1>1, <1>3, StoppedIsQuiet, DoneOnlyAtEnd
  <2> QED BY <1>2, <2>1
<1>4. CASE status = "run" /\ UNCHANGED <<vars, input, stdin, printed>>
  <2>1. status' = "run"
    BY <1>4 DEF vars
  <2>2. LineReading(at) \/ LinePrinting(at) \/ LinePrinted
    BY <1>4
  <2>3. LineReading(at)' \/ LinePrinting(at)' \/ LinePrinted'
    <3>1. /\ LineReading(at) => LineReading(at)'
          /\ LinePrinting(at) => LinePrinting(at)'
          /\ LinePrinted => LinePrinted'
      BY <1>4, SameStage
    <3> QED BY <2>2, <3>1
  <2>4. (LineReading(at) \/ LinePrinting(at) \/ LinePrinted)'
    BY <2>3
  <2>5. status' # "done"
    BY <2>1
  <2> QED BY <2>4, <2>5
<1>5. CASE status = "run" /\ Step
  <2>1. LineReading(at) \/ LinePrinting(at) \/ LinePrinted
    BY <1>5
  <2>2. CASE Going
    BY <1>1, <2>1, <2>2, FromLineReading, FromLinePrinting, FromLinePrinted DEF Going
  <2>3. CASE Ended /\ status' # "run" /\ printed' = printed
    <3>1. LinePrinted
      BY <2>1, <2>3, EndedHasPrinted
    <3> QED BY <1>2, <2>3, <3>1 DEF LinePrinted
  <2>4. Going \/ status' \notin {"run", "done"} \/ (Ended /\ status' # "run" /\ printed' = printed)
    <3>1. \E t : EchoesLine(t) /\ (LineReading(t) \/ LinePrinting(t) \/ LinePrinted)
      BY <2>1
    <3> QED BY <1>1, <1>5, <3>1, StageSteps
  <2> QED BY <2>2, <2>3, <2>4
<1> QED BY <1>3, <1>4, <1>5, RunningSteps

LEMMA NumEchoing ==
  ASSUME Inv, StdinLeft, [CNext]_cvars, EchoesNumber,
         status = "run" => NumReading \/ NumPrinting \/ NumPrinted,
         status = "done" => printed = Decimal(Typed) /\ Typed \in Word
  PROVE  /\ status' = "run" => (NumReading \/ NumPrinting \/ NumPrinted)'
         /\ status' = "done" => printed' = Decimal(Typed)' /\ (Typed \in Word)'
<1>1. [Next]_vars /\ Inv' /\ input' = input /\ input \in Seq(Char)
  BY ConsoleSteps, NextInv, InputStays, StdinTyped
<1>2. Decimal(Typed)' = Decimal(Typed) /\ (Typed \in Word)' = (Typed \in Word)
  <2>1. Typed' = Typed
    BY <1>1, SameNumber
  <2> QED BY <2>1 DEF Decimal, Powers, Word
<1>3. CASE status # "run"
  <2>1. printed' = printed /\ status' # "run" /\ (status' = "done" => status = "done")
    BY <1>1, <1>3, StoppedIsQuiet, DoneOnlyAtEnd
  <2> QED BY <1>2, <2>1
<1>4. CASE status = "run" /\ UNCHANGED <<vars, input, stdin, printed>>
  <2>1. status' = "run"
    BY <1>4 DEF vars
  <2>2. NumReading \/ NumPrinting \/ NumPrinted
    BY <1>4
  <2>3. NumReading' \/ NumPrinting' \/ NumPrinted'
    <3>1. /\ NumReading => NumReading'
          /\ NumPrinting => NumPrinting'
          /\ NumPrinted => NumPrinted'
      BY <1>4, SameStage
    <3> QED BY <2>2, <3>1
  <2>4. (NumReading \/ NumPrinting \/ NumPrinted)'
    BY <2>3
  <2>5. status' # "done"
    BY <2>1
  <2> QED BY <2>4, <2>5
<1>5. CASE status = "run" /\ Step
  <2>1. NumReading \/ NumPrinting \/ NumPrinted
    BY <1>5
  <2>2. CASE Going
    BY <1>1, <2>1, <2>2, FromNumReading, FromNumPrinting, FromNumPrinted DEF Going
  <2>3. CASE Ended /\ status' # "run" /\ printed' = printed
    <3>1. NumPrinted
      BY <2>1, <2>3, EndedHasPrinted
    <3> QED BY <1>2, <2>3, <3>1 DEF NumPrinted
  <2>4. Going \/ status' \notin {"run", "done"} \/ (Ended /\ status' # "run" /\ printed' = printed)
    <3>1. EchoesNumber /\ (NumReading \/ NumPrinting \/ NumPrinted)
      BY <2>1
    <3> QED BY <1>1, <1>5, <3>1, StageSteps
  <2> QED BY <2>2, <2>3, <2>4
<1> QED BY <1>3, <1>4, <1>5, RunningSteps

LEMMA EchoingKept ==
  ASSUME Inv, StdinLeft, Echoing, [CNext]_cvars
  PROVE  Echoing'
<1>1. prog' = prog /\ input' = input
  BY ConsoleSteps, ProgramStays, InputStays
<1>2. \A at : EchoesLine(at)' = EchoesLine(at)
  BY <1>1 DEF EchoesLine, EchoStr, Contains
<1>3. EchoesNumber' = EchoesNumber
  <2>1. Typed' = Typed /\ NumberText' = NumberText
    BY <1>1, SameNumber
  <2> QED BY <1>1, <2>1 DEF EchoesNumber, NumberTyped
<1>4. ASSUME NEW at \in 0 .. HeapSize, EchoesLine(at)
      PROVE  /\ status' = "run" => (LineReading(at) \/ LinePrinting(at) \/ LinePrinted)'
             /\ status' = "done" => printed' = Visible(FirstLine)'
  BY <1>4, LineEchoing DEF Echoing
<1>5. ASSUME EchoesNumber
      PROVE  /\ status' = "run" => (NumReading \/ NumPrinting \/ NumPrinted)'
             /\ status' = "done" => printed' = Decimal(Typed)' /\ (Typed \in Word)'
  BY <1>5, NumEchoing DEF Echoing
<1> QED BY <1>2, <1>3, <1>4, <1>5 DEF Echoing

LEMMA EchoingStarts == ASSUME CInit PROVE Echoing
<1>1. Starting(20, 0) /\ stdin = input /\ printed = <<>> /\ status = "run"
  BY DEF CInit, FInit, Init, NewStack, Files, Startup, Starting
<1> QED BY <1>1 DEF Echoing, LineReading, NumReading

LEMMA EchoingEchoes ==
  ASSUME Inv, StdinLeft, Echoing
  PROVE  EchoesInput
<1> SUFFICES ASSUME status = "done" PROVE EchoesInput
  BY DEF EchoesInput
<1>1. input \in Seq(Char)
  BY StdinTyped
<1>2. ASSUME NEW at \in 0 .. HeapSize, prog = EchoStr(at), Contains(input, Newline)
      PROVE  LineEchoed
  <2>1. printed = Visible(FirstLine)
    BY <1>2 DEF Echoing, EchoesLine
  <2>2. FirstLine \in Seq(Char)
    BY <1>1, FirstLineTyped
  <2> QED BY <2>1, <2>2, VisibleCount DEF LineEchoed
<1>3. ASSUME prog = EchoNum, NumberText # <<>>, Value[Len(NumberText)] < UintMod
      PROVE  NumberEchoed
  <2>1. NumberTyped
    BY <1>3 DEF NumberTyped, Typed
  <2>2. printed = Decimal(Typed) /\ Typed \in Word
    BY <1>3, <2>1 DEF Echoing, EchoesNumber
  <2>3. DigitsShown(NumberText, Len(NumberText), Typed)
    BY <1>1, <2>1, <2>2, TypedShown
  <2>4. PICK l \in Nat : l = Len(NumberText) /\ NumberText \in Seq(Char)
    BY <1>1, NumberTextIs
  <2>5. PICK zeros \in 0 .. l - 1 :
          /\ \A i \in 1 .. zeros : NumberText[i] = 48
          /\ Decimal(Typed) = SubSeq(NumberText, zeros + 1, l)
          /\ NumberText[zeros + 1] # 48 \/ (Typed = 0 /\ zeros + 1 = l)
    BY <2>3, <2>4 DEF DigitsShown
  <2>6. printed = Without(NumberText, zeros)
    BY <2>2, <2>4, <2>5 DEF Without
  <2>7. Len(printed) = l - zeros /\ printed[1] = NumberText[zeros + 1]
    <3>1. zeros \in Nat /\ l \in zeros .. Len(NumberText) /\ 1 \in 1 .. l - zeros
      BY <2>4, <2>5
    <3>2. /\ Len(SubSeq(NumberText, zeros + 1, l)) = l - zeros
          /\ \A i \in 1 .. l - zeros :
               SubSeq(NumberText, zeros + 1, l)[i] = NumberText[zeros + i]
      BY <2>4, <3>1, PartFacts
    <3> QED BY <2>2, <2>5, <3>1, <3>2
  <2>8. printed[1] # 48 \/ Len(printed) = 1
    BY <2>4, <2>5, <2>7
  <2> QED BY <2>4, <2>5, <2>6, <2>8 DEF NumberEchoed
<1> QED BY <1>2, <1>3 DEF EchoesInput

\* The echo programs of src/examples, whatever the line and whatever the digits:
\* when one ends without an error, the characters of the line, or the digits
\* without leading zeros, are what it has printed.
THEOREM EchoProgramsEcho == CSpec => []EchoesInput
<1>1. CInit => Echoing
  BY EchoingStarts
<1>2. Inv /\ StdinLeft /\ Echoing /\ [CNext]_cvars => Echoing'
  BY EchoingKept
<1>3. Inv /\ StdinLeft /\ Echoing => EchoesInput
  BY EchoingEchoes
<1> QED BY <1>1, <1>2, <1>3, ConsoleInvariant, PTL DEF CSpec
=============================================================================
