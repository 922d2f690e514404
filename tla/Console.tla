------------------------------ MODULE Console ------------------------------
(***************************************************************************)
(* The executor on a real console: what Exec chooses when it reads comes   *)
(* from the characters of stdin (`getchar`, `scanf`, `getline` in          *)
(* src/exec.c), and what it prints goes through src/msg.c, stdio's buffer  *)
(* and at last to the terminal, where error messages, which are not        *)
(* buffered, also go.  Characters are their ASCII codes.                   *)
(***************************************************************************)
EXTENDS ExecFrames, SequencesExt

CONSTANTS
  Inputs,   \* what may be on stdin: sequences of characters
  UintMod   \* 2^32: `scanf("%u")` stores an unsigned int

VARIABLES
  input,        \* all of stdin; never changes
  stdin,        \* what is left of it
  printed,      \* every character the program has printed; a history
  pending,      \* what stdio has buffered of them
  shown,        \* what the terminal shows: characters and messages
  last_stdout,  \* the static variable of msg.c
  exited        \* `main` has returned

cvars == <<fvars, input, stdin, printed, pending, shown, last_stdout, exited>>
output == <<printed, pending, shown, last_stdout>>

NUL == 0
ErrorMessage == -1  \* stands for a message, and is no character
Newline == 10
CharMod == 256
Char == 0 .. CharMod - 1
Blanks == 9 .. 13 \cup {32}
DigitChars == 48 .. 57
SignChars == {43, 45}
Minus == 45

ASSUME WordCharAssumption ==
  /\ CharMod < WordMod /\ WordMod <= 65536
  /\ WordMod % CharMod = 0  \* a byte that is made a word is the byte again
  /\ UintMod \in Nat \ {0}
ASSUME InputsAssumption == Inputs \subseteq Seq(Char)

\* `(Word) buf[i]` of a signed char.
AsWord(ch) == IF ch < CharMod \div 2 THEN ch ELSE WordMod - CharMod + ch

\* Exec reads any character or EOF, any unsigned int, and any line that is
\* part of an input.
ASSUME ReadableAssumption ==
  /\ Char \cup {WordMod - 1} \subseteq InputChars
  /\ 0 .. UintMod - 1 \subseteq InputNums
  /\ \A text \in Inputs : \A s \in 0 .. Len(text) : \A n \in 1 .. Len(text) - s :
       [i \in 1 .. n |-> AsWord(text[s + i])] \in InputLines

-----------------------------------------------------------------------------
(* msg.c. *)

\* `hvme_fputs` on stdout: the string is appended to stdio's buffer, and its
\* last character is remembered, the terminating NUL of an empty string too.
LastOf(str) == IF str = <<>> THEN NUL ELSE Last(str)
Puts(str) ==
  /\ printed' = printed \o str
  /\ pending' = pending \o str
  /\ last_stdout' = LastOf(str)
  /\ UNCHANGED shown

\* `hvme_fprintf` of one character: a NUL ends the string it is formatted to.
Formatted(ch) == IF ch = NUL THEN <<>> ELSE <<ch>>

\* The characters of a sequence that show, which are all but NUL: the k-th is
\* the one that k of them precede, itself included.
Visible(chars) ==
  LET at == {i \in DOMAIN chars : chars[i] # NUL}
      place(k) == CHOOSE i \in at : Cardinality({j \in at : j <= i}) = k
  IN  [k \in 1 .. Cardinality(at) |-> chars[place(k)]]

\* The loop of `Sys.print_str`: one `hvme_fprintf` per character.
PutsEach(chars) ==
  IF chars = <<>> THEN UNCHANGED output
  ELSE /\ printed' = printed \o Visible(chars)
       /\ pending' = pending \o Visible(chars)
       /\ last_stdout' = Last(chars)
       /\ UNCHANGED shown

\* Mutant: a trailing newline is added in any case.
Trailer_Always == <<Newline>>

\* The newline `clean_stdout` adds.
Trailer == IF last_stdout \notin {Newline, NUL} THEN <<Newline>> ELSE <<>>

\* Mutant: `clean_stdout` does not flush.
CleanThen_NoFlush(messages) ==
  /\ shown' = shown \o messages
  /\ pending' = pending \o Trailer
  /\ last_stdout' = (IF Trailer = <<>> THEN last_stdout ELSE Newline)
  /\ UNCHANGED printed

\* `clean_stdout`, with its flush, and then messages on stderr.
CleanThen(messages) ==
  /\ shown' = shown \o pending \o Trailer \o messages
  /\ pending' = <<>>
  /\ last_stdout' = (IF Trailer = <<>> THEN last_stdout ELSE Newline)
  /\ UNCHANGED printed

\* stdio may write its buffer to the terminal whenever it likes to.
Drain ==
  /\ status \in {"run", "done", "skip_line", "skip_eof"} /\ pending # <<>>
  /\ shown' = shown \o pending
  /\ pending' = <<>>
  /\ UNCHANGED <<fvars, input, stdin, printed, last_stdout, exited>>

\* How a run ends without a message: the process is killed, or never ends.
\* What its last instruction printed before it was killed is left out.
Silent == {"abort", "oob_heap", "oob_stack", "oob_files", "skip_line", "skip_eof"}
Complaints == Statuses \ (Silent \cup {"run", "done"})

\* The output of a step of the machine that prints nothing but its error.
ErrorOutput ==
  IF status' \in Complaints THEN CleanThen(<<ErrorMessage>>) ELSE UNCHANGED output

-----------------------------------------------------------------------------
(* Steps of the machine that neither read nor print. *)

PopConst == Executing("POP") /\ Discard
Compute ==
  /\ \/ /\ MemoryAccess \/ Unary \/ Binary \/ Goto \/ IfGoto \/ PopConst \/ Halt
        /\ UNCHANGED <<calls, disciplined>>
     \/ FCall \/ FRet
  /\ ErrorOutput
  /\ UNCHANGED <<input, stdin, exited>>

-----------------------------------------------------------------------------
(* Printing. *)

\* The decimal digits of a word, the first of which is not zero.
Powers == <<10000, 1000, 100, 10, 1>>
Decimal(n) ==
  LET leading == {i \in 1 .. 4 : n < Powers[i]}
      zeros   == Cardinality(leading)
  IN  [i \in 1 .. 5 - zeros |-> 48 + ((n \div Powers[zeros + i]) % 10)]

\* Mutant: heap words are printed without the cast to `char`.
AsChar_Wide(word) == word

\* `(char) word`
AsChar(word) == word % CharMod

Printing(op, effect) ==
  /\ Executing(op)
  /\ Discard \/ PrintStr
  /\ IF status' = "run" THEN effect ELSE ErrorOutput
  /\ UNCHANGED <<calls, disciplined, input, stdin, exited>>

PrintChar == Printing("PRINT_CHAR", Puts(Formatted(AsChar(Top(stack)))))
PrintNum == Printing("PRINT_NUM", Puts(Decimal(Top(stack))))
PrintString ==
  Printing("PRINT_STR",
    PutsEach([i \in 1 .. Top(Pop(stack)) |->
                AsChar(heap[(Top(stack) + i - 1) % WordMod])]))

-----------------------------------------------------------------------------
(* Reading. *)

\* The number of characters of S that a text starts with.
Span(text, S) ==
  CHOOSE n \in 0 .. Len(text) :
    /\ \A i \in 1 .. n : text[i] \in S
    /\ n < Len(text) => text[n + 1] \notin S
Without(text, n) == SubSeq(text, n + 1, Len(text))

Reading(op) == Executing(op) /\ UNCHANGED <<calls, disciplined, input, exited>>

\* `Word ch = getchar()`: EOF is -1.
GetChar ==
  /\ Reading("READ_CHAR")
  /\ \/ stdin = <<>> /\ TakeChar(WordMod - 1) /\ UNCHANGED stdin
     \/ stdin # <<>> /\ TakeChar(Head(stdin)) /\ stdin' = Tail(stdin)
  /\ UNCHANGED output

\* What `scanf("%u")` finds after whitespace: a sign, and digits.  It consumes
\* the sign even if no digit follows, and stores the number modulo UintMod.
Text == Without(stdin, Span(stdin, Blanks))
Sign == IF Text # <<>> /\ Text[1] \in SignChars THEN 1 ELSE 0
Digits == Span(Without(Text, Sign), DigitChars)
\* The number the first n digits stand for.
Magnitude[n \in Nat] ==
  IF n = 0 THEN 0 ELSE 10 * Magnitude[n - 1] + Text[Sign + n] - 48
Scanned ==
  (IF Sign = 1 /\ Text[1] = Minus THEN UintMod - Magnitude[Digits]
   ELSE Magnitude[Digits]) % UintMod

GetNum ==
  /\ Reading("READ_NUM")
  /\ stdin' = Without(Text, Sign + Digits)
  /\ \/ Text = <<>> /\ Stop("read_io", stack)
     \/ /\ Text # <<>> /\ Digits = 0
        /\ Stop(IF Contains(stdin', Newline) THEN "skip_line" ELSE "skip_eof", stack)
     \/ Digits > 0 /\ TakeNum(Scanned)
  /\ ErrorOutput

\* Mutant: the loop stops at any whitespace.
SkipEnds_AtBlank(ch) == ch \in Blanks

\* The test of the loop after an invalid number.
SkipEnds(ch) == ch = Newline

\* One turn of that loop.  At the end of the input `fgetc` goes on returning
\* EOF, which is no newline.
SkipChar ==
  /\ status \in {"skip_line", "skip_eof"} /\ stdin # <<>>
  /\ stdin' = Tail(stdin)
  /\ \/ SkipEnds(Head(stdin)) /\ SkipLine
     \/ ~SkipEnds(Head(stdin)) /\ UNCHANGED vars
  /\ ErrorOutput
  /\ UNCHANGED <<calls, disciplined, input, exited>>

\* `getline`: up to and including a newline, or to the end of the input.
LineLen(text) ==
  LET n == Span(text, Char \ {Newline})
  IN  IF n < Len(text) THEN n + 1 ELSE n

\* Mutant: the line is read before the address is popped.
GetLine_ReadFirst ==
  /\ Reading("READ_STR")
  /\ \/ stdin = <<>> /\ Stop("read_io", stack) /\ UNCHANGED stdin
     \/ stdin # <<>> /\ Underflow(stack) /\ UNCHANGED stdin
     \/ /\ Poppable(stack) /\ stdin # <<>>
        /\ LET n == LineLen(stdin)
           IN  /\ TakeLine([i \in 1 .. n |-> AsWord(stdin[i])])
               /\ stdin' = Without(stdin, n)
  /\ ErrorOutput

GetLine ==
  /\ Reading("READ_STR")
  /\ \/ Underflow(stack) /\ UNCHANGED stdin
     \/ /\ Poppable(stack) /\ stdin = <<>>
        /\ Stop("read_io", Pop(stack)) /\ UNCHANGED stdin
     \/ /\ Poppable(stack) /\ stdin # <<>>
        /\ LET n == LineLen(stdin)
           IN  /\ TakeLine([i \in 1 .. n |-> AsWord(stdin[i])])
               /\ stdin' = Without(stdin, n)
  /\ ErrorOutput

-----------------------------------------------------------------------------

\* `run_hvme` cleans stdout after a run without errors; when `main` returns,
\* stdio writes what it still has.
Leave ==
  /\ ~exited /\ status \in Complaints \cup {"done"}
  /\ \/ status = "done" /\ CleanThen(<<>>)
     \/ /\ status # "done"
        /\ shown' = shown \o pending /\ pending' = <<>>
        /\ UNCHANGED <<printed, last_stdout>>
  /\ exited' = TRUE
  /\ UNCHANGED <<fvars, input, stdin>>

CInit ==
  /\ FInit
  /\ input \in Inputs /\ stdin = input
  /\ printed = <<>> /\ pending = <<>> /\ shown = <<>>
  /\ last_stdout = NUL
  /\ exited = FALSE

Prints == PrintChar \/ PrintNum \/ PrintString
Reads == GetChar \/ GetNum \/ GetLine
Step == Compute \/ Prints \/ Reads \/ SkipChar \/ Leave

CNext == Step \/ Drain

\* The program's own steps are fair; stdio need not drain its buffer.
CSpec == CInit /\ [][CNext]_cvars /\ WF_cvars(Step)

-----------------------------------------------------------------------------
(* Properties. *)

\* What the terminal shows, and what is still buffered, is what the program
\* printed, in that order, whenever stdio drained its buffer; then at most one
\* newline, and after an error message nothing more (msg.c:49-55, exec.c:21-97).
OutputInOrder ==
  \E trailer \in {<<>>, <<Newline>>}, message \in {<<>>, <<ErrorMessage>>} :
    shown \o pending = printed \o trailer \o message

\* When the program ends, the terminal's text ends with a newline, which is not
\* added if it is already there; only if the last thing printed was a NUL, which
\* shows nothing, may the line be left open.
EndsOnNewLine ==
  LET text == IF Last(shown) = ErrorMessage THEN Front(shown) ELSE shown
  IN  exited /\ printed # <<>> =>
        IF Last(printed) = Newline THEN text = printed
        ELSE Last(text) = Newline \/ last_stdout = NUL

\* After something that is not a number, the rest of its line is discarded and
\* then the error is reported, as long as the line has an end (exec.c:700-707).
Read_so_far == SubSeq(input, 1, Len(input) - Len(stdin))
InvalidLineReported ==
  (status = "skip_line") ~>
    (status = "read_num_char" /\ Last(Read_so_far) = Newline
       /\ Last(shown) = ErrorMessage)

\* The executor on the console does nothing that Exec's does not do: every
\* character, number and line that comes from stdin is one that Exec allows.
ImplementsExec == Init /\ [][Next]_vars
=============================================================================
