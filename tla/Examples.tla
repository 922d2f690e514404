------------------------------ MODULE Examples ------------------------------
(***************************************************************************)
(* Two of the programs of examples/, which read from the console and print *)
(* what they have read, and what their comments promise.                   *)
(***************************************************************************)
EXTENDS Console, Assembly

\* examples/echo_str.vm, with the line at heap[at].
EchoStr(at) ==
  << MkFile(<< C(at), CallI("Sys.read_str", 1), C(at), CallI("Sys.print_str", 2),
               Return >>, {<<Func("Sys.init"), 0, 0>>}) >>

\* examples/echo_num.vm
EchoNum ==
  << MkFile(<< CallI("Sys.read_num", 0), CallI("Sys.print_num", 1), Return >>,
            {<<Func("Sys.init"), 0, 0>>}) >>

-----------------------------------------------------------------------------
(* What was typed. *)

FirstLine == SubSeq(input, 1, Span(input, Char \ {Newline}))

\* The digits after the first whitespace, and the number that the first n of
\* them stand for.
NumberText == LET text == Without(input, Span(input, Blanks))
              IN  SubSeq(text, 1, Span(text, DigitChars))
Value[n \in Nat] ==
  IF n = 0 THEN 0 ELSE 10 * Value[n - 1] + NumberText[n] - 48

\* The first line without its NULs, which show nothing: a character is printed
\* at the place that those before it leave it.
LineEchoed ==
  LET seen == {i \in DOMAIN FirstLine : FirstLine[i] # NUL}
  IN  /\ Len(printed) = Cardinality(seen)
      /\ \A i \in seen :
           printed[Cardinality({j \in seen : j <= i})] = FirstLine[i]

\* The digits without leading zeros.
NumberEchoed ==
  \E zeros \in 0 .. Len(NumberText) - 1 :
    /\ \A i \in 1 .. zeros : NumberText[i] = 48
    /\ printed = Without(NumberText, zeros)
    /\ printed[1] # 48 \/ Len(printed) = 1

\* The echo programs do what src/examples says of them: once one has ended
\* without an error, a line that ended with a newline has come back as it was
\* typed, whatever bytes it is made of, through the heap and two calls with
\* their frames; and so has a number that fits an unsigned int.
EchoesInput ==
  status = "done" =>
    /\ (\E at \in 0 .. HeapSize : prog = EchoStr(at)) /\ Contains(input, Newline) =>
         LineEchoed
    /\ prog = EchoNum /\ NumberText # <<>> /\ Value[Len(NumberText)] < UintMod =>
         NumberEchoed
=============================================================================
