----------------------------- MODULE MCConsole -----------------------------
(* Programs without loops on short inputs: two calls of any builtins with    *)
(* any arguments, the echo programs of src/examples, and bounded recursion.  *)
EXTENDS Examples, MCExec

MCCNext == stack.sp <= MaxSp /\ CNext
MCCSpec == CInit /\ [][MCCNext]_cvars /\ WF_cvars(stack.sp <= MaxSp /\ Step)

\* Prints a line, then does what may fail.
PrintThen(ch, f) ==
  << MkFile(<< C(ch), CallI("Sys.print_char", 1), CallI(f, 0), Return >>,
            {<<Func("Sys.init"), 0, 0>>}) >>

MCPrograms ==
  {EchoStr(at) : at \in {1, HeapSize}} \cup {EchoNum}
  \cup {PrintThen(ch, f) : ch \in {0, 10, 65}, f \in SystemNames \cup {"nowhere"}}
  \cup {BuiltinProgram(1, 2, f, m, g, n) :
          f, g \in SystemNames, m \in 1 .. 2, n \in 0 .. 1}
  \cup {DeepProgram(n) : n \in 0 .. 3}

\* A, 7, space, newline, minus and a byte above 127.
MCInputs ==
  { <<>>, <<10>>, <<65>>, <<55>>, <<200>>,
    <<65, 10>>, <<65, 200, 10>>, <<65, 66, 67, 68, 10>>, <<65, 0, 66, 10>>,
    <<55, 10>>, <<32, 48, 55, 55, 10, 65>>, <<55, 55, 55, 10>>, <<45, 55, 10>>,
    <<49, 48, 48, 49, 10>>, <<65, 32, 65, 10, 55, 10>>, <<45, 65>>, <<10, 65, 55>>,
    <<55, 65, 10, 55>> }

\* Every piece of an input that `getline` might deliver.
MCLines == UNION { { [i \in 1 .. n |-> AsWord(text[s + i])] :
                       <<s, n>> \in {x \in (0 .. Len(text)) \X (1 .. Len(text)) :
                                      x[1] + x[2] <= Len(text)} } :
                   text \in MCInputs }
MCNums == 0 .. UintMod - 1
MCChars == Char \cup {WordMod - 1}
=============================================================================
