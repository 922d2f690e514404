----------------------------- MODULE MCExecutor -----------------------------
(* Every function body of three instructions that call, jump or move values; *)
(* any two instructions, or three that work on memory, after three pushes;   *)
(* calls that take more arguments than the caller's working stack holds;     *)
(* calls of builtins; calls from beyond what a Word can address.             *)
EXTENDS MCExec

MCPrograms ==
  {FrameProgram(nargs, nlocals, body) :
     nargs \in 0 .. 2, nlocals \in 0 .. 1, body \in [1 .. 3 -> FrameInsts]}
  \cup OpPrograms(WordMod - 1)
  \cup BorrowPrograms
  \cup LongPrograms
  \cup {BuiltinProgram(2, 1, f, m, g, 1) :
          f, g \in SystemNames, m \in 0 .. 2}
=============================================================================
