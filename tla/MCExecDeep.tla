---------------------------- MODULE MCExecDeep ----------------------------
(* Recursion to different depths. *)
EXTENDS MCExec

MCPrograms == {DeepProgram(n) : n \in 0 .. 6}
=============================================================================
