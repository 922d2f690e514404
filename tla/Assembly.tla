------------------------------ MODULE Assembly ------------------------------
(* How a VM program is written down: instructions and files by hand.        *)
EXTENDS Insts

C(n) == PushI("CONST", n)
GotoI(ident) == [Plain("GOTO") EXCEPT !.ident = ident]
IfGotoI(ident) == [Plain("IF_GOTO") EXCEPT !.ident = ident]
Return == Plain("RET")

\* A file whose functions and labels `syms` are << key, address, locals >>.
MkFile(insts, syms) ==
  [insts |-> insts,
   st |-> [key \in {s[1] : s \in syms} |->
             LET s == CHOOSE t \in syms : t[1] = key IN At(s[2], s[3])]]
=============================================================================
