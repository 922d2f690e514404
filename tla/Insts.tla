------------------------------- MODULE Insts -------------------------------
(***************************************************************************)
(* Instructions, files and programs as `parse` (src/parse.c) leaves them   *)
(* and `exec_prog` (src/exec.c) reads them.                                *)
(***************************************************************************)
EXTENDS Words

CONSTANT Idents  \* names of functions and labels, and ""

ASSUME IdentsAssumption == "" \in Idents

Segments == {"ARG", "LOC", "STAT", "CONST", "THIS", "THAT", "PTR", "TMP"}
UnaryOps == {"NEG", "NOT"}
BinaryOps == {"ADD", "SUB", "AND", "OR", "EQ", "LT", "GT"}
BuiltinOps == {"PRINT_CHAR", "PRINT_NUM", "PRINT_STR",
               "READ_CHAR", "READ_NUM", "READ_STR"}
UserOps == {"PUSH", "POP", "GOTO", "IF_GOTO", "CALL", "RET"}
             \cup UnaryOps \cup BinaryOps

\* Fields an instruction does not use are zero, as in C's initialisers.
Inst == [op : UserOps \cup BuiltinOps, seg : Segments, offset : Word,
         ident : Idents, nargs : Word]

Plain(op) == [op |-> op, seg |-> "ARG", offset |-> 0, ident |-> "", nargs |-> 0]
PushI(seg, offset) == [Plain("PUSH") EXCEPT !.seg = seg, !.offset = offset]
PopI(seg, offset) == [Plain("POP") EXCEPT !.seg = seg, !.offset = offset]
CallI(ident, nargs) == [Plain("CALL") EXCEPT !.ident = ident, !.nargs = nargs]

Func(ident) == <<"FUNC", ident>>
Label(ident) == <<"LABEL", ident>>
SymVal == [inst_addr : Nat, nlocals : Word]
At(addr, nlocals) == [inst_addr |-> addr, nlocals |-> nlocals]

\* A file is its instructions and its symbol table; every symbol points at an
\* instruction or just past the last one.
IsFile(f) ==
  /\ f.insts \in Seq(Inst)
  /\ \A key \in DOMAIN f.st :
       /\ f.st[key] \in SymVal
       /\ f.st[key].inst_addr <= Len(f.insts)

\* What `parse` can produce: no builtin instruction.  The array of instructions
\* grows without a limit, also past what a Word can count.
IsProgram(p) ==
  /\ p \in Seq({p[k] : k \in DOMAIN p})
  /\ \A k \in DOMAIN p :
       /\ IsFile(p[k])
       /\ \A i \in DOMAIN p[k].insts : p[k].insts[i].op \in UserOps
=============================================================================
