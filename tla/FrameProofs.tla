---------------------------- MODULE FrameProofs ----------------------------
(***************************************************************************)
(* The call stack, for every program and every input: while each call      *)
(* takes its arguments from its caller's own stack, and the addresses it   *)
(* saves fit a Word, no instruction overwrites what `exec_call` saved, and *)
(* `exec_ret` brings all of it back.                                       *)
(***************************************************************************)
EXTENDS ExecFrames, ExecProofs, SequenceTheorems

-----------------------------------------------------------------------------
(* What an instruction does to the stack. *)

\* `spush` of anything leaves the cells below it alone.
LEMMA PushLeaves ==
  ASSUME NEW S, IsStack(S), Backed(S), NEW v, NEW T, T = Push(S, v)
  PROVE  /\ T.sp = S.sp + 1 /\ T.sp <= T.len /\ T.len \in Nat
         /\ \A a \in 0 .. S.sp - 1 : T.ops[a] = S.ops[a]
<1> DEFINE l == GrownLen(S, S.sp + 1)
<1>1. /\ S.sp \in Nat /\ S.len \in Nat /\ S.sp <= S.len
  BY DEF IsStack, Backed
<1>2. l \in Nat /\ l >= S.sp + 1 /\ l >= S.len
  BY <1>1, GrownLenFacts
<1>3. Len(<<v>>) = 1
  OBVIOUS
<1>4. T = [ops |-> PushedOps(S, <<v>>, l), sp |-> S.sp + 1, len |-> l]
  BY <1>3 DEF Push, PushAll
<1> HIDE DEF l
<1>5. \A a \in 0 .. S.sp - 1 : PushedOps(S, <<v>>, l)[a] = S.ops[a]
  BY <1>1, <1>2 DEF PushedOps
<1> QED BY <1>1, <1>2, <1>4, <1>5

\* The activation's own cells: its arguments and its locals.
Own(a) == a \in reg.arg .. reg.arg + reg.arg_len - 1 \/ a \in reg.lcl .. Floor - 1

\* A stack that is still the activation's: everything up to the end of its
\* locals is there, and only its own cells may differ.
Keeps(S) ==
  /\ Floor <= S.sp /\ Floor <= S.len
  /\ \A a \in 0 .. Floor - 1 : Own(a) \/ S.ops[a] = stack.ops[a]

\* The same with no exception.
KeepsAll(S) ==
  /\ Floor <= S.sp /\ Floor <= S.len /\ S.sp \in Nat /\ S.len \in Nat
  /\ \A a \in 0 .. Floor - 1 : S.ops[a] = stack.ops[a]

LEMMA PopKeeps ==
  ASSUME Inv, status = "run", NEW S, IsStack(S), Backed(S), KeepsAll(S), Poppable(S)
  PROVE  /\ IsStack(Pop(S)) /\ Backed(Pop(S)) /\ KeepsAll(Pop(S))
         /\ Pop(S).sp < Pop(S).len /\ Pop(S).sp = S.sp - 1
<1>1. /\ Floor \in Nat /\ S.sp \in Nat /\ S.sp > Floor /\ S.len \in Nat
  BY Running DEF Poppable, CanPop, IsStack
<1>2. /\ IsStack(Pop(S)) /\ Backed(Pop(S))
      /\ Pop(S).sp = S.sp - 1 /\ Pop(S).sp < Pop(S).len
      /\ \A a \in 0 .. Pop(S).len - 1 : Pop(S).ops[a] = S.ops[a]
  BY <1>1, PopFacts
<1>3. Pop(S).len \in Nat
  BY <1>2 DEF IsStack
<1> QED BY <1>1, <1>2, <1>3 DEF KeepsAll

LEMMA PushKeeps ==
  ASSUME Inv, status = "run", NEW S, IsStack(S), Backed(S), KeepsAll(S), NEW v
  PROVE  KeepsAll(Push(S, v))
<1>1. Floor \in Nat /\ S.sp \in Nat /\ Floor <= S.sp
  BY Running DEF KeepsAll
<1> QED BY <1>1, PushLeaves DEF KeepsAll

\* The stacks a step other than a call or a return can leave.
LocalStacks ==
  \/ stack' = stack
  \/ \E v : stack' = Push(stack, v)
  \/ /\ Poppable(stack)
     /\ \/ stack' = Pop(stack)
        \/ stack' = PutBack(Pop(stack))
        \/ \E v : stack' = Push(Pop(stack), v)
        \/ /\ InSegment /\ Cur.seg \in {"ARG", "LOC"} /\ Cur.offset \in Nat
           /\ stack' = Poke(Pop(stack), SegAddr, Top(stack))
  \/ /\ PoppableTwice
     /\ \/ stack' = Pop(Pop(stack))
        \/ stack' = Unpop(Pop(Pop(stack)))
        \/ \E v : stack' = Push(Pop(Pop(stack)), v)

LEMMA LocalStacksKeep ==
  ASSUME Inv, status = "run", Floor <= stack.sp, LocalStacks
  PROVE  Keeps(stack')
<1>1. /\ IsStack(stack) /\ Backed(stack) /\ Floor \in Nat
      /\ stack.sp \in Nat /\ stack.len \in Nat /\ stack.sp <= stack.len
  BY Running
<1>2. KeepsAll(stack)
  BY <1>1 DEF KeepsAll
<1>3. ASSUME Poppable(stack)
      PROVE  /\ IsStack(Pop(stack)) /\ Backed(Pop(stack)) /\ KeepsAll(Pop(stack))
             /\ Pop(stack).sp < Pop(stack).len /\ Pop(stack).sp = stack.sp - 1
  BY <1>1, <1>2, <1>3, PopKeeps
<1>4. ASSUME PoppableTwice
      PROVE  /\ IsStack(Pop(Pop(stack))) /\ Backed(Pop(Pop(stack)))
             /\ KeepsAll(Pop(Pop(stack)))
  BY <1>3, <1>4, PopKeeps DEF PoppableTwice
<1>5. \A S : KeepsAll(S) => Keeps(S)
  BY DEF Keeps, KeepsAll
<1>6. CASE \E v : stack' = Push(stack, v)
  BY <1>1, <1>2, <1>5, <1>6, PushKeeps
<1>7. CASE Poppable(stack) /\ stack' = PutBack(Pop(stack))
  <2>1. /\ stack'.ops = Pop(stack).ops /\ stack'.len = Pop(stack).len
        /\ stack'.sp = Pop(stack).sp + 1
    BY <1>3, <1>7 DEF PutBack, IsStack
  <2> QED BY <1>1, <1>3, <1>7, <2>1 DEF Keeps, KeepsAll
<1>8. CASE Poppable(stack) /\ \E v : stack' = Push(Pop(stack), v)
  BY <1>3, <1>5, <1>8, PushKeeps
<1>9. CASE /\ Poppable(stack) /\ InSegment /\ Cur.seg \in {"ARG", "LOC"}
           /\ Cur.offset \in Nat /\ stack' = Poke(Pop(stack), SegAddr, Top(stack))
  <2>1. /\ stack'.sp = Pop(stack).sp /\ stack'.len = Pop(stack).len
        /\ \A a : a # SegAddr => stack'.ops[a] = Pop(stack).ops[a]
    BY <1>3, <1>9 DEF Poke, IsStack
  <2>2. reg.arg \in Nat /\ reg.arg_len \in Nat /\ reg.lcl \in Nat /\ reg.lcl_len \in Nat
    BY DEF Inv, TypeOK
  <2>3. SegAddr \in 0 .. Floor - 1 => Own(SegAddr)
    BY <1>9, <2>2 DEF InSegment, SegAddr, SegBase, SegLen, Own, Floor
  <2> QED BY <1>3, <1>9, <2>1, <2>3 DEF Keeps, KeepsAll
<1>10. CASE PoppableTwice /\ stack' = Unpop(Pop(Pop(stack)))
  <2>1. /\ stack'.ops = Pop(Pop(stack)).ops /\ stack'.len = Pop(Pop(stack)).len
        /\ stack'.sp = Pop(Pop(stack)).sp + 2
    BY <1>4, <1>10 DEF Unpop, IsStack
  <2> QED BY <1>1, <1>4, <1>10, <2>1 DEF Keeps, KeepsAll
<1>11. CASE PoppableTwice /\ \E v : stack' = Push(Pop(Pop(stack)), v)
  BY <1>4, <1>5, <1>11, PushKeeps
<1> QED BY <1>2, <1>3, <1>4, <1>5, <1>6, <1>7, <1>8, <1>9, <1>10, <1>11 DEF LocalStacks

-----------------------------------------------------------------------------
(* Where a step other than a call or a return leads. *)

WildStatuses == {"oob_stack", "oob_files"}

Stopped == /\ UNCHANGED <<prog, fi, ei, reg>>
           /\ status' \notin {"run", "done"} \cup WildStatuses
Advanced == /\ UNCHANGED <<prog, fi, reg, status>>
            /\ ei' = [ei EXCEPT ![fi] = @ + 1]
            /\ status = "run" /\ Cur.op \notin {"CALL", "RET"}
Jumped == /\ UNCHANGED <<prog, reg, status>>
          /\ status = "run" /\ Cur.op \in {"GOTO", "IF_GOTO"}
          /\ fi' # 0 /\ ei'[0] = ei[0]

Moves == Stopped \/ Advanced \/ Jumped

\* The system file defines functions only, so that no label leads into it.
LEMMA LabelsAreUsers ==
  ASSUME NEW ident, NEW k \in Files, TypeOK, JumpTo(Label(ident), k)
  PROVE  fi' # 0 /\ ei'[0] = ei[0]
<1>1. k \in Targets(Label(ident))
  BY DEF JumpTo
<1>2. Label(ident) \in DOMAIN FileOf(k).st
  BY <1>1 DEF Targets
<1>3. k # 0
  <2>1. \A key \in DOMAIN SystemFile.st : key[1] = "FUNC"
    BY DEF SystemFile, Func
  <2>2. Label(ident)[1] = "LABEL"
    BY DEF Label
  <2> QED BY <1>2, <2>1, <2>2 DEF FileOf
<1>4. 0 \in Files /\ ei \in [Files -> Nat]
  BY DEF TypeOK, Files, IsProgram
<1> QED BY <1>3, <1>4 DEF JumpTo

LEMMA UnderflowIs ==
  ASSUME NEW S, Underflow(S)
  PROVE  stack' = S /\ Stopped
  BY DEF Underflow, Stop, Stopped, WildStatuses

LEMMA MemoryAccessIs ==
  ASSUME Inv, MemoryAccess
  PROVE  LocalStacks /\ Moves
<1>1. \A op : Executing(op) => Cur.op = op /\ status = "run" /\ Cur.offset \in Nat
  BY CurTyped DEF Inv
<1>2. CASE PushFrame
  BY <1>1, <1>2 DEF PushFrame, SegmentError, Stop, Advance, LocalStacks, Moves,
     Stopped, Advanced, WildStatuses
<1>3. CASE PopFrame
  BY <1>1, <1>3, UnderflowIs DEF PopFrame, SegmentError, Stop, Advance, LocalStacks,
     Moves, Stopped, Advanced, WildStatuses
<1>4. CASE PushFileSeg
  BY <1>1, <1>4 DEF PushFileSeg, FileSegError, Stop, Advance, LocalStacks, Moves,
     Stopped, Advanced, WildStatuses
<1>5. CASE PopFileSeg
  BY <1>1, <1>5, UnderflowIs DEF PopFileSeg, FileSegError, Stop, Advance, LocalStacks,
     Moves, Stopped, Advanced, WildStatuses
<1>6. CASE PushConst
  BY <1>1, <1>6 DEF PushConst, Advance, LocalStacks, Moves, Advanced
<1>7. CASE PushHeap
  BY <1>1, <1>7 DEF PushHeap, HeapError, Stop, Advance, LocalStacks, Moves,
     Stopped, Advanced, WildStatuses
<1>8. CASE PopHeap
  BY <1>1, <1>8, UnderflowIs DEF PopHeap, HeapError, Stop, Advance, LocalStacks,
     Moves, Stopped, Advanced, WildStatuses
<1>9. CASE PushPointer
  BY <1>1, <1>9 DEF PushPointer, PointerError, Stop, Advance, LocalStacks, Moves,
     Stopped, Advanced, WildStatuses
<1>10. CASE PopPointer
  BY <1>1, <1>10, UnderflowIs DEF PopPointer, PointerError, Stop, Advance, LocalStacks,
     Moves, Stopped, Advanced, WildStatuses
<1> QED BY <1>2, <1>3, <1>4, <1>5, <1>6, <1>7, <1>8, <1>9, <1>10 DEF MemoryAccess

LEMMA UnderflowOfTwoIs ==
  ASSUME UnderflowOfTwo
  PROVE  LocalStacks /\ Moves
  BY UnderflowIs DEF UnderflowOfTwo, LocalStacks, Moves

LEMMA OperatorsAre ==
  ASSUME Inv, Unary \/ Binary
  PROVE  LocalStacks /\ Moves
<1>1. \A op : Executing(op) => Cur.op = op /\ status = "run"
  BY DEF Executing
<1>2. \A op \in UnaryOps \cup BinaryOps : op \notin {"CALL", "RET"}
  BY DEF UnaryOps, BinaryOps
<1>3. CASE Unary
  BY <1>1, <1>2, <1>3, UnderflowIs DEF Unary, Advance, LocalStacks, Moves, Advanced
<1>4. CASE Binary
  <2>1. PICK op \in BinaryOps :
          /\ Executing(op)
          /\ \/ UnderflowOfTwo
             \/ /\ PoppableTwice
                /\ \/ \E val : Advance(Push(Pop(Pop(stack)), val))
                   \/ Stop(ArithmeticError(op), Unpop(Pop(Pop(stack))))
    BY <1>4 DEF Binary
  <2>2. CASE UnderflowOfTwo
    BY <2>2, UnderflowOfTwoIs
  <2>3. CASE PoppableTwice /\ \E val : Advance(Push(Pop(Pop(stack)), val))
    BY <1>1, <1>2, <2>1, <2>3 DEF Advance, LocalStacks, Moves, Advanced
  <2>4. CASE PoppableTwice /\ Stop(ArithmeticError(op), Unpop(Pop(Pop(stack))))
    BY <2>4 DEF Stop, ArithmeticError, LocalStacks, Moves, Stopped, WildStatuses
  <2> QED BY <2>1, <2>2, <2>3, <2>4
<1> QED BY <1>3, <1>4

LEMMA JumpErrorIs ==
  ASSUME NEW key, NEW S, JumpError(key, S)
  PROVE  stack' = S /\ Stopped
  BY DEF JumpError, Stop, Stopped, WildStatuses

LEMMA JumpsAre ==
  ASSUME Inv, Goto \/ IfGoto
  PROVE  LocalStacks /\ Moves
<1>1. \A op : Executing(op) => Cur.op = op /\ status = "run"
  BY DEF Executing
<1>2. TypeOK
  BY DEF Inv
<1>3. \A k \in Files : JumpTo(Label(Cur.ident), k) => fi' # 0 /\ ei'[0] = ei[0]
  BY <1>2, LabelsAreUsers
<1>4. \A k : JumpTo(Label(Cur.ident), k) => UNCHANGED <<prog, status>>
  BY DEF JumpTo
<1>5. CASE Goto
  BY <1>1, <1>3, <1>4, <1>5, JumpErrorIs DEF Goto, LocalStacks, Moves, Jumped
<1>6. CASE IfGoto
  BY <1>1, <1>3, <1>4, <1>6, JumpErrorIs, UnderflowIs
     DEF IfGoto, Advance, LocalStacks, Moves, Advanced, Jumped
<1> QED BY <1>5, <1>6

LEMMA BuiltinsAre ==
  ASSUME Inv, Builtin
  PROVE  LocalStacks /\ Moves
<1>1. \A op : Executing(op) => Cur.op = op /\ status = "run"
  BY DEF Executing
<1>2. CASE Discard
  BY <1>1, <1>2, UnderflowIs DEF Discard, Advance, LocalStacks, Moves, Advanced
<1>3. CASE PrintStr
  <2>1. /\ Executing("PRINT_STR")
        /\ \/ UnderflowOfTwo
           \/ /\ PoppableTwice
              /\ \/ Advance(Pop(Pop(stack)))
                 \/ Stop("oob_heap", Pop(Pop(stack)))
    BY <1>3 DEF PrintStr
  <2> QED BY <1>1, <2>1, UnderflowOfTwoIs
          DEF Advance, Stop, LocalStacks, Moves, Advanced, Stopped, WildStatuses
<1>4. CASE ReadChar
  BY <1>1, <1>4 DEF ReadChar, TakeChar, Advance, LocalStacks, Moves, Advanced
<1>5. CASE ReadNum
  BY <1>1, <1>5 DEF ReadNum, TakeNum, Advance, Stop, LocalStacks, Moves, Advanced,
     Stopped, WildStatuses
<1>6. CASE ReadStr
  BY <1>1, <1>6, UnderflowIs DEF ReadStr, TakeLine, Advance, Stop, LocalStacks, Moves,
     Advanced, Stopped, WildStatuses
<1> QED BY <1>2, <1>3, <1>4, <1>5, <1>6 DEF Builtin

\* The whole of it: every local step but the ends of programs.
LEMMA LocalIs ==
  ASSUME Inv, Local
  PROVE  \/ /\ LocalStacks /\ Moves
            /\ status = "run" /\ ei[fi] < Len(Active.insts) /\ Cur.op \notin {"CALL", "RET"}
         \/ Halt
         \/ Skip
<1>1. MemoryAccess \/ Unary \/ Binary \/ Goto \/ IfGoto \/ Builtin
        => \E op : Executing(op) /\ op \notin {"CALL", "RET"}
  BY DEF MemoryAccess, PushFrame, PopFrame, PushFileSeg, PopFileSeg, PushConst, PushHeap,
     PopHeap, PushPointer, PopPointer, Unary, Binary, Goto, IfGoto, Builtin, Discard,
     PrintStr, ReadChar, ReadNum, ReadStr, UnaryOps, BinaryOps
<1>2. \A op : Executing(op) => status = "run" /\ ei[fi] < Len(Active.insts) /\ Cur.op = op
  BY DEF Executing
<1> QED BY <1>1, <1>2, MemoryAccessIs, OperatorsAre, JumpsAre, BuiltinsAre DEF Local

-----------------------------------------------------------------------------
(* The system file. *)

LEMMA SystemCode ==
  /\ Len(SystemInsts) = 22
  /\ SystemInsts[21] = PushI("CONST", 0) /\ SystemInsts[22] = CallI("Sys.init", 1)
  /\ SystemInsts[20].op = "RET"
  /\ \A i \in 1 .. 20 : SystemInsts[i].op # "CALL"
<1>1. \A seg, offset : PushI(seg, offset).op = "PUSH"
  BY DEF PushI, Plain
<1>2. \A op : Plain(op).op = op
  BY DEF Plain
<1> QED BY <1>1, <1>2 DEF SystemInsts

LEMMA InSystemFile ==
  ASSUME fi = 0
  PROVE  /\ Active.insts = SystemInsts
         /\ Cur = SystemInsts[ei[0] + 1]
  BY DEF Active, Cur, FileOf, SystemFile

\* What the startup code does: one push, one call, and the end.
LEMMA StartupStep ==
  ASSUME Inv, Local, status = "run", fi = 0, ei[0] \in Startup .. Startup + 2
  PROVE  \/ ei[0] = Startup /\ Advance(Push(stack, 0))
         \/ ei[0] = Startup + 2 /\ Halt
<1>1. \/ ei[fi] < Len(Active.insts) /\ Cur.op \notin {"CALL", "RET"}
      \/ Halt
      \/ Skip
  BY LocalIs
<1>2. Len(Active.insts) = 22
  BY InSystemFile, SystemCode
<1>3. ~Skip
  BY DEF Skip, SkipLine, SkipEof
<1>4. CASE ei[0] = Startup
  <2>1. Cur = PushI("CONST", 0)
    BY <1>4, InSystemFile, SystemCode DEF Startup
  <2>2. Cur.op = "PUSH" /\ Cur.seg = "CONST" /\ Cur.offset = 0
    BY <2>1 DEF PushI, Plain
  <2>3. ~Halt
    BY <1>2, <1>4 DEF Halt, Startup
  <2>4. ~(Unary \/ Binary \/ Goto \/ IfGoto \/ Builtin)
    BY <2>2 DEF Unary, Binary, Goto, IfGoto, Builtin, Discard, PrintStr, ReadChar, ReadNum,
       ReadStr, Executing, UnaryOps, BinaryOps
  <2>5. MemoryAccess
    BY <1>3, <2>3, <2>4 DEF Local
  <2>6. PushConst
    BY <2>2, <2>5 DEF MemoryAccess, PushFrame, PopFrame, PushFileSeg, PopFileSeg, PushHeap,
       PopHeap, PushPointer, PopPointer, Executing
  <2> QED BY <1>4, <2>2, <2>6 DEF PushConst
<1>5. CASE ei[0] = Startup + 1
  <2>1. Cur = CallI("Sys.init", 1)
    BY <1>5, InSystemFile, SystemCode DEF Startup
  <2>2. Cur.op = "CALL"
    BY <2>1 DEF CallI, Plain
  <2> QED BY <1>1, <1>2, <1>3, <1>5, <2>2 DEF Halt, Startup
<1>6. CASE ei[0] = Startup + 2
  BY <1>1, <1>2, <1>3, <1>6 DEF Startup
<1> QED BY <1>4, <1>5, <1>6 DEF Startup

-----------------------------------------------------------------------------
(* The inductive invariant. *)

Segmented == [arg : Nat, arg_len : Nat, lcl : Nat, lcl_len : Nat]
NoSegments == [arg |-> 0, arg_len |-> 0, lcl |-> 0, lcl_len |-> 0]

Snapshots ==
  [fi : Nat, ei : Nat, reg : Segmented, ptr : [this : Word, that : Word],
   frame : Nat, nargs : Nat, ops : UNION {[0 .. n - 1 -> Word] : n \in Nat}]

\* A pending call: its frame is addressed by a Word and has room below it.
Pending(i) ==
  /\ calls[i].fi \in Files
  /\ calls[i].frame < WordMod /\ calls[i].nargs + 8 <= calls[i].frame
  /\ i > 1 => calls[i].fi # 0
  /\ SavedIntact(calls[i]) /\ Linked(i)
  /\ \A a \in 0 .. Base(calls[i]) - 1 : stack.ops[a] = calls[i].ops[a]

Stacked ==
  /\ Regs(1) = NoSegments
  /\ \A i \in DOMAIN calls : Pending(i)
  /\ \A i, j \in DOMAIN calls : i < j => calls[i].frame <= Base(calls[j])
  /\ Floor <= stack.sp

\* Where execution is: in the startup code, which has pushed the argument of
\* `Sys.init` and gets one value for it, or in a function.
Outermost ==
  IF calls = <<>>
  THEN /\ fi = 0 /\ ei[0] \in Startup .. Startup + 2
       /\ stack.sp = IF ei[0] = Startup THEN 0 ELSE 1
  ELSE /\ calls[1].fi = 0 /\ calls[1].ei = Startup + 1
       /\ calls[1].frame = 9 /\ calls[1].nargs = 1
       /\ fi = 0 => ei[0] < Startup

EndsOutermost == status = "done" /\ fi = 0 => calls = <<>> /\ ei[0] = Startup + 2

Orderly == Stacked /\ Outermost /\ EndsOutermost /\ status \notin WildStatuses

FramesInv ==
  /\ Inv
  /\ calls \in Seq(Snapshots)
  /\ disciplined \in BOOLEAN
  /\ disciplined => Orderly

LEMMA CallFacts ==
  ASSUME calls \in Seq(Snapshots), NEW i \in DOMAIN calls
  PROVE  /\ i \in Nat /\ i >= 1 /\ i <= Len(calls) /\ Len(calls) \in Nat
         /\ calls[i] \in Snapshots
         /\ calls[i].frame \in Nat /\ calls[i].nargs \in Nat
         /\ calls[i].reg \in Segmented
         /\ calls[i].reg.lcl \in Nat /\ calls[i].reg.lcl_len \in Nat
         /\ Base(calls[i]) \in Int
<1>1. calls[i] \in Snapshots /\ i \in 1 .. Len(calls) /\ Len(calls) \in Nat
  OBVIOUS
<1>2. /\ calls[i].frame \in Nat /\ calls[i].nargs \in Nat
      /\ calls[i].reg \in Segmented
  BY <1>1 DEF Snapshots
<1>3. calls[i].reg.lcl \in Nat /\ calls[i].reg.lcl_len \in Nat
  BY <1>2 DEF Segmented
<1>4. Base(calls[i]) \in Int
  BY <1>2 DEF Base
<1> QED BY <1>1, <1>2, <1>3, <1>4

LEMMA NonEmpty ==
  ASSUME calls \in Seq(Snapshots), calls # <<>>
  PROVE  /\ Len(calls) \in Nat /\ Len(calls) >= 1
         /\ 1 \in DOMAIN calls /\ Len(calls) \in DOMAIN calls
<1>1. Len(calls) # 0
  BY EmptySeq
<1> QED BY <1>1

\* A pending call lies below the arguments of the running activation, and
\* those below its locals.
LEMMA PendingBelow ==
  ASSUME Inv, calls \in Seq(Snapshots), Stacked, NEW i \in DOMAIN calls
  PROVE  /\ Base(calls[i]) <= calls[i].frame - 8 /\ Base(calls[i]) >= 0
         /\ Base(calls[i]) <= reg.arg
         /\ calls[i].frame <= reg.lcl
         /\ i < Len(calls) => calls[i].frame <= reg.arg
         /\ i = Len(calls) => reg.arg + reg.arg_len = calls[i].frame - 8
         /\ reg.arg \in Nat /\ reg.arg_len \in Nat
         /\ reg.lcl \in Nat /\ reg.lcl_len \in Nat /\ Floor \in Nat
         /\ reg.arg + reg.arg_len <= reg.lcl
<1> DEFINE n == Len(calls)
<1>1. n \in DOMAIN calls /\ n \in Nat /\ i \in 1 .. n /\ n + 1 \notin DOMAIN calls
  BY CallFacts
<1>2. /\ reg.lcl = calls[n].frame /\ reg.arg = Base(calls[n])
      /\ reg.arg_len = calls[n].nargs
  BY <1>1 DEF Stacked, Pending, Linked, Regs
<1>3. \A j \in DOMAIN calls :
        /\ calls[j].frame \in Nat /\ calls[j].nargs \in Nat
        /\ calls[j].nargs + 8 <= calls[j].frame
  BY CallFacts DEF Stacked, Pending
<1>4. /\ reg.arg \in Nat /\ reg.arg_len \in Nat
      /\ reg.lcl \in Nat /\ reg.lcl_len \in Nat /\ Floor \in Nat
  BY DEF Inv, TypeOK, Floor
<1>5. \A j \in DOMAIN calls : Base(calls[j]) = calls[j].frame - 8 - calls[j].nargs
  BY DEF Base
<1>6. CASE i = n
  BY <1>1, <1>2, <1>3, <1>4, <1>5, <1>6, SMTT(60)
<1>7. CASE i < n
  <2>1. calls[i].frame <= Base(calls[n])
    BY <1>1, <1>7 DEF Stacked
  <2>2. /\ Base(calls[i]) = calls[i].frame - 8 - calls[i].nargs
        /\ Base(calls[n]) = calls[n].frame - 8 - calls[n].nargs
        /\ calls[i].frame \in Nat /\ calls[i].nargs \in Nat
        /\ calls[i].nargs + 8 <= calls[i].frame
        /\ calls[n].frame \in Nat /\ calls[n].nargs \in Nat
    BY <1>1, <1>3, <1>5
  <2>3. calls[n].nargs + 8 <= calls[n].frame
    BY <1>1, <1>3
  <2>4. /\ Base(calls[i]) <= calls[i].frame - 8 /\ Base(calls[i]) >= 0
        /\ Base(calls[i]) <= Base(calls[n]) /\ calls[i].frame <= calls[n].frame
        /\ Base(calls[n]) + calls[n].nargs <= calls[n].frame
    <3> DEFINE f == calls[i].frame
               k == calls[i].nargs
               top == calls[n].frame
               m == calls[n].nargs
    <3>1. /\ f \in Nat /\ k \in Nat /\ top \in Nat /\ m \in Nat
          /\ k + 8 <= f /\ m + 8 <= top /\ f <= top - 8 - m
      BY <2>1, <2>2, <2>3
    <3>2. Base(calls[i]) = f - 8 - k /\ Base(calls[n]) = top - 8 - m
      BY <2>2
    <3> HIDE DEF f, k, top, m
    <3>3. /\ f - 8 - k <= f - 8 /\ f - 8 - k >= 0
          /\ f - 8 - k <= top - 8 - m /\ f <= top
          /\ top - 8 - m + m <= top
      BY <3>1
    <3> QED BY <3>2, <3>3 DEF f, top, m
  <2>5. i # n
    BY <1>1, <1>7
  <2> HIDE DEF n
  <2> QED BY <1>2, <1>4, <2>1, <2>4, <2>5 DEF n
<1> QED BY <1>6, <1>7, CallFacts

-----------------------------------------------------------------------------
(* Local steps. *)

\* A step of the running activation leaves everything below it alone.
LEMMA LocalKeepsStacked ==
  ASSUME Inv, Inv', calls \in Seq(Snapshots), Stacked,
         calls' = calls, prog' = prog, reg' = reg, Keeps(stack')
  PROVE  Stacked'
<1>1. \A i : Regs(i)' = Regs(i)
  BY DEF Regs
<1>2. Floor' = Floor /\ Files' = Files
  BY DEF Floor, Files
<1>3. \A i : Base(calls'[i]) = Base(calls[i])
  BY DEF Base
<1>a. /\ stack'.len \in Nat /\ stack'.sp \in Nat
      /\ reg.arg \in Nat /\ reg.arg_len \in Nat /\ reg.lcl \in Nat /\ reg.lcl_len \in Nat
      /\ Floor \in Nat /\ Floor = reg.lcl + reg.lcl_len
  BY DEF Inv, TypeOK, IsStack, Floor
<1>4. ASSUME NEW i \in DOMAIN calls
      PROVE  Pending(i)'
  <2> DEFINE c == calls[i]
  <2>1. /\ Base(c) <= c.frame - 8 /\ Base(c) >= 0 /\ Base(c) <= reg.arg
        /\ c.frame <= reg.lcl
        /\ i < Len(calls) => c.frame <= reg.arg
        /\ i = Len(calls) => reg.arg + reg.arg_len = c.frame - 8
        /\ reg.arg \in Nat /\ reg.arg_len \in Nat
        /\ reg.lcl \in Nat /\ reg.lcl_len \in Nat /\ Floor \in Nat
        /\ reg.arg + reg.arg_len <= reg.lcl /\ Floor = reg.lcl + reg.lcl_len
    BY PendingBelow DEF Floor
  <2>2. /\ c.frame \in Nat /\ Base(c) \in Int
        /\ (i < Len(calls) \/ i = Len(calls))
    BY CallFacts
  <2>3. Pending(i) /\ SavedIntact(c)
    BY DEF Stacked, Pending
  <2> HIDE DEF c
  <2>4. ASSUME NEW a \in Nat, a < Base(c) \/ a \in c.frame - 8 .. c.frame - 1
        PROVE  stack'.ops[a] = stack.ops[a]
    <3>1. a < reg.lcl /\ (a < reg.arg \/ a >= reg.arg + reg.arg_len)
      <4>1. CASE a < Base(c)
        BY <1>a, <2>1, <2>2, <4>1, SMTT(60)
      <4>2. CASE a \in c.frame - 8 .. c.frame - 1
        BY <1>a, <2>1, <2>2, <4>2, SMTT(60)
      <4> QED BY <2>4, <4>1, <4>2
    <3>2. a \in 0 .. Floor - 1 /\ ~Own(a)
      BY <1>a, <3>1, SMTT(60) DEF Own
    <3> QED BY <3>2 DEF Keeps
  <2>5. \A a \in 0 .. Base(c) - 1 : stack'.ops[a] = stack.ops[a]
    BY <2>2, <2>4
  <2>6. ASSUME NEW b \in 1 .. 8
        PROVE  stack'.ops[c.frame - b] = stack.ops[c.frame - b]
    <3> DEFINE f == c.frame
               l == Base(c)
    <3>a. f \in Nat /\ l \in Int /\ l >= 0 /\ l <= f - 8
      BY <2>1, <2>2
    <3> HIDE DEF f, l
    <3>b. f - b \in Nat /\ f - b \in f - 8 .. f - 1
      BY <3>a
    <3>1. c.frame - b \in Nat /\ c.frame - b \in c.frame - 8 .. c.frame - 1
      BY <3>b DEF f
    <3> QED BY <2>4, <3>1
  <2>7. c.frame <= stack'.len
    BY <1>a, <2>1, <2>2, SMTT(60) DEF Keeps
  <2>8. SavedIntact(c)'
    BY <2>3, <2>6, <2>7 DEF SavedIntact, c
  <2> QED BY <1>1, <1>2, <1>3, <2>3, <2>5, <2>8 DEF Pending, Linked, c
<1>5. Floor' <= stack'.sp
  BY <1>2 DEF Keeps
<1> QED BY <1>1, <1>3, <1>4, <1>5 DEF Stacked

\* A step that changes neither the stack nor where execution is.
LEMMA StillOrderly ==
  ASSUME FramesInv, disciplined, calls' = calls, status' \notin WildStatuses,
         UNCHANGED <<prog, fi, ei, reg, stack>>, EndsOutermost'
  PROVE  Orderly'
<1>1. Stacked' = Stacked
  BY DEF Stacked, Pending, SavedIntact, Linked, Regs, Base, Floor, Files
<1>2. Outermost' = Outermost
  BY DEF Outermost
<1> QED BY <1>1, <1>2 DEF FramesInv, Orderly

LEMMA HaltOrderly ==
  ASSUME FramesInv, disciplined, Halt, calls' = calls
  PROVE  Orderly'
<1>1. UNCHANGED <<prog, fi, ei, reg, stack>> /\ status' = "done" /\ ei[fi] >= Len(Active.insts)
  BY DEF Halt, Stop
<1>2. Orderly /\ Outermost
  BY DEF FramesInv, Orderly
<1>3. EndsOutermost'
  <2> SUFFICES ASSUME fi = 0
               PROVE  calls = <<>> /\ ei[0] = Startup + 2
    BY <1>1 DEF EndsOutermost
  <2>1. Len(Active.insts) = 22
    BY InSystemFile, SystemCode
  <2>2. ei[0] \in Nat
    BY DEF FramesInv, Inv, TypeOK
  <2> QED BY <1>1, <1>2, <2>1, <2>2 DEF Outermost, Startup
<1> QED BY <1>1, <1>3, StillOrderly DEF WildStatuses

LEMMA SkipOrderly ==
  ASSUME FramesInv, disciplined, Skip, calls' = calls
  PROVE  Orderly'
  BY StillOrderly DEF Skip, SkipLine, SkipEof, Stop, WildStatuses, EndsOutermost

LEMMA LocalOrderly ==
  ASSUME FramesInv, Inv', disciplined, FLocal
  PROVE  Orderly'
<1>1. calls' = calls /\ Local
  BY DEF FLocal
<1>2. CASE Halt
  BY <1>1, <1>2, HaltOrderly
<1>3. CASE Skip
  BY <1>1, <1>3, SkipOrderly
<1>4. CASE /\ LocalStacks /\ Moves
           /\ status = "run" /\ ei[fi] < Len(Active.insts) /\ Cur.op \notin {"CALL", "RET"}
  <2>1. /\ Inv /\ calls \in Seq(Snapshots)
        /\ Stacked /\ Outermost /\ Floor <= stack.sp
        /\ status \notin WildStatuses
    BY DEF FramesInv, Orderly, Stacked
  <2>2. prog' = prog /\ reg' = reg
    BY <1>4 DEF Moves, Stopped, Advanced, Jumped
  <2>3. Stacked'
    BY <1>1, <1>4, <2>1, <2>2, LocalStacksKeep, LocalKeepsStacked
  <2>4. status' \notin WildStatuses /\ EndsOutermost'
    BY <1>4 DEF Moves, Stopped, Advanced, Jumped, WildStatuses, EndsOutermost
  <2>5. CASE calls = <<>>
    <3>1. fi = 0 /\ ei[0] \in Startup .. Startup + 2 /\ ei \in [Files -> Nat] /\ fi \in Files
      BY <2>1, <2>5 DEF Outermost, Inv, TypeOK
    <3>2. ~Halt
      <4>1. ei[fi] \in Nat /\ Len(Active.insts) = 22
        BY <3>1, InSystemFile, SystemCode
      <4> QED BY <1>4, <4>1 DEF Halt
    <3>3. ei[0] = Startup /\ Advance(Push(stack, 0))
      BY <1>1, <1>4, <2>1, <3>1, <3>2, StartupStep
    <3>4. fi' = 0 /\ ei'[0] = Startup + 1
      BY <3>1, <3>3 DEF Advance
    <3>5. stack'.sp = 1
      <4>1. stack.sp = 0 /\ IsStack(stack) /\ Backed(stack)
        BY <1>4, <2>1, <2>5, <3>3, Running DEF Outermost
      <4> QED BY <3>3, <4>1, PushLeaves DEF Advance
    <3>6. Outermost'
      BY <1>1, <2>5, <3>4, <3>5 DEF Outermost, Startup
    <3> QED BY <2>3, <2>4, <3>6 DEF Orderly
  <2>6. CASE calls # <<>>
    <3>1. fi' = 0 => ei'[0] < Startup
      <4>1. fi = 0 => ei[0] < Startup /\ ei[0] \in Nat
        BY <2>1, <2>6 DEF Outermost, Inv, TypeOK
      <4>2. CASE Stopped
        BY <4>1, <4>2 DEF Stopped
      <4>3. CASE Advanced
        <5>1. fi = 0 => ei[0] # 19
          BY <1>4, InSystemFile, SystemCode
        <5>2. fi' = fi /\ (fi = 0 => ei'[0] = ei[0] + 1)
          BY <2>1, <4>3 DEF Advanced, Inv, TypeOK
        <5> QED BY <4>1, <5>1, <5>2 DEF Startup
      <4>4. CASE Jumped
        BY <4>4 DEF Jumped
      <4> QED BY <1>4, <4>2, <4>3, <4>4 DEF Moves
    <3>2. Outermost'
      BY <1>1, <2>1, <2>6, <3>1 DEF Outermost
    <3> QED BY <2>3, <2>4, <3>2 DEF Orderly
  <2> QED BY <2>5, <2>6
<1> QED BY <1>1, <1>2, <1>3, <1>4, LocalIs DEF FramesInv

-----------------------------------------------------------------------------
(* Calls. *)

\* What a call that succeeds does to the stack and to the registers.
Called ==
  /\ status = "run" /\ status' = "run" /\ prog' = prog /\ ptr' = ptr
  /\ Cur.op = "CALL" /\ ei[fi] < Len(Active.insts)
  /\ Cur.nargs \in Nat /\ Cur.nargs <= stack.sp
  /\ reg'.arg = stack.sp - Cur.nargs /\ reg'.arg_len = Cur.nargs
  /\ reg'.lcl = stack.sp + 8
  /\ stack'.sp = stack.sp + 8 + reg'.lcl_len /\ stack'.sp <= stack'.len
  /\ \A a \in 0 .. stack.sp - 1 : stack'.ops[a] = stack.ops[a]
  /\ \A b \in 1 .. 8 : stack'.ops[stack.sp + b - 1] = SavedWords[b]

LEMMA EightFirst ==
  ASSUME NEW s \in Seq(Word), Len(s) = 8, NEW n \in Nat, NEW t \in Seq(Word), Len(t) = n
  PROVE  /\ s \o t \in Seq(Word) /\ Len(s \o t) = 8 + n
         /\ \A b \in 1 .. 8 : (s \o t)[b] = s[b] /\ b \in 1 .. Len(s \o t)
<1>1. /\ s \o t \in Seq(Word)
      /\ Len(s \o t) = Len(s) + Len(t)
      /\ \A i \in 1 .. Len(s) + Len(t) :
           (s \o t)[i] = IF i <= Len(s) THEN s[i] ELSE t[i - Len(s)]
  BY ConcatProperties, Zenon
<1> DEFINE v == s \o t
<1>2. /\ Len(v) = 8 + n
      /\ \A i \in 1 .. 8 + n : v[i] = IF i <= 8 THEN s[i] ELSE t[i - 8]
  BY <1>1
<1> HIDE DEF v
<1>3. \A b \in 1 .. 8 : v[b] = s[b] /\ b \in 1 .. Len(v)
  BY <1>2
<1> QED BY <1>1, <1>2, <1>3 DEF v

LEMMA CallIs ==
  ASSUME Inv, Call
  PROVE  \/ stack' = stack /\ Stopped
         \/ Called /\ \E k \in Files : JumpTo(Func(Cur.ident), k)
<1>1. /\ TypeOK /\ IsStack(stack) /\ Backed(stack) /\ stack.sp \in Nat
      /\ stack.len \in Nat /\ stack.sp <= stack.len
      /\ Cur.nargs \in Nat /\ status = "run" /\ Cur.op = "CALL"
      /\ ei[fi] < Len(Active.insts)
  BY CurTyped, Running DEF Call, Inv, Executing
<1>2. CASE Stop("nargs", stack)
  BY <1>2 DEF Stop, Stopped, WildStatuses
<1>3. CASE JumpError(Func(Cur.ident), stack)
  BY <1>3, JumpErrorIs, SMTT(60)
<1>4. ASSUME NEW k \in Files, NEW nlocals,
             nlocals = FileOf(k).st[Func(Cur.ident)].nlocals,
             Cur.nargs <= stack.sp,
             JumpTo(Func(Cur.ident), k),
             stack' = PushAll(stack, SavedWords \o Locals(nlocals)),
             reg' = [arg |-> stack.sp - Cur.nargs, arg_len |-> Cur.nargs,
                     lcl |-> stack.sp + 8, lcl_len |-> nlocals],
             KeepMemory
      PROVE  Called
  <2>1. /\ prog' = prog /\ status' = status
        /\ FileOf(k).st[Func(Cur.ident)] \in SymVal
    BY <1>1, <1>4, JumpTyped
  <2>2. nlocals \in Nat
    BY <1>4, <2>1, SmallWords DEF SymVal
  <2> DEFINE saved == SavedWords
             locals == Locals(nlocals)
             vals == saved \o locals
  <2>3. /\ saved \in Seq(Word) /\ Len(saved) = 8
        /\ locals \in Seq(Word) /\ Len(locals) = nlocals
    BY <1>1, <2>2, SavedWordsTyped, LocalsTyped
  <2>4. stack' = PushAll(stack, vals)
    BY <1>4
  <2> HIDE DEF saved, locals
  <2>5. /\ vals \in Seq(Word) /\ Len(vals) = 8 + nlocals
        /\ \A b \in 1 .. 8 : vals[b] = saved[b] /\ b \in 1 .. Len(vals)
    BY <2>2, <2>3, EightFirst
  <2> HIDE DEF vals
  <2>a. PICK T : T = PushAll(stack, vals)
    OBVIOUS
  <2>b. vals \in Seq(Word) /\ IsStack(stack) /\ stack.sp <= stack.len
    BY <1>1, <2>5
  <2>c. /\ T.sp = stack.sp + Len(vals) /\ T.sp <= T.len
        /\ \A a \in 0 .. stack.sp - 1 : T.ops[a] = stack.ops[a]
        /\ \A i \in 1 .. Len(vals) : T.ops[stack.sp + i - 1] = vals[i]
    BY <2>a, <2>b, PushAllFacts
  <2>6. /\ stack'.sp = stack.sp + Len(vals) /\ stack'.sp <= stack'.len
        /\ \A a \in 0 .. stack.sp - 1 : stack'.ops[a] = stack.ops[a]
        /\ \A i \in 1 .. Len(vals) : stack'.ops[stack.sp + i - 1] = vals[i]
    BY <2>4, <2>a, <2>c
  <2>7. \A b \in 1 .. 8 : stack'.ops[stack.sp + b - 1] = SavedWords[b]
    BY <2>5, <2>6 DEF saved
  <2>8. ptr' = ptr
    BY <1>4 DEF KeepMemory
  <2>d. reg'.lcl_len = nlocals
    BY <1>4
  <2>9. stack'.sp = stack.sp + 8 + reg'.lcl_len
    BY <1>1, <2>2, <2>5, <2>6, <2>d
  <2> QED BY <1>1, <1>4, <2>1, <2>6, <2>7, <2>8, <2>9, Zenon DEF Called
<1> QED BY <1>1, <1>2, <1>3, <1>4 DEF Call

\* A call never leads into the startup code, and `Sys.init` is not a builtin.
LEMMA CallTarget ==
  ASSUME TypeOK, NEW k \in Files, JumpTo(Func(Cur.ident), k)
  PROVE  /\ fi' = 0 => ei'[0] < Startup
         /\ fi = 0 /\ ei[0] = Startup + 1 => fi' # 0
<1>1. k \in Targets(Func(Cur.ident)) /\ fi' = k
  BY DEF JumpTo
<1>2. Func(Cur.ident) \in DOMAIN FileOf(k).st
  BY <1>1 DEF Targets
<1>3. ASSUME k = 0
      PROVE  /\ Cur.ident \in SystemNames
             /\ SystemFile.st[Func(Cur.ident)].inst_addr < Startup
  <2>1. Func(Cur.ident) \in DOMAIN SystemFile.st
    BY <1>2, <1>3 DEF FileOf
  <2>2. PICK ident \in SystemNames : Func(Cur.ident) = Func(ident)
    BY <2>1 DEF SystemFile
  <2>3. SystemFile.st[Func(Cur.ident)] = SystemSymbol(ident) /\ Cur.ident = ident
    BY <2>1, <2>2 DEF SystemFile, Func
  <2>4. SystemSymbol(ident) \in {At(0, 0), At(4, 0), At(8, 0), At(13, 0),
                                 At(15, 0), At(17, 1)}
    BY <2>2 DEF SystemSymbol, SystemNames
  <2>5. \A a, n : At(a, n).inst_addr = a
    BY DEF At
  <2> QED BY <2>2, <2>3, <2>4, <2>5 DEF Startup
<1>4. fi' = 0 => ei'[0] < Startup
  <2> SUFFICES ASSUME k = 0
               PROVE  ei'[0] < Startup
    BY <1>1
  <2>1. ei' = [ei EXCEPT ![0] = SystemFile.st[Func(Cur.ident)].inst_addr]
    BY DEF JumpTo, FileOf
  <2>2. 0 \in DOMAIN ei
    BY DEF TypeOK
  <2> QED BY <1>3, <2>1, <2>2
<1>5. fi = 0 /\ ei[0] = Startup + 1 => fi' # 0
  <2> SUFFICES ASSUME fi = 0, ei[0] = Startup + 1, k = 0
               PROVE  FALSE
    BY <1>1
  <2>1. Cur = CallI("Sys.init", 1)
    BY InSystemFile, SystemCode DEF Startup
  <2>2. Cur.ident = "Sys.init"
    BY <2>1 DEF CallI, Plain
  <2> QED BY <1>3, <2>2 DEF SystemNames
<1> QED BY <1>4, <1>5

LEMMA TwoAndSix ==
  ASSUME NEW a, NEW b, NEW c, NEW d, NEW e, NEW f, NEW g, NEW h
  PROVE  <<a, b>> \o <<c, d, e, f, g, h>> = <<a, b, c, d, e, f, g, h>>
<1> DEFINE s == <<a, b>>
           t == <<c, d, e, f, g, h>>
           u == <<a, b, c, d, e, f, g, h>>
<1>1. /\ Len(s) = 2 /\ Len(t) = 6 /\ Len(u) = 8
  OBVIOUS
<1>2. \A i \in 1 .. 8 : u[i] = IF i <= 2 THEN s[i] ELSE t[i - 2]
  OBVIOUS
<1>3. s \o t = [i \in 1 .. 8 |-> IF i <= 2 THEN s[i] ELSE t[i - 2]]
  <2>1. s \o t = [i \in 1 .. Len(s) + Len(t) |->
                     IF i <= Len(s) THEN s[i] ELSE t[i - Len(s)]]
    OBVIOUS
  <2> HIDE DEF s, t
  <2>2. Len(s) + Len(t) = 8
    BY <1>1
  <2> QED BY <1>1, <2>1, <2>2
<1>4. u = [i \in 1 .. 8 |-> u[i]]
  OBVIOUS
<1> HIDE DEF s, t, u
<1>5. u = [i \in 1 .. 8 |-> IF i <= 2 THEN s[i] ELSE t[i - 2]]
  BY <1>2, <1>4
<1>6. s \o t = u
  BY <1>3, <1>5
<1> QED BY <1>6 DEF s, t, u

\* The caller's registers fit in the words `exec_call` casts them to.
LEMMA SavedExactly ==
  ASSUME FramesInv, disciplined, Called, FrameFitsWord, ReturnFitsWord
  PROVE  SavedWords = << ei[fi], fi, reg.lcl, reg.lcl_len, reg.arg, reg.arg_len,
                         ptr.this, ptr.that >>
<1>1. /\ Inv /\ TypeOK /\ calls \in Seq(Snapshots) /\ Stacked
      /\ Floor <= stack.sp /\ stack.sp \in Nat /\ WordMod \in Nat
  BY SmallWords DEF FramesInv, Orderly, Stacked, Inv, TypeOK, IsStack
<1>2. \A w \in 0 .. WordMod - 1 : w % WordMod = w
  BY WordModAssumption
<1>3. ei[fi] \in Nat /\ fi \in Nat
  BY <1>1 DEF TypeOK, Files
<1>4. ei[fi] \in 0 .. WordMod - 1 /\ fi \in 0 .. WordMod - 1
  BY <1>1, <1>3 DEF ReturnFitsWord
<1>5. /\ reg.lcl \in Nat /\ reg.lcl_len \in Nat /\ reg.arg \in Nat /\ reg.arg_len \in Nat
      /\ Floor = reg.lcl + reg.lcl_len
  BY <1>1 DEF TypeOK, Floor
<1>6. reg.arg + reg.arg_len <= reg.lcl
  <2>1. CASE calls = <<>>
    <3>1. reg = NoSegments
      BY <1>1, <2>1 DEF Stacked, Regs
    <3> QED BY <3>1 DEF NoSegments
  <2>2. CASE calls # <<>>
    <3>1. 1 \in DOMAIN calls
      BY <1>1, <2>2, NonEmpty
    <3> QED BY <1>1, <3>1, PendingBelow
  <2> QED BY <2>1, <2>2
<1>7. /\ reg.lcl \in 0 .. WordMod - 1 /\ reg.lcl_len \in 0 .. WordMod - 1
      /\ reg.arg \in 0 .. WordMod - 1 /\ reg.arg_len \in 0 .. WordMod - 1
  BY <1>1, <1>5, <1>6, SMTT(60) DEF FrameFitsWord
<1>8. ptr.this \in 0 .. WordMod - 1 /\ ptr.that \in 0 .. WordMod - 1
  BY <1>1 DEF TypeOK, Word
<1>9. SavedWords = << ei[fi] % WordMod, fi % WordMod,
                      reg.lcl % WordMod, reg.lcl_len % WordMod,
                      reg.arg % WordMod, reg.arg_len % WordMod,
                      ptr.this % WordMod, ptr.that % WordMod >>
  BY TwoAndSix DEF SavedWords, Registers
<1> QED BY <1>2, <1>3, <1>4, <1>7, <1>8, <1>9

\* What a frame needs of the stack is below its own address.
LEMMA SavedStays ==
  ASSUME NEW c, c.frame \in Nat, c.frame >= 8, SavedIntact(c),
         c.frame <= stack'.len,
         \A b \in 1 .. 8 : stack'.ops[c.frame - b] = stack.ops[c.frame - b]
  PROVE  /\ c.frame <= stack'.len
         /\ stack'.ops[c.frame - 8] = c.ei
         /\ stack'.ops[c.frame - 7] = c.fi
         /\ stack'.ops[c.frame - 6] = c.reg.lcl
         /\ stack'.ops[c.frame - 5] = c.reg.lcl_len
         /\ stack'.ops[c.frame - 4] = c.reg.arg
         /\ stack'.ops[c.frame - 3] = c.reg.arg_len
         /\ stack'.ops[c.frame - 2] = c.ptr.this
         /\ stack'.ops[c.frame - 1] = c.ptr.that
  BY DEF SavedIntact

\* A pending call, and where it lies: at or below the caller's registers.
LEMMA BelowFloor ==
  ASSUME FramesInv, disciplined, NEW i \in DOMAIN calls
  PROVE  /\ Pending(i) /\ SavedIntact(calls[i]) /\ Linked(i)
         /\ calls[i].frame \in Nat /\ calls[i].nargs \in Nat /\ calls[i].frame >= 8
         /\ Base(calls[i]) \in Nat /\ Base(calls[i]) <= calls[i].frame - 8
         /\ calls[i].frame <= Floor /\ Floor \in Nat /\ stack.sp \in Nat
         /\ Floor <= stack.sp
<1> DEFINE f == calls[i].frame
           k == calls[i].nargs
<1>1. Inv /\ calls \in Seq(Snapshots) /\ Stacked
  BY DEF FramesInv, Orderly
<1>2. Pending(i) /\ SavedIntact(calls[i]) /\ Linked(i) /\ Floor <= stack.sp
  BY <1>1 DEF Stacked, Pending
<1>3. f \in Nat /\ k \in Nat /\ k + 8 <= f
  BY <1>1, <1>2, CallFacts DEF Pending
<1>4. Base(calls[i]) = f - 8 - k
  BY DEF Base
<1>5. f <= reg.lcl /\ reg.lcl \in Nat /\ reg.lcl_len \in Nat
  BY <1>1, PendingBelow
<1>6. stack.sp \in Nat
  BY <1>1 DEF Inv, TypeOK, IsStack
<1> HIDE DEF f, k
<1>7. f - 8 - k \in Nat /\ f - 8 - k <= f - 8 /\ f >= 8
  BY <1>3
<1>8. f <= Floor /\ Floor \in Nat
  BY <1>3, <1>5 DEF Floor
<1> QED BY <1>2, <1>3, <1>4, <1>6, <1>7, <1>8 DEF f, k

\* Outside the startup code, the system file calls nothing.
LEMMA CallerIsUsers ==
  ASSUME FramesInv, disciplined, Called, calls # <<>>
  PROVE  fi # 0
<1> SUFFICES ASSUME fi = 0
             PROVE  FALSE
  OBVIOUS
<1>1. ei[0] \in Nat /\ ei[0] < Startup
  BY DEF FramesInv, Orderly, Outermost, Inv, TypeOK
<1>2. ei[0] + 1 \in 1 .. 20
  BY <1>1, SMTT(60) DEF Startup
<1>3. Cur = SystemInsts[ei[0] + 1] /\ Cur.op = "CALL"
  BY InSystemFile DEF Called
<1> QED BY <1>2, <1>3, SystemCode

LEMMA SnapshotTyped ==
  ASSUME Inv, status = "run", Cur.nargs \in Nat
  PROVE  Snapshot \in Snapshots
<1>1. /\ fi \in Nat /\ ei[fi] \in Nat /\ reg \in Segmented
      /\ ptr \in [this : Word, that : Word]
      /\ stack.sp + 8 \in Nat
  BY DEF Inv, TypeOK, Files, IsStack, Segmented
<1>2. stack.ops \in UNION {[0 .. n - 1 -> Word] : n \in Nat}
  <2>1. stack.len \in Nat /\ stack.ops \in [0 .. stack.len - 1 -> Word]
    BY DEF Inv, TypeOK, IsStack
  <2> QED BY <2>1
<1> QED BY <1>1, <1>2 DEF Snapshot, Snapshots

\* The new frame is on top of everything, and holds the caller's registers.
LEMMA CallStacked ==
  ASSUME FramesInv, Inv', disciplined, Called, OwnArguments, FrameFitsWord, ReturnFitsWord,
         calls' = Append(calls, Snapshot)
  PROVE  Stacked' /\ calls' \in Seq(Snapshots)
<1>a. PICK n : n = Len(calls)
  OBVIOUS
<1>b. PICK c : c = Snapshot
  OBVIOUS
<1>c. PICK s : s = stack.sp
  OBVIOUS
<1>1. /\ Inv /\ calls \in Seq(Snapshots) /\ Stacked /\ Floor <= stack.sp
      /\ n \in Nat /\ status = "run"
  BY <1>a DEF FramesInv, Orderly, Stacked, Called
<1>2. /\ s \in Nat /\ stack.sp \in Nat /\ stack'.sp \in Nat /\ stack'.len \in Nat
      /\ Floor \in Nat /\ Floor = reg.lcl + reg.lcl_len
      /\ reg'.lcl \in Nat /\ reg'.lcl_len \in Nat
  BY <1>1, <1>c, SMTT(60) DEF Inv, TypeOK, IsStack, Floor
<1>3. c \in Snapshots
  BY <1>1, <1>b, SnapshotTyped DEF Called
<1>4. /\ c.fi = fi /\ c.ei = ei[fi] /\ c.reg = reg /\ c.ptr = ptr
      /\ c.frame = s + 8 /\ c.nargs = Cur.nargs /\ c.ops = stack.ops
  BY <1>b, <1>c DEF Snapshot
<1>5. /\ calls' \in Seq(Snapshots) /\ DOMAIN calls' = 1 .. n + 1
      /\ \A i \in 1 .. n : calls'[i] = calls[i]
      /\ calls'[n + 1] = c
  BY <1>1, <1>3, <1>a, <1>b
<1>6. DOMAIN calls = 1 .. n
  BY <1>1, <1>a
<1>7. \A i \in 1 .. n + 1 : Regs(i)' = Regs(i)
  BY <1>1, <1>4, <1>5, <1>6 DEF Regs
<1>8. Regs(n + 2)' = reg'
  BY <1>1, <1>5 DEF Regs
<1>d. PICK k : k = Cur.nargs
  OBVIOUS
<1>e. k \in Nat /\ k <= s /\ Floor <= s - k
  <2>1. k \in Nat /\ k <= s
    BY <1>c, <1>d DEF Called
  <2>2. PICK m : m = Floor
    OBVIOUS
  <2>3. k <= s - m /\ m \in Nat
    BY <1>2, <1>c, <1>d, <2>2 DEF OwnArguments
  <2>4. m <= s - k
    BY <1>2, <2>1, <2>3
  <2> QED BY <2>1, <2>2, <2>4
<1>9. Base(c) = s - k /\ Base(c) \in Nat /\ Floor <= Base(c) /\ Base(c) <= s
  <2>1. Base(c) = (s + 8) - 8 - k
    BY <1>4, <1>d DEF Base
  <2> QED BY <1>2, <1>e, <2>1
<1>10. Files' = Files /\ fi \in Files
  BY <1>1 DEF Called, Files, Inv, TypeOK
<1>11. /\ \A a \in 0 .. s - 1 : stack'.ops[a] = stack.ops[a]
       /\ reg'.lcl = s + 8 /\ reg'.arg = s - k /\ reg'.arg_len = k
       /\ stack'.sp = s + 8 + reg'.lcl_len /\ stack'.sp <= stack'.len
  BY <1>c, <1>d DEF Called
<1>12. ASSUME NEW i \in 1 .. n
       PROVE  Pending(i)' /\ calls[i].frame <= Floor
  <2>d. PICK d : d = calls[i]
    OBVIOUS
  <2>1. /\ Pending(i) /\ SavedIntact(d) /\ Linked(i)
        /\ d.frame \in Nat /\ d.frame >= 8
        /\ Base(d) \in Nat /\ Base(d) <= d.frame - 8
        /\ d.frame <= Floor
    BY <1>6, <2>d, BelowFloor
  <2>2. calls'[i] = d
    BY <1>5, <2>d
  <2>e. PICK f : f = d.frame
    OBVIOUS
  <2>f. f \in Nat /\ f >= 8 /\ f <= Floor /\ Base(d) <= f - 8
    BY <2>1, <2>e
  <2>3. f <= s /\ f <= stack'.len
    BY <1>1, <1>2, <1>c, <1>11, <2>f, SMTT(60)
  <2>4. \A b \in 1 .. 8 : f - b \in 0 .. s - 1
    BY <1>2, <2>3, <2>f
  <2>5. \A b \in 1 .. 8 : stack'.ops[d.frame - b] = stack.ops[d.frame - b]
    BY <1>11, <2>4, <2>e
  <2>6. SavedIntact(calls[i])'
    BY <2>1, <2>2, <2>3, <2>5, <2>e, SavedStays DEF SavedIntact
  <2>7. Base(calls'[i]) = Base(d)
    BY <2>2 DEF Base
  <2>8. \A a \in 0 .. Base(d) - 1 : stack'.ops[a] = d.ops[a]
    <3>1. \A a \in 0 .. Base(d) - 1 : a \in 0 .. s - 1
      BY <1>2, <2>1, <2>3, <2>f
    <3> QED BY <1>11, <2>1, <2>d, <3>1 DEF Pending
  <2>9. Linked(i)'
    <3>1. i + 1 \in 1 .. n + 1
      BY <1>1
    <3> QED BY <1>7, <2>1, <2>2, <2>7, <2>d, <3>1 DEF Linked
  <2> QED BY <1>10, <2>1, <2>2, <2>6, <2>7, <2>8, <2>9, <2>d DEF Pending
<1>13. Pending(n + 1)'
  <2>1. SavedIntact(calls[n + 1])'
    <3>1. \A b \in 1 .. 8 : stack'.ops[s + b - 1] = SavedWords[b]
      BY <1>c DEF Called
    <3>2. SavedWords = << ei[fi], fi, reg.lcl, reg.lcl_len, reg.arg, reg.arg_len,
                          ptr.this, ptr.that >>
      BY SavedExactly
    <3>4. /\ stack'.ops[c.frame - 8] = SavedWords[1] /\ stack'.ops[c.frame - 7] = SavedWords[2]
          /\ stack'.ops[c.frame - 6] = SavedWords[3] /\ stack'.ops[c.frame - 5] = SavedWords[4]
          /\ stack'.ops[c.frame - 4] = SavedWords[5] /\ stack'.ops[c.frame - 3] = SavedWords[6]
          /\ stack'.ops[c.frame - 2] = SavedWords[7] /\ stack'.ops[c.frame - 1] = SavedWords[8]
      <4>1. /\ stack'.ops[s + 1 - 1] = SavedWords[1] /\ stack'.ops[s + 2 - 1] = SavedWords[2]
            /\ stack'.ops[s + 3 - 1] = SavedWords[3] /\ stack'.ops[s + 4 - 1] = SavedWords[4]
            /\ stack'.ops[s + 5 - 1] = SavedWords[5] /\ stack'.ops[s + 6 - 1] = SavedWords[6]
            /\ stack'.ops[s + 7 - 1] = SavedWords[7] /\ stack'.ops[s + 8 - 1] = SavedWords[8]
        BY <3>1
      <4>2. /\ c.frame - 8 = s + 1 - 1 /\ c.frame - 7 = s + 2 - 1
            /\ c.frame - 6 = s + 3 - 1 /\ c.frame - 5 = s + 4 - 1
            /\ c.frame - 4 = s + 5 - 1 /\ c.frame - 3 = s + 6 - 1
            /\ c.frame - 2 = s + 7 - 1 /\ c.frame - 1 = s + 8 - 1
        <5>1. PICK f : f = c.frame
          OBVIOUS
        <5>2. f = s + 8 /\ s \in Nat
          BY <1>2, <1>4, <5>1
        <5>3. /\ f - 8 = s + 1 - 1 /\ f - 7 = s + 2 - 1
              /\ f - 6 = s + 3 - 1 /\ f - 5 = s + 4 - 1
              /\ f - 4 = s + 5 - 1 /\ f - 3 = s + 6 - 1
              /\ f - 2 = s + 7 - 1 /\ f - 1 = s + 8 - 1
          BY <5>2
        <5> QED BY <5>1, <5>3
      <4> QED BY <4>1, <4>2, Zenon
    <3>5. c.frame <= stack'.len
      BY <1>2, <1>4, <1>11
    <3>6. n + 1 \in DOMAIN calls' /\ calls'[n + 1] = c
      BY <1>1, <1>5
    <3> QED BY <1>4, <3>2, <3>4, <3>5, <3>6 DEF SavedIntact
  <2>2. Linked(n + 1)'
    <3>1. (n + 1) + 1 = n + 2 /\ Base(calls'[n + 1]) = Base(c)
      BY <1>1, <1>5 DEF Base
    <3>2. /\ reg'.lcl = c.frame /\ reg'.arg = Base(c) /\ reg'.arg_len = c.nargs
          /\ c.reg.lcl + c.reg.lcl_len <= Base(c)
      BY <1>2, <1>4, <1>9, <1>11, <1>d
    <3> QED BY <1>5, <1>8, <3>1, <3>2 DEF Linked
  <2>3. \A a \in 0 .. Base(c) - 1 : stack'.ops[a] = c.ops[a]
    <3>1. \A a \in 0 .. Base(c) - 1 : a \in 0 .. s - 1
      BY <1>2, <1>9
    <3> QED BY <1>4, <1>11, <3>1
  <2>4. n + 1 > 1 => c.fi # 0
    <3>1. n + 1 > 1 => calls # <<>>
      BY <1>1, <1>a
    <3> QED BY <1>4, <3>1, CallerIsUsers
  <2>5. c.frame < WordMod /\ c.nargs + 8 <= c.frame
    BY <1>2, <1>4, <1>c, <1>d, <1>e DEF FrameFitsWord
  <2>6. Base(calls'[n + 1]) = Base(c)
    BY <1>5 DEF Base
  <2> QED BY <1>4, <1>5, <1>10, <2>1, <2>2, <2>3, <2>4, <2>5, <2>6 DEF Pending
<1>14. \A i \in DOMAIN calls' : Pending(i)'
  BY <1>1, <1>5, <1>12, <1>13
<1>15. ASSUME NEW i \in DOMAIN calls', NEW j \in DOMAIN calls', i < j
       PROVE  calls'[i].frame <= Base(calls'[j])
  <2>1. i \in 1 .. n /\ calls'[i] = calls[i]
    BY <1>1, <1>5, <1>15
  <2>2. CASE j \in 1 .. n
    <3>1. calls'[j] = calls[j] /\ calls[i].frame <= Base(calls[j])
      BY <1>1, <1>5, <1>6, <1>15, <2>1, <2>2 DEF Stacked
    <3> QED BY <2>1, <3>1
  <2>3. CASE j = n + 1
    <3>1. calls[i].frame \in Nat /\ calls[i].frame <= Floor
      BY <1>6, <2>1, BelowFloor
    <3>f. PICK f : f = calls[i].frame
      OBVIOUS
    <3>2. f <= Base(c)
      BY <1>2, <1>9, <3>1, <3>f
    <3>3. Base(calls'[j]) = Base(c)
      BY <1>5, <2>3 DEF Base
    <3> QED BY <2>1, <3>2, <3>3, <3>f
  <2> QED BY <1>1, <1>5, <2>2, <2>3
<1>16. Floor' <= stack'.sp
  BY <1>2, <1>11 DEF Floor
<1>17. Regs(1)' = NoSegments
  <2>1. 1 \in 1 .. n + 1
    BY <1>1
  <2> QED BY <1>1, <1>7, <2>1 DEF Stacked
<1>18. (\A i, j \in DOMAIN calls : i < j => calls[i].frame <= Base(calls[j]))'
  BY <1>15 DEF Base
<1> QED BY <1>5, <1>14, <1>16, <1>17, <1>18 DEF Stacked

LEMMA CallOrderly ==
  ASSUME FramesInv, Inv', disciplined, FCall
  PROVE  calls' \in Seq(Snapshots) /\ (disciplined' => Orderly')
<1>1. /\ Inv /\ TypeOK /\ calls \in Seq(Snapshots) /\ Orderly /\ Outermost
      /\ Call /\ status \notin WildStatuses
  BY DEF FramesInv, Orderly, FCall, Inv
<1>2. CASE stack' = stack /\ Stopped
  <2>1. calls' = calls /\ status' \notin {"run", "done"} \cup WildStatuses
    BY <1>2 DEF FCall, Stopped
  <2>2. EndsOutermost'
    BY <2>1 DEF EndsOutermost
  <2>3. Orderly'
    BY <1>2, <2>1, <2>2, StillOrderly DEF Stopped
  <2> QED BY <1>1, <2>1, <2>3
<1>3. ASSUME Called, NEW k \in Files, JumpTo(Func(Cur.ident), k)
      PROVE  calls' \in Seq(Snapshots) /\ (disciplined' => Orderly')
  <2>1. status' = "run" /\ disciplined' = (OwnArguments /\ FrameFitsWord /\ ReturnFitsWord)
    BY <1>3 DEF Called, FCall
  <2>2. CASE ~disciplined'
    BY <2>1, <2>2 DEF FCall
  <2>3. CASE disciplined'
    <3>1. OwnArguments /\ FrameFitsWord /\ ReturnFitsWord /\ calls' = Append(calls, Snapshot)
      BY <2>1, <2>3 DEF FCall
    <3>2. Stacked' /\ calls' \in Seq(Snapshots)
      BY <1>3, <3>1, CallStacked
    <3>3. /\ fi' = 0 => ei'[0] < Startup
          /\ fi = 0 /\ ei[0] = Startup + 1 => fi' # 0
      BY <1>1, <1>3, CallTarget
    <3>4. calls' # <<>>
      BY <1>1, <3>1, EmptySeq
    <3>5. /\ calls'[1].fi = 0 /\ calls'[1].ei = Startup + 1
          /\ calls'[1].frame = 9 /\ calls'[1].nargs = 1
      <4>1. CASE calls = <<>>
        <5>1. fi = 0 /\ ei[0] \in Startup .. Startup + 2
          BY <1>1, <4>1 DEF Outermost
        <5>2. ei[0] < 22 /\ Cur = SystemInsts[ei[0] + 1] /\ Cur.op = "CALL"
          BY <1>3, <5>1, InSystemFile, SystemCode DEF Called
        <5>3. ei[0] # Startup
          <6>1. SystemInsts[21].op = "PUSH"
            BY SystemCode DEF PushI, Plain
          <6> QED BY <5>2, <6>1 DEF Startup
        <5>4. ei[0] = 21
          BY <5>1, <5>2, <5>3 DEF Startup
        <5>5. Cur = CallI("Sys.init", 1)
          BY <5>2, <5>4, SystemCode
        <5>6. Cur.nargs = 1
          BY <5>5 DEF CallI, Plain
        <5>7. stack.sp = 1
          BY <1>1, <4>1, <5>4 DEF Outermost, Startup
        <5>8. calls'[1] = Snapshot
          BY <3>1, <4>1
        <5>9. Snapshot.frame = stack.sp + 8 /\ Snapshot.nargs = Cur.nargs
              /\ Snapshot.fi = fi /\ Snapshot.ei = ei[fi]
          BY DEF Snapshot
        <5> QED BY <5>1, <5>4, <5>6, <5>7, <5>8, <5>9 DEF Startup
      <4>2. CASE calls # <<>>
        <5>1. calls'[1] = calls[1]
          BY <1>1, <3>1, <4>2, NonEmpty
        <5> QED BY <1>1, <4>2, <5>1 DEF Outermost
      <4> QED BY <4>1, <4>2
    <3>6. fi' = 0 => ei'[0] < Startup
      BY <3>3
    <3>7. Outermost'
      BY <3>4, <3>5, <3>6 DEF Outermost
    <3>8. EndsOutermost' /\ status' \notin WildStatuses
      BY <2>1 DEF EndsOutermost, WildStatuses
    <3> QED BY <3>2, <3>7, <3>8 DEF Orderly
  <2> QED BY <2>2, <2>3
<1> QED BY <1>1, <1>2, <1>3, CallIs

-----------------------------------------------------------------------------
(* Returns. *)

\* Everything `exec_call` took, given back.
ReturnedTo(c) ==
  /\ status = "run" /\ status' = "run" /\ prog' = prog
  /\ fi' = c.fi /\ ei' = [ei EXCEPT ![c.fi] = c.ei + 1]
  /\ reg' = c.reg /\ ptr' = c.ptr
  /\ stack'.sp = Base(c) + 1
  /\ stack'.ops[Base(c)] = Top(stack)
  /\ \A a \in 0 .. c.frame - 1 : a # Base(c) => stack'.ops[a] = stack.ops[a]
  /\ c.frame <= stack'.len

\* The startup code does not return.
LEMMA ReturnHasFrame ==
  ASSUME FramesInv, disciplined, Ret
  PROVE  calls # <<>>
<1> SUFFICES ASSUME calls = <<>>
             PROVE  FALSE
  OBVIOUS
<1>1. fi = 0 /\ ei[0] \in Startup .. Startup + 2
  BY DEF FramesInv, Orderly, Outermost
<1>2. ei[0] < 22 /\ Cur = SystemInsts[ei[0] + 1] /\ Cur.op = "RET"
  BY <1>1, InSystemFile, SystemCode DEF Ret, Executing
<1>3. SystemInsts[21].op = "PUSH" /\ SystemInsts[22].op = "CALL"
  BY SystemCode DEF PushI, CallI, Plain
<1>4. ei[0] = 20 \/ ei[0] = 21
  BY <1>1, <1>2 DEF Startup
<1> QED BY <1>2, <1>3, <1>4

\* The frame on top, as `exec_ret` finds it.
LEMMA TopFrame ==
  ASSUME FramesInv, disciplined, status = "run", calls # <<>>,
         NEW n, n = Len(calls), NEW c, c = calls[n], NEW f, f = c.frame, NEW b, b = Base(c)
  PROVE  /\ n \in DOMAIN calls /\ n \in Nat
         /\ Frame = f /\ f \in Nat /\ f >= 8 /\ f <= stack.len
         /\ reg.arg = b /\ b \in Nat /\ b <= f - 8
         /\ f <= Floor /\ Floor \in Nat
         /\ c.fi \in Files /\ SavedIntact(c) /\ c.reg \in Segmented
         /\ c.ptr \in [this : Word, that : Word]
         /\ c.reg.lcl + c.reg.lcl_len <= b
<1>1. calls \in Seq(Snapshots) /\ Stacked /\ n \in DOMAIN calls /\ n \in Nat
  BY NonEmpty DEF FramesInv, Orderly
<1>2. n + 1 \notin DOMAIN calls
  BY <1>1
<1>3. /\ Pending(n) /\ SavedIntact(c) /\ Linked(n)
      /\ f \in Nat /\ f >= 8 /\ b \in Nat /\ b <= f - 8 /\ f <= Floor /\ Floor \in Nat
  BY <1>1, BelowFloor
<1>4. reg.lcl = f /\ reg.arg = b /\ c.reg.lcl + c.reg.lcl_len <= b
  BY <1>2, <1>3 DEF Linked, Regs
<1>5. f < WordMod /\ c.fi \in Files /\ f <= stack.len
  BY <1>3 DEF Pending, SavedIntact
<1>6. Frame = f
  <2>1. \A w \in 0 .. WordMod - 1 : w % WordMod = w
    BY WordModAssumption
  <2>2. f \in 0 .. WordMod - 1
    BY <1>3, <1>5, SmallWords
  <2> QED BY <1>4, <2>1, <2>2 DEF Frame
<1>7. c \in Snapshots
  BY <1>1
<1>8. c.reg \in Segmented /\ c.ptr \in [this : Word, that : Word]
  BY <1>7 DEF Snapshots
<1> QED BY <1>1, <1>3, <1>4, <1>5, <1>6, <1>8

LEMMA RetIs ==
  ASSUME FramesInv, disciplined, Ret
  PROVE  \/ stack' = stack /\ Stopped
         \/ ReturnedTo(calls[Len(calls)])
<1>a. PICK n : n = Len(calls)
  OBVIOUS
<1>b. PICK c : c = calls[n]
  OBVIOUS
<1>c. PICK f : f = c.frame
  OBVIOUS
<1>d. PICK b : b = Base(c)
  OBVIOUS
<1>1. Inv /\ status = "run"
  BY DEF FramesInv, Ret, Executing
<1>2. /\ Frame = f /\ f \in Nat /\ f >= 8 /\ f <= stack.len
      /\ reg.arg = b /\ b \in Nat /\ b <= f - 8
      /\ f <= Floor /\ Floor \in Nat
      /\ c.fi \in Files /\ SavedIntact(c) /\ c.reg \in Segmented
      /\ c.ptr \in [this : Word, that : Word]
  BY <1>1, <1>a, <1>b, <1>c, <1>d, ReturnHasFrame, TopFrame
<1>3. /\ IsStack(stack) /\ Backed(stack) /\ stack.sp \in Nat /\ stack.len \in Nat
      /\ DOMAIN stack.ops = 0 .. stack.len - 1
  BY <1>1, Running
<1>4. ReturnAddressReadable
  <2>1. f - 8 \in 0 .. stack.len - 1 /\ f - 7 \in 0 .. stack.len - 1
    BY <1>2, <1>3
  <2> QED BY <1>2, <1>3, <2>1 DEF ReturnAddressReadable
<1>5. CASE Underflow(stack)
  BY <1>5, UnderflowIs
<1>6. ASSUME Poppable(stack)
      PROVE  /\ IsStack(Pop(stack)) /\ Pop(stack).len \in Nat
             /\ f < Pop(stack).len
             /\ \A a \in 0 .. f : Pop(stack).ops[a] = stack.ops[a]
             /\ FrameReadable
  <2>1. stack.sp > Floor
    BY <1>6 DEF Poppable, CanPop
  <2>2. PICK T : T = Pop(stack)
    OBVIOUS
  <2>3. stack.sp > 0
    BY <1>2, <1>3, <2>1
  <2>4. /\ IsStack(T) /\ T.sp = stack.sp - 1 /\ T.sp < T.len
        /\ \A i \in 0 .. T.len - 1 : T.ops[i] = stack.ops[i]
    BY <1>3, <2>2, <2>3, PopFacts
  <2>5. T.len \in Nat /\ DOMAIN T.ops = 0 .. T.len - 1
    BY <2>4 DEF IsStack
  <2>6. f < T.len
    BY <1>2, <1>3, <2>1, <2>4, <2>5
  <2>7. \A a \in 0 .. f : T.ops[a] = stack.ops[a]
    BY <1>2, <2>4, <2>5, <2>6
  <2>8. f - 1 \in 0 .. T.len - 1 /\ b \in 0 .. T.len - 1
    BY <1>2, <2>5, <2>6
  <2>9. FrameReadable
    BY <1>2, <2>2, <2>5, <2>8 DEF FrameReadable
  <2> QED BY <2>2, <2>4, <2>5, <2>6, <2>7, <2>9
<1>7. stack.ops[f - 7] = c.fi /\ stack.ops[f - 8] = c.ei
  BY <1>2, <1>c DEF SavedIntact
<1>8. ASSUME Poppable(stack), stack' = ReturnedStack,
             reg' = RestoredReg(ReturnedStack.ops), ptr' = RestoredPtr(ReturnedStack.ops),
             fi' = c.fi, ei' = [ei EXCEPT ![c.fi] = Resume(c.ei)],
             UNCHANGED <<prog, heap, mem, status>>
      PROVE  ReturnedTo(c)
  <2>1. PICK T : T = Pop(stack)
    OBVIOUS
  <2>2. PICK v : v = Top(stack)
    OBVIOUS
  <2>3. /\ IsStack(T) /\ T.len \in Nat /\ f < T.len
        /\ \A a \in 0 .. f : T.ops[a] = stack.ops[a]
    BY <1>6, <1>8, <2>1
  <2>4. stack' = [[T EXCEPT !.ops[b] = v] EXCEPT !.sp = b + 1]
    BY <1>2, <1>8, <2>1, <2>2 DEF ReturnedStack, Poke
  <2>5. /\ stack'.sp = b + 1 /\ stack'.len = T.len
        /\ stack'.ops = [T.ops EXCEPT ![b] = v] /\ T.ops \in [0 .. T.len - 1 -> Word]
    BY <2>3, <2>4 DEF IsStack
  <2>6. b \in 0 .. T.len - 1
    BY <1>2, <2>3
  <2>7. stack'.ops[b] = v
    BY <2>5, <2>6
  <2>8. \A a \in 0 .. f - 1 : a # b => stack'.ops[a] = stack.ops[a]
    <3>1. \A a \in 0 .. f - 1 : a \in 0 .. f /\ a \in 0 .. T.len - 1
      BY <1>2, <2>3
    <3> QED BY <2>3, <2>5, <3>1
  <2>9. /\ stack'.ops[f - 6] = c.reg.lcl /\ stack'.ops[f - 5] = c.reg.lcl_len
        /\ stack'.ops[f - 4] = c.reg.arg /\ stack'.ops[f - 3] = c.reg.arg_len
        /\ stack'.ops[f - 2] = c.ptr.this /\ stack'.ops[f - 1] = c.ptr.that
    <3>1. \A k \in 1 .. 6 : f - k \in 0 .. f - 1 /\ f - k # b
      BY <1>2
    <3>2. \A k \in 1 .. 6 : stack'.ops[f - k] = stack.ops[f - k]
      BY <2>8, <3>1
    <3> QED BY <1>2, <1>c, <3>2 DEF SavedIntact
  <2>10. reg' = c.reg
    <3>1. reg' = [arg_len |-> c.reg.arg_len, arg |-> c.reg.arg,
                  lcl_len |-> c.reg.lcl_len, lcl |-> c.reg.lcl]
      BY <1>2, <1>8, <2>9 DEF RestoredReg
    <3> QED BY <1>2, <3>1 DEF Segmented
  <2>11. ptr' = c.ptr
    <3>1. ptr' = [that |-> c.ptr.that, this |-> c.ptr.this]
      BY <1>2, <1>8, <2>9 DEF RestoredPtr
    <3> QED BY <1>2, <3>1
  <2>12. f <= stack'.len
    BY <1>2, <2>3, <2>5
  <2> QED BY <1>1, <1>8, <1>c, <1>d, <2>2, <2>5, <2>7, <2>8, <2>10, <2>11, <2>12
          DEF ReturnedTo, Resume
<1>9. ReturnedTo(c) => ReturnedTo(calls[Len(calls)])
  BY <1>a, <1>b
<1>10. CASE ~Underflow(stack)
  <2>1. /\ Poppable(stack) /\ FrameReadable
        /\ \/ stack.ops[Frame - 7] \notin Files /\ Stop("oob_files", ReturnedStack)
           \/ /\ stack' = ReturnedStack
              /\ reg' = RestoredReg(ReturnedStack.ops)
              /\ ptr' = RestoredPtr(ReturnedStack.ops)
              /\ fi' = stack.ops[Frame - 7]
              /\ ei' = [ei EXCEPT ![stack.ops[Frame - 7]] = Resume(stack.ops[Frame - 8])]
              /\ UNCHANGED <<prog, heap, mem, status>>
    BY <1>4, <1>6, <1>10 DEF Ret
  <2>2. stack.ops[Frame - 7] = c.fi /\ stack.ops[Frame - 8] = c.ei
    BY <1>2, <1>7
  <2>3. ReturnedTo(c)
    BY <1>2, <1>8, <2>1, <2>2
  <2> QED BY <1>9, <2>3
<1> QED BY <1>5, <1>10

LEMMA RetStacked ==
  ASSUME FramesInv, Inv', disciplined, calls # <<>>, ReturnedTo(calls[Len(calls)]),
         calls' = SubSeq(calls, 1, Len(calls) - 1)
  PROVE  /\ calls' \in Seq(Snapshots) /\ Len(calls') = Len(calls) - 1
         /\ \A i \in 1 .. Len(calls) - 1 : calls'[i] = calls[i]
         /\ Stacked'
<1>a. PICK n : n = Len(calls)
  OBVIOUS
<1>b. PICK c : c = calls[n]
  OBVIOUS
<1>c. PICK f : f = c.frame
  OBVIOUS
<1>d. PICK b : b = Base(c)
  OBVIOUS
<1>1. /\ Inv /\ calls \in Seq(Snapshots) /\ Stacked /\ status = "run"
      /\ n \in Nat /\ n >= 1 /\ DOMAIN calls = 1 .. n
  BY <1>a, NonEmpty DEF FramesInv, Orderly, ReturnedTo
<1>2. /\ f \in Nat /\ b \in Nat /\ b <= f - 8 /\ c.reg \in Segmented
      /\ c.reg.lcl + c.reg.lcl_len <= b
  BY <1>1, <1>a, <1>b, <1>c, <1>d, TopFrame
<1>3. /\ prog' = prog /\ reg' = c.reg /\ stack'.sp = b + 1
      /\ \A a \in 0 .. f - 1 : a # b => stack'.ops[a] = stack.ops[a]
      /\ f <= stack'.len
  BY <1>a, <1>b, <1>c, <1>d DEF ReturnedTo
<1>4. /\ calls' \in Seq(Snapshots) /\ Len(calls') = n - 1
      /\ \A i \in 1 .. n - 1 : calls'[i] = calls[i]
  <2>1. \A i \in 1 .. n - 1 : calls[i] \in Snapshots
    BY <1>1
  <2>2. calls' = SubSeq(calls, 1, n - 1) /\ 1 \in Int /\ n - 1 \in Int
    BY <1>1, <1>a
  <2>3. /\ SubSeq(calls, 1, n - 1) \in Seq(Snapshots)
        /\ Len(SubSeq(calls, 1, n - 1)) = IF 1 <= n - 1 THEN (n - 1) - 1 + 1 ELSE 0
        /\ \A i \in 1 .. (n - 1) - 1 + 1 : SubSeq(calls, 1, n - 1)[i] = calls[1 + i - 1]
    BY <2>1, <2>2, SubSeqProperties
  <2>4. \A i \in 1 .. n - 1 : i \in 1 .. (n - 1) - 1 + 1 /\ 1 + i - 1 = i
    BY <1>1
  <2>5. (IF 1 <= n - 1 THEN (n - 1) - 1 + 1 ELSE 0) = n - 1
    BY <1>1
  <2> QED BY <2>2, <2>3, <2>4, <2>5
<1>5. DOMAIN calls' = 1 .. n - 1
  BY <1>1, <1>4
<1>6. \A i \in 1 .. n : Regs(i)' = Regs(i)
  <2>1. \A i \in 1 .. n - 1 : Regs(i)' = Regs(i)
    BY <1>1, <1>4, <1>5 DEF Regs
  <2>2. Regs(n)' = Regs(n)
    BY <1>1, <1>3, <1>5, <1>b DEF Regs
  <2> QED BY <1>1, <2>1, <2>2
<1>7. Files' = Files
  BY <1>3 DEF Files
<1>8. ASSUME NEW i \in 1 .. n - 1
      PROVE  Pending(i)'
  <2>d. PICK d : d = calls[i]
    OBVIOUS
  <2>e. PICK g : g = d.frame
    OBVIOUS
  <2>1. i \in DOMAIN calls /\ n \in DOMAIN calls /\ i < n /\ i \in Nat
    BY <1>1
  <2>2. /\ Pending(i) /\ SavedIntact(d) /\ Linked(i)
        /\ g \in Nat /\ g >= 8 /\ Base(d) \in Nat /\ Base(d) <= g - 8
    BY <2>1, <2>d, <2>e, BelowFloor
  <2>3. g <= b
    BY <1>1, <1>b, <1>d, <2>1, <2>d, <2>e DEF Stacked
  <2>4. calls'[i] = d /\ Base(calls'[i]) = Base(d)
    BY <1>4, <2>d DEF Base
  <2>5. \A a \in 0 .. g - 1 : stack'.ops[a] = stack.ops[a]
    <3>1. \A a \in 0 .. g - 1 : a \in 0 .. f - 1 /\ a # b
      BY <1>2, <2>2, <2>3
    <3> QED BY <1>3, <3>1
  <2>6. SavedIntact(calls[i])'
    <3>1. \A k \in 1 .. 8 : g - k \in 0 .. g - 1
      BY <2>2
    <3>2. \A k \in 1 .. 8 : stack'.ops[g - k] = stack.ops[g - k]
      BY <2>5, <3>1
    <3>3. g <= stack'.len
      <4>1. stack'.len \in Nat
        BY DEF Inv, TypeOK, IsStack
      <4> QED BY <1>2, <1>3, <2>2, <2>3, <4>1
    <3> QED BY <2>2, <2>4, <2>e, <3>2, <3>3, SavedStays DEF SavedIntact
  <2>7. \A a \in 0 .. Base(d) - 1 : stack'.ops[a] = d.ops[a]
    <3>1. \A a \in 0 .. Base(d) - 1 : a \in 0 .. g - 1
      BY <2>2
    <3> QED BY <2>2, <2>5, <2>d, <3>1 DEF Pending
  <2>8. Linked(i)'
    <3>1. i + 1 \in 1 .. n
      BY <1>1
    <3> QED BY <1>6, <2>2, <2>4, <2>d, <3>1 DEF Linked
  <2> QED BY <1>7, <2>2, <2>4, <2>6, <2>7, <2>8, <2>d DEF Pending
<1>9. \A i \in DOMAIN calls' : Pending(i)'
  BY <1>5, <1>8
<1>10. (\A i, j \in DOMAIN calls : i < j => calls[i].frame <= Base(calls[j]))'
  <2>1. \A i \in 1 .. n - 1 : i \in DOMAIN calls /\ Base(calls'[i]) = Base(calls[i])
    BY <1>1, <1>4 DEF Base
  <2> QED BY <1>1, <1>4, <1>5, <2>1 DEF Stacked
<1>11. Floor' <= stack'.sp
  <2>1. Floor' = c.reg.lcl + c.reg.lcl_len
    BY <1>3 DEF Floor
  <2>2. c.reg.lcl \in Nat /\ c.reg.lcl_len \in Nat
    BY <1>2 DEF Segmented
  <2> QED BY <1>2, <1>3, <2>1, <2>2
<1>12. Regs(1)' = NoSegments
  BY <1>1, <1>6 DEF Stacked
<1> QED BY <1>4, <1>9, <1>10, <1>11, <1>12, <1>a DEF Stacked

LEMMA RetOrderly ==
  ASSUME FramesInv, Inv', disciplined, FRet
  PROVE  calls' \in Seq(Snapshots) /\ Orderly'
<1>1. /\ Inv /\ calls \in Seq(Snapshots) /\ Orderly /\ Outermost /\ Ret /\ calls # <<>>
  BY ReturnHasFrame DEF FramesInv, Orderly, FRet
<1>2. CASE stack' = stack /\ Stopped
  <2>1. calls' = calls /\ status' \notin {"run", "done"} \cup WildStatuses
    BY <1>2 DEF FRet, Stopped
  <2>2. EndsOutermost'
    BY <2>1 DEF EndsOutermost
  <2>3. Orderly'
    BY <1>2, <2>1, <2>2, StillOrderly DEF Stopped
  <2> QED BY <1>1, <2>1, <2>3
<1>3. CASE ReturnedTo(calls[Len(calls)])
  <2>a. PICK n : n = Len(calls)
    OBVIOUS
  <2>b. PICK c : c = calls[n]
    OBVIOUS
  <2>1. status' = "run" /\ calls' = SubSeq(calls, 1, Len(calls) - 1)
    BY <1>1, <1>3 DEF ReturnedTo, FRet
  <2>2. /\ calls' \in Seq(Snapshots) /\ Len(calls') = n - 1
        /\ \A i \in 1 .. n - 1 : calls'[i] = calls[i]
        /\ Stacked' /\ n \in DOMAIN calls /\ n \in Nat /\ n >= 1
    BY <1>1, <1>3, <2>1, <2>a, RetStacked, NonEmpty
  <2>3. /\ fi' = c.fi /\ ei' = [ei EXCEPT ![c.fi] = c.ei + 1]
        /\ stack'.sp = Base(c) + 1
    BY <1>3, <2>a, <2>b DEF ReturnedTo
  <2>4. Outermost'
    <3>1. CASE n = 1
      <4>1. calls' = <<>>
        BY <2>2, <3>1, EmptySeq
      <4>2. c.fi = 0 /\ c.ei = Startup + 1 /\ c.frame = 9 /\ c.nargs = 1
        BY <1>1, <2>b, <3>1 DEF Outermost
      <4>3. stack'.sp = 1
        BY <2>3, <4>2 DEF Base
      <4>4. 0 \in DOMAIN ei
        BY <1>1 DEF Inv, TypeOK, Files, IsProgram
      <4>5. fi' = 0 /\ ei'[0] = Startup + 2
        BY <2>3, <4>2, <4>4 DEF Startup
      <4> QED BY <4>1, <4>3, <4>5 DEF Outermost, Startup
    <3>2. CASE n > 1
      <4>1. c.fi # 0
        BY <2>2, <2>b, <3>2, BelowFloor DEF Pending
      <4>2. calls' # <<>> /\ calls'[1] = calls[1]
        BY <2>2, <3>2, EmptySeq
      <4> QED BY <1>1, <2>3, <4>1, <4>2 DEF Outermost
    <3> QED BY <2>2, <3>1, <3>2
  <2>5. EndsOutermost' /\ status' \notin WildStatuses
    BY <2>1 DEF EndsOutermost, WildStatuses
  <2> QED BY <2>2, <2>4, <2>5 DEF Orderly
<1> QED BY <1>1, <1>2, <1>3, RetIs

-----------------------------------------------------------------------------
(* The theorems. *)

LEMMA InitFrames == ASSUME FInit PROVE FramesInv
<1>1. /\ Inv /\ calls = <<>> /\ disciplined = TRUE
      /\ fi = 0 /\ ei[0] = Startup /\ stack.sp = 0 /\ status = "run"
      /\ reg = NoSegments
  <2>1. 0 \in Files
    <3>1. IsProgram(prog)
      BY ProgramsAssumption DEF FInit, Init
    <3> QED BY <3>1 DEF Files, IsProgram
  <2>2. ei[0] = Startup
    BY <2>1 DEF FInit, Init
  <2> QED BY <2>2, InitInv DEF FInit, Init, NewStack, NoSegments
<1>2. DOMAIN calls = {}
  BY <1>1
<1>3. Stacked
  BY <1>1, <1>2 DEF Stacked, Regs, Floor, NoSegments
<1>4. Outermost /\ EndsOutermost
  BY <1>1 DEF Outermost, EndsOutermost, Startup
<1> QED BY <1>1, <1>3, <1>4 DEF FramesInv, Orderly, WildStatuses

LEMMA StepFrames == ASSUME FramesInv, [FNext]_fvars PROVE FramesInv'
<1>1. CASE UNCHANGED fvars
  <2>1. FramesInv' = FramesInv
    BY <1>1 DEF fvars, vars, FramesInv, Inv, TypeOK, StackBacked, Orderly, Stacked, Outermost,
       EndsOutermost, Pending, SavedIntact, Linked, Regs, Base, Floor, Files, Snapshots
  <2> QED BY <2>1
<1>2. CASE FNext
  <2>1. Inv' /\ Next
    <3>1. Next
      BY <1>2 DEF FNext, FLocal, FCall, FRet, Next
    <3> QED BY <3>1, NextInv DEF FramesInv
  <2>2. disciplined \in BOOLEAN /\ calls \in Seq(Snapshots)
    BY DEF FramesInv
  <2>3. CASE FLocal
    <3>1. calls' = calls /\ disciplined' = disciplined
      BY <2>3 DEF FLocal
    <3>2. disciplined' => Orderly'
      BY <2>1, <2>3, <3>1, LocalOrderly
    <3> QED BY <2>1, <2>2, <3>1, <3>2 DEF FramesInv
  <2>4. CASE FCall
    <3>1. disciplined' \in BOOLEAN /\ (disciplined' => disciplined)
      BY <2>2, <2>4 DEF FCall
    <3>2. CASE disciplined
      <4>1. calls' \in Seq(Snapshots) /\ (disciplined' => Orderly')
        BY <2>1, <2>4, <3>2, CallOrderly
      <4> QED BY <2>1, <3>1, <4>1 DEF FramesInv
    <3>3. CASE ~disciplined
      <4>1. calls' \in Seq(Snapshots)
        <5>1. calls' = calls \/ calls' = <<>>
          <6>1. ~disciplined'
            BY <3>1, <3>3
          <6> QED BY <2>4, <6>1, Zenon DEF FCall
        <5> QED BY <2>2, <5>1, EmptySeq
      <4> QED BY <2>1, <3>1, <3>3, <4>1 DEF FramesInv
    <3> QED BY <3>2, <3>3
  <2>5. CASE FRet
    <3>1. disciplined' = disciplined
      BY <2>5 DEF FRet
    <3>2. CASE disciplined
      <4>1. calls' \in Seq(Snapshots) /\ Orderly'
        BY <2>1, <2>5, <3>2, RetOrderly
      <4> QED BY <2>1, <2>2, <3>1, <4>1 DEF FramesInv
    <3>3. CASE ~disciplined
      <4>1. calls' \in Seq(Snapshots)
        <5>1. CASE calls' = calls
          BY <2>2, <5>1
        <5>2. CASE calls # <<>> /\ calls' = SubSeq(calls, 1, Len(calls) - 1)
          <6>1. \A i \in 1 .. Len(calls) - 1 : calls[i] \in Snapshots
            BY <2>2
          <6> QED BY <2>2, <5>2, <6>1, SubSeqProperties
        <5> QED BY <2>5, <5>1, <5>2 DEF FRet
      <4> QED BY <2>1, <2>2, <3>1, <3>3, <4>1 DEF FramesInv
    <3> QED BY <3>2, <3>3
  <2> QED BY <1>2, <2>3, <2>4, <2>5 DEF FNext
<1> QED BY <1>1, <1>2

LEMMA FramesAlways == FSpec => []FramesInv
<1>1. FInit => FramesInv
  BY InitFrames
<1>2. FramesInv /\ [FNext]_fvars => FramesInv'
  BY StepFrames
<1> QED BY <1>1, <1>2, PTL DEF FSpec

\* While calls are disciplined (`OwnArguments`, and frame and return address fit
\* a Word), no instruction between a call and its return overwrites the saved
\* words, which are the caller's untruncated (exec.c:547), frames do not overlap,
\* and the stack never shrinks into the running activation's locals.
THEOREM FramesStayIntact == FSpec => []FramesIntact
<1>1. FramesInv => FramesIntact
  BY DEF FramesInv, Orderly, Stacked, Pending, FramesIntact
<1> QED BY <1>1, FramesAlways, PTL

\* A callee, and all it calls, leaves its callers' cells alone while calls are
\* disciplined.
THEOREM CallersUntouched == FSpec => []CallerUntouched
<1>1. FramesInv => CallerUntouched
  BY DEF FramesInv, Orderly, Stacked, Pending, CallerUntouched
<1> QED BY <1>1, FramesAlways, PTL

\* Only the startup code runs without a frame to return through.
THEOREM StartupIsBelow == FSpec => []StartupBelow
<1>1. FramesInv => StartupBelow
  <2> SUFFICES ASSUME FramesInv, disciplined, Outermost
               PROVE  StartupBelow
    BY DEF FramesInv, Orderly, StartupBelow
  <2>1. CASE calls = <<>>
    BY <2>1 DEF Outermost, StartupBelow, Startup
  <2>2. CASE calls # <<>>
    BY <2>2 DEF Outermost, StartupBelow
  <2> QED BY <2>1, <2>2
<1> QED BY <1>1, FramesAlways, PTL

\* `return` stays inside the stack and inside the program while calls are
\* disciplined.
THEOREM ReturnsStayInside == FSpec => []NoWildReturn
<1>1. FramesInv => NoWildReturn
  BY DEF FramesInv, Orderly, NoWildReturn, WildStatuses
<1> QED BY <1>1, FramesAlways, PTL

\* An execution that ends in the system file leaves exactly the value of
\* `Sys.init`.
THEOREM HaltIsBalanced == FSpec => []BalancedHalt
<1>1. FramesInv => BalancedHalt
  BY DEF FramesInv, Orderly, EndsOutermost, Outermost, BalancedHalt, Startup
<1> QED BY <1>1, FramesAlways, PTL

\* While calls are disciplined, `return` gives the caller back all that `call`
\* took.  The last of the conditions is needed for its next instruction: a return
\* index of 2^16 or more is cut by `Addr ret_ei` (exec.c:547).
THEOREM ReturnGivesBack == FSpec => ReturnRestoresCaller
<1>1. FramesInv /\ [FNext]_fvars => [ReturnRestores]_fvars
  <2> SUFFICES ASSUME FramesInv, Ret, status' = "run", disciplined
               PROVE  ReturnRestores
    BY DEF ReturnRestores
  <2>1. calls # <<>>
    BY ReturnHasFrame
  <2>2. PICK c : c = calls[Len(calls)]
    OBVIOUS
  <2>3. ReturnedTo(c)
    BY <2>2, RetIs DEF Stopped
  <2>4. Len(calls) \in DOMAIN calls /\ Inv
    BY <2>1, NonEmpty DEF FramesInv
  <2>5. /\ Pending(Len(calls)) /\ c.fi \in Files /\ c.frame \in Nat
        /\ Base(c) \in Nat /\ Base(c) <= c.frame - 8
    BY <2>2, <2>4, BelowFloor DEF Pending
  <2>6. ei'[c.fi] = c.ei + 1
    BY <2>3, <2>4, <2>5 DEF ReturnedTo, Inv, TypeOK
  <2>7. \A a \in 0 .. Base(c) - 1 : stack'.ops[a] = c.ops[a]
    <3>1. \A a \in 0 .. Base(c) - 1 : a \in 0 .. c.frame - 1 /\ a # Base(c)
      <4>1. PICK f, b : f = c.frame /\ b = Base(c)
        OBVIOUS
      <4>2. \A a \in 0 .. b - 1 : a \in 0 .. f - 1 /\ a # b
        BY <2>5, <4>1
      <4> QED BY <4>1, <4>2
    <3>2. \A a \in 0 .. Base(c) - 1 : stack.ops[a] = c.ops[a]
      BY <2>2, <2>5 DEF Pending
    <3> QED BY <2>3, <3>1, <3>2 DEF ReturnedTo
  <2> QED BY <2>1, <2>2, <2>3, <2>6, <2>7 DEF ReturnRestores, ReturnedTo
<1> QED BY <1>1, FramesAlways, PTL DEF FSpec, ReturnRestoresCaller

-----------------------------------------------------------------------------
(* Steps that are refused.                                                 *)

\* The stacks a step may leave that ends the run with a refusal.
Refused ==
  \/ stack' = stack
  \/ /\ Poppable(stack) /\ stack' = PutBack(Pop(stack))
     /\ status' \notin ArithmeticRefusals
  \/ PoppableTwice /\ stack' = Unpop(Pop(Pop(stack))) /\ status' \in ArithmeticRefusals

LEMMA NoRefusal ==
  {"run", "done", "oob_heap", "oob_stack", "oob_files", "stack_underflow",
   "heap_addr_overflow", "read_io", "skip_line", "skip_eof", "read_num_char",
   "read_num_overflow"} \cap Refusals = {}
  BY DEF Refusals, ArithmeticRefusals

LEMMA UnderflowIsNoRefusal ==
  ASSUME NEW S, Underflow(S)
  PROVE  status' \notin Refusals
  BY NoRefusal DEF Underflow, Stop

LEMMA JumpRefused ==
  ASSUME NEW key, NEW S, JumpError(key, S)
  PROVE  stack' = S /\ status' \notin ArithmeticRefusals
  BY DEF JumpError, Stop, ArithmeticRefusals

\* The bounds of a memory access are checked before anything is popped.
LEMMA MemoryRefused ==
  ASSUME status = "run", MemoryAccess, status' \in Refusals
  PROVE  stack' = stack
<1>1. \A S : Advance(S) => status' \notin Refusals
  BY NoRefusal DEF Advance
<1>2. CASE PushFrame
  BY <1>1, <1>2 DEF PushFrame, SegmentError, Stop
<1>3. CASE PopFrame
  BY <1>1, <1>3, UnderflowIsNoRefusal DEF PopFrame, SegmentError, Stop
<1>4. CASE PushFileSeg
  BY <1>1, <1>4 DEF PushFileSeg, FileSegError, Stop
<1>5. CASE PopFileSeg
  BY <1>1, <1>5, UnderflowIsNoRefusal DEF PopFileSeg, FileSegError, Stop
<1>6. CASE PushConst
  BY <1>1, <1>6 DEF PushConst
<1>7. CASE PushHeap
  BY <1>1, <1>7, NoRefusal DEF PushHeap, HeapError, Stop
<1>8. CASE PopHeap
  BY <1>1, <1>8, NoRefusal, UnderflowIsNoRefusal DEF PopHeap, HeapError, Stop
<1>9. CASE PushPointer
  BY <1>1, <1>9 DEF PushPointer, PointerError, Stop
<1>10. CASE PopPointer
  BY <1>1, <1>10, UnderflowIsNoRefusal DEF PopPointer, PointerError, Stop
<1> QED BY <1>2, <1>3, <1>4, <1>5, <1>6, <1>7, <1>8, <1>9, <1>10 DEF MemoryAccess

\* Where operands were popped first they are put back.
LEMMA OperatorRefused ==
  ASSUME status = "run", Unary \/ Binary, status' \in Refusals
  PROVE  Refused
<1>1. \A S : Advance(S) => status' \notin Refusals
  BY NoRefusal DEF Advance
<1>2. CASE Unary
  BY <1>1, <1>2, UnderflowIsNoRefusal DEF Unary
<1>3. CASE Binary
  <2>1. PICK op \in BinaryOps :
          \/ UnderflowOfTwo
          \/ /\ PoppableTwice
             /\ \/ \E val : Advance(Push(Pop(Pop(stack)), val))
                \/ Stop(ArithmeticError(op), Unpop(Pop(Pop(stack))))
    BY <1>3 DEF Binary
  <2>2. ~UnderflowOfTwo
    BY UnderflowIsNoRefusal DEF UnderflowOfTwo
  <2>3. PoppableTwice /\ Stop(ArithmeticError(op), Unpop(Pop(Pop(stack))))
    BY <1>1, <2>1, <2>2
  <2> QED BY <2>3 DEF Stop, ArithmeticError, ArithmeticRefusals, Refused
<1> QED BY <1>2, <1>3

LEMMA JumpsRefused ==
  ASSUME status = "run", Goto \/ IfGoto \/ Call, status' \in Refusals
  PROVE  Refused
<1>1. \A S : Advance(S) => status' \notin Refusals
  BY NoRefusal DEF Advance
<1>2. \A key, k : JumpTo(key, k) => status' \notin Refusals
  BY NoRefusal DEF JumpTo
<1>3. CASE Goto
  BY <1>2, <1>3, JumpRefused DEF Goto, Refused
<1>4. CASE IfGoto
  BY <1>1, <1>2, <1>4, JumpRefused, UnderflowIsNoRefusal DEF IfGoto, Refused
<1>5. CASE Call
  <2>1. CASE Stop("nargs", stack)
    BY <2>1 DEF Stop, Refused
  <2>2. CASE JumpError(Func(Cur.ident), stack)
    BY <2>2, JumpRefused DEF Refused
  <2> QED BY <1>2, <1>5, <2>1, <2>2 DEF Call
<1> QED BY <1>3, <1>4, <1>5

\* `return`, the builtins and the loop refuse nothing.
LEMMA OthersRefuseNothing ==
  ASSUME status = "run", Ret \/ Builtin \/ Skip \/ Halt
  PROVE  status' \notin Refusals
<1>1. \A S : Advance(S) => status' \notin Refusals
  BY NoRefusal DEF Advance
<1>2. UnderflowOfTwo => status' \notin Refusals
  BY UnderflowIsNoRefusal DEF UnderflowOfTwo
<1>3. CASE Ret
  BY <1>3, NoRefusal, UnderflowIsNoRefusal DEF Ret, Stop
<1>4. CASE Builtin
  <2>1. CASE Discard
    BY <1>1, <2>1, UnderflowIsNoRefusal DEF Discard
  <2>2. CASE PrintStr
    BY <1>1, <1>2, <2>2, NoRefusal DEF PrintStr, Stop
  <2>3. CASE ReadChar
    BY <1>1, <2>3 DEF ReadChar, TakeChar
  <2>4. CASE ReadNum
    BY <1>1, <2>4, NoRefusal DEF ReadNum, TakeNum, Stop
  <2>5. CASE ReadStr
    BY <1>1, <2>5, NoRefusal, UnderflowIsNoRefusal DEF ReadStr, TakeLine, Stop
  <2> QED BY <1>4, <2>1, <2>2, <2>3, <2>4, <2>5 DEF Builtin
<1>5. CASE Skip
  BY <1>5, NoRefusal DEF Skip, SkipLine, SkipEof, Stop
<1>6. CASE Halt
  BY <1>6, NoRefusal DEF Halt, Stop
<1> QED BY <1>3, <1>4, <1>5, <1>6

\* What is put back is what was popped, though the block it lay in may be gone.
LEMMA PutBackKeeps ==
  ASSUME Inv, status = "run", Poppable(stack), NEW T, T = PutBack(Pop(stack))
  PROVE  /\ T.sp = stack.sp /\ T.sp <= T.len
         /\ \A a \in DOMAIN T.ops : T.ops[a] = stack.ops[a]
<1>1. PICK S : S = Pop(stack)
  OBVIOUS
<1>2. /\ IsStack(stack) /\ Backed(stack) /\ stack.sp \in Nat /\ stack.sp > 0
      /\ Floor \in Nat
  BY Running DEF Poppable, CanPop
<1>3. /\ IsStack(S) /\ S.sp = stack.sp - 1 /\ S.sp < S.len
      /\ \A i \in 0 .. S.len - 1 : S.ops[i] = stack.ops[i]
  BY <1>1, <1>2, PopFacts
<1>4. T = [ops |-> S.ops, sp |-> S.sp + 1, len |-> S.len]
  BY <1>1, <1>3 DEF PutBack, IsStack
<1>5. T.ops = S.ops /\ T.sp = S.sp + 1 /\ T.len = S.len
  BY <1>4
<1>6. S.len \in Nat /\ S.sp \in Nat /\ DOMAIN S.ops = 0 .. S.len - 1
  BY <1>3 DEF IsStack
<1> QED BY <1>2, <1>3, <1>5, <1>6

LEMMA UnpopKeeps ==
  ASSUME Inv, status = "run", PoppableTwice, NEW T, T = Unpop(Pop(Pop(stack)))
  PROVE  /\ T.sp = stack.sp
         /\ \A a \in DOMAIN T.ops : T.ops[a] = stack.ops[a]
<1>1. PICK S : S = Pop(stack)
  OBVIOUS
<1>2. PICK R : R = Pop(S)
  OBVIOUS
<1>3. /\ IsStack(stack) /\ Backed(stack) /\ stack.sp \in Nat /\ stack.sp > 0
      /\ Poppable(S) /\ Floor \in Nat
  BY <1>1, Running DEF PoppableTwice, Poppable, CanPop
<1>4. /\ IsStack(S) /\ Backed(S) /\ S.sp = stack.sp - 1
      /\ \A i \in 0 .. S.len - 1 : S.ops[i] = stack.ops[i]
  BY <1>1, <1>3, PopFacts
<1>5. S.sp > 0 /\ S.sp \in Nat /\ S.len \in Nat
  BY <1>3, <1>4 DEF Poppable, CanPop, IsStack
<1>6. /\ IsStack(R) /\ R.sp = S.sp - 1 /\ R.len <= S.len
      /\ \A i \in 0 .. R.len - 1 : R.ops[i] = S.ops[i]
  BY <1>2, <1>4, <1>5, PopFacts
<1>7. T = [ops |-> R.ops, sp |-> R.sp + 2, len |-> R.len]
  BY <1>1, <1>2, <1>6 DEF Unpop, IsStack
<1>8. T.ops = R.ops /\ T.sp = R.sp + 2
  BY <1>7
<1>9. R.len \in Nat /\ DOMAIN R.ops = 0 .. R.len - 1
  BY <1>6 DEF IsStack
<1>10. \A i \in 0 .. R.len - 1 : i \in 0 .. S.len - 1
  BY <1>5, <1>6, <1>9
<1> QED BY <1>3, <1>4, <1>5, <1>6, <1>8, <1>9, <1>10

\* A step that is refused leaves the stack it found, whatever it has popped by
\* then, and every cell of it that is still allocated.
THEOREM RefusalsKeepTheStack == FSpec => FailedStepKeepsStack
<1>1. ASSUME Inv, [FNext]_fvars, status = "run", status' \in Refusals
      PROVE  Refused
  <2>1. status' # status
    BY <1>1, NoRefusal
  <2>2. Local \/ Call \/ Ret
    BY <1>1, <2>1 DEF FNext, FLocal, FCall, FRet, fvars, vars
  <2>3. \/ MemoryAccess \/ Unary \/ Binary \/ Goto \/ IfGoto \/ Call
    BY <1>1, <2>2, OthersRefuseNothing DEF Local
  <2> QED BY <1>1, <2>3, MemoryRefused, OperatorRefused, JumpsRefused DEF Refused
<1>2. Inv /\ [FNext]_fvars => [RefusalKeepsStack]_fvars
  <2> SUFFICES ASSUME Inv, [FNext]_fvars, status = "run", status' \in Refusals
               PROVE  RefusalKeepsStack
    BY DEF RefusalKeepsStack
  <2>1. Refused
    BY <1>1
  <2>2. CASE stack' = stack
    BY <2>2, Running DEF RefusalKeepsStack
  <2>3. CASE /\ Poppable(stack) /\ stack' = PutBack(Pop(stack))
             /\ status' \notin ArithmeticRefusals
    BY <2>3, PutBackKeeps DEF RefusalKeepsStack
  <2>4. CASE /\ PoppableTwice /\ stack' = Unpop(Pop(Pop(stack)))
             /\ status' \in ArithmeticRefusals
    BY <2>4, UnpopKeeps DEF RefusalKeepsStack
  <2> QED BY <2>1, <2>2, <2>3, <2>4 DEF Refused
<1>3. FramesInv => Inv
  BY DEF FramesInv
<1> QED BY <1>2, <1>3, FramesAlways, PTL DEF FSpec, FailedStepKeepsStack

-----------------------------------------------------------------------------
(* The pointers.                                                           *)

\* A step that leaves both pointers alone and fails no assertion.
Steady == ptr' = ptr /\ status' # "abort"

\* What `pop pointer` does to the pointers.
PointerPopped ==
  /\ Executing("POP") /\ Cur.seg = "PTR" /\ Cur.offset <= 1 /\ Poppable(stack)
  /\ ptr' = [ptr EXCEPT ![Pointer] = Top(stack)]
  /\ status' = status

LEMMA MemoryPointers ==
  ASSUME status = "run", MemoryAccess
  PROVE  \/ Steady
         \/ ptr[Pointer] > HeapSize
         \/ PointerPopped
<1>1. \A S : Advance(S) /\ ptr' = ptr => Steady
  BY DEF Advance, Steady
<1>2. \A S, how : Stop(how, S) /\ how # "abort" => Steady
  BY DEF Stop, Steady
<1>3. \A S : Underflow(S) => Steady
  BY <1>2 DEF Underflow
<1>4. KeepMemory => ptr' = ptr
  BY DEF KeepMemory
<1>5. CASE PushFrame
  BY <1>1, <1>2, <1>4, <1>5 DEF PushFrame, SegmentError
<1>6. CASE PopFrame
  BY <1>1, <1>2, <1>3, <1>4, <1>6 DEF PopFrame, SegmentError
<1>7. CASE PushFileSeg
  BY <1>1, <1>2, <1>4, <1>7 DEF PushFileSeg, FileSegError
<1>8. CASE PopFileSeg
  BY <1>1, <1>2, <1>3, <1>8 DEF PopFileSeg, FileSegError
<1>9. CASE PushConst
  BY <1>1, <1>4, <1>9 DEF PushConst
<1>10. CASE PushHeap
  BY <1>1, <1>2, <1>4, <1>10 DEF PushHeap, HeapError
<1>11. CASE PopHeap
  BY <1>1, <1>2, <1>3, <1>11 DEF PopHeap, HeapError
<1>12. CASE PushPointer
  BY <1>1, <1>2, <1>4, <1>12 DEF PushPointer, PointerError
<1>13. CASE PopPointer
  BY <1>2, <1>3, <1>13 DEF PopPointer, PointerError, Advance, PointerPopped
<1> QED BY <1>5, <1>6, <1>7, <1>8, <1>9, <1>10, <1>11, <1>12, <1>13 DEF MemoryAccess

LEMMA OtherPointers ==
  ASSUME status = "run", Unary \/ Binary \/ Goto \/ IfGoto \/ Builtin \/ Skip \/ Halt
  PROVE  Steady
<1>1. \A S : Advance(S) /\ ptr' = ptr => Steady
  BY DEF Advance, Steady
<1>2. \A S, how : Stop(how, S) /\ how # "abort" => Steady
  BY DEF Stop, Steady
<1>3. \A S : Underflow(S) => Steady
  BY <1>2 DEF Underflow
<1>4. KeepMemory => ptr' = ptr
  BY DEF KeepMemory
<1>5. \A key, S : JumpError(key, S) => Steady
  BY <1>2 DEF JumpError
<1>6. \A key, k : JumpTo(key, k) /\ KeepMemory => Steady
  BY <1>4 DEF JumpTo, Steady
<1>7. UnderflowOfTwo => Steady
  BY <1>3 DEF UnderflowOfTwo
<1>8. CASE Unary
  BY <1>1, <1>3, <1>4, <1>8 DEF Unary
<1>9. CASE Binary
  BY <1>1, <1>2, <1>4, <1>7, <1>9 DEF Binary, ArithmeticError
<1>10. CASE Goto
  BY <1>5, <1>6, <1>10 DEF Goto
<1>11. CASE IfGoto
  BY <1>1, <1>3, <1>4, <1>5, <1>6, <1>11 DEF IfGoto
<1>12. CASE Builtin
  <2>1. CASE Discard
    BY <1>1, <1>3, <1>4, <2>1 DEF Discard
  <2>2. CASE PrintStr
    BY <1>1, <1>2, <1>4, <1>7, <2>2 DEF PrintStr
  <2>3. CASE ReadChar
    BY <1>1, <1>4, <2>3 DEF ReadChar, TakeChar
  <2>4. CASE ReadNum
    BY <1>1, <1>2, <1>4, <2>4 DEF ReadNum, TakeNum
  <2>5. CASE ReadStr
    BY <1>1, <1>2, <1>3, <2>5 DEF ReadStr, TakeLine
  <2> QED BY <1>12, <2>1, <2>2, <2>3, <2>4, <2>5 DEF Builtin
<1>13. CASE Skip
  BY <1>2, <1>13 DEF Skip, SkipLine, SkipEof
<1>14. CASE Halt
  BY <1>2, <1>14 DEF Halt
<1> QED BY <1>8, <1>9, <1>10, <1>11, <1>12, <1>13, <1>14

\* A call keeps the pointers and saves them.
LEMMA CallKeepsAddresses ==
  ASSUME FramesInv, disciplined, Addresses, FCall
  PROVE  Addresses' /\ status' # "abort"
<1>1. Inv /\ calls \in Seq(Snapshots)
  BY DEF FramesInv
<1>2. CASE status' = "run"
  <2>1. ptr' = ptr
    BY <1>1, <1>2, CallIs DEF FCall, Called, Stopped
  <2>2. Snapshot.ptr = ptr
    BY DEF Snapshot
  <2>3. CASE calls' = Append(calls, Snapshot)
    <3>1. PICK c : c = Snapshot
      OBVIOUS
    <3>2. c \in Snapshots /\ c.ptr = ptr
      BY <1>1, <2>2, <3>1, CurTyped, SnapshotTyped DEF FCall, Call, Executing, Inv
    <3>3. calls' = Append(calls, c)
      BY <2>3, <3>1
    <3>4. \A i \in DOMAIN calls' :
            calls'[i] = c \/ (i \in DOMAIN calls /\ calls'[i] = calls[i])
      BY <1>1, <3>2, <3>3
    <3>5. Address(ptr) /\ \A i \in DOMAIN calls : Address(calls[i].ptr)
      BY DEF Addresses
    <3>6. Address(c.ptr) /\ Address(ptr)'
      BY <2>1, <3>2, <3>5 DEF Address
    <3>7. (\A i \in DOMAIN calls : Address(calls[i].ptr))'
      BY <3>4, <3>5, <3>6 DEF Address
    <3>8. Addresses'
      BY <3>6, <3>7 DEF Addresses
    <3> QED BY <1>2, <3>8
  <2>4. CASE calls' = <<>>
    <3>1. Address(ptr)' /\ DOMAIN calls' = {}
      BY <2>1, <2>4 DEF Addresses, Address
    <3> QED BY <1>2, <3>1 DEF Addresses
  <2> QED BY <1>2, <2>3, <2>4 DEF FCall
<1>3. CASE status' # "run"
  <2>1. stack' = stack /\ calls' = calls
    BY <1>1, <1>3, CallIs DEF FCall, Called, Executing, Call
  <2>2. \A how, S : Stop(how, S) /\ how # "abort" => Steady
    BY DEF Stop, Steady
  <2>3. \A key, S : JumpError(key, S) => Steady
    BY <2>2 DEF JumpError
  <2>4. \A key, k : JumpTo(key, k) => status' = status
    BY DEF JumpTo
  <2>5. Steady
    BY <1>3, <2>2, <2>3, <2>4 DEF FCall, Call, Executing
  <2> QED BY <2>1, <2>5 DEF Addresses, Address, Steady
<1> QED BY <1>2, <1>3

\* A return takes back the pointers that the call saved.
LEMMA ReturnKeepsAddresses ==
  ASSUME FramesInv, disciplined, Addresses, FRet
  PROVE  Addresses' /\ status' # "abort"
<1>1. Inv /\ calls \in Seq(Snapshots) /\ Ret /\ calls # <<>>
  BY ReturnHasFrame DEF FramesInv, FRet
<1>2. Len(calls) \in DOMAIN calls /\ Len(calls) \in Nat
  BY <1>1, NonEmpty
<1>3. status' # "abort"
  BY <1>1, OthersRefuseNothing DEF Ret, Executing, Refusals
<1>4. CASE status' = "run"
  <2>1. ptr' = calls[Len(calls)].ptr
    BY <1>1, <1>4, RetIs DEF ReturnedTo, Stopped
  <2>2. calls' = SubSeq(calls, 1, Len(calls) - 1)
    BY <1>1, <1>4 DEF FRet
  <2>3. \A i \in DOMAIN calls' : i \in DOMAIN calls /\ calls'[i] = calls[i]
    BY <1>1, <1>2, <2>2
  <2> QED BY <1>2, <1>3, <2>1, <2>3 DEF Addresses, Address
<1>5. CASE status' # "run"
  <2>1. calls' = calls
    BY <1>5 DEF FRet
  <2>2. ptr' = ptr
    BY <1>1, <1>5 DEF Ret, Underflow, Stop, Executing
  <2> QED BY <1>3, <2>1, <2>2 DEF Addresses, Address
<1> QED BY <1>4, <1>5

\* Only `pop pointer` of a value that is no heap address makes a pointer, or
\* one that a pending call has saved, something else than a heap address; the
\* assertion of `push pointer` holds until then.
THEOREM OnlyForeignPopsLoseAddresses == FSpec => PointersStayAddresses
<1>1. FramesInv /\ [FNext]_fvars => [PointersStay]_fvars
  <2> SUFFICES ASSUME FramesInv, FNext, disciplined, Addresses, ~PopsForeign
               PROVE  Addresses' /\ status' # "abort"
    BY DEF PointersStay
  <2>1. CASE FLocal
    <3>1. calls' = calls /\ Inv
      BY <2>1 DEF FLocal, FramesInv
    <3>2. Steady => Addresses' /\ status' # "abort"
      BY <3>1 DEF Steady, Addresses, Address
    <3>3. CASE status = "run" /\ MemoryAccess
      <4>1. ptr[Pointer] <= HeapSize
        BY DEF Pointer, Addresses, Address
      <4>2. ~(ptr[Pointer] > HeapSize)
        <5>1. ptr[Pointer] \in Nat /\ HeapSize \in Nat
          BY <3>1, SmallWords, SizesAssumption DEF Inv, TypeOK, Pointer
        <5> QED BY <4>1, <5>1
      <4>3. CASE PointerPopped
        <5>1. Top(stack) <= HeapSize
          <6>1. Top(stack) \in Nat
            BY <3>1, <3>3, <4>3, Running, PopFacts, SmallWords DEF PointerPopped, Poppable, CanPop
          <6> QED BY <4>3, <6>1, SizesAssumption DEF PopsForeign, PointerPopped
        <5>2. ptr \in [this : Word, that : Word]
          BY <3>1 DEF Inv, TypeOK
        <5>3. Address(ptr)'
          BY <4>3, <5>1, <5>2 DEF PointerPopped, Address, Addresses, Pointer
        <5> QED BY <3>1, <3>3, <4>3, <5>3 DEF PointerPopped, Addresses, Address
      <4> QED BY <3>2, <3>3, <4>2, <4>3, MemoryPointers
    <3>4. CASE status = "run" /\ ~MemoryAccess
      BY <2>1, <3>2, <3>4, OtherPointers DEF FLocal, Local
    <3>5. CASE status # "run"
      <4>1. Skip
        BY <2>1, <3>1, <3>5, LocalIs DEF FLocal, Halt
      <4> QED BY <3>2, <4>1 DEF Skip, SkipLine, SkipEof, Stop, Steady
    <3> QED BY <3>3, <3>4, <3>5
  <2> QED BY <2>1, CallKeepsAddresses, ReturnKeepsAddresses DEF FNext
<1> QED BY <1>1, FramesAlways, PTL DEF FSpec, PointersStayAddresses
=============================================================================
