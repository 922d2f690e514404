----------------------------- MODULE ExecProofs -----------------------------
(***************************************************************************)
(* Type correctness and memory safety of the stack, for every program,     *)
(* every word size, every block size and every input: TypeOK and           *)
(* StackBacked are invariants of the executor.  Neither is inductive       *)
(* alone: a popped value is a word because its cell is in the allocation,  *)
(* and the allocation stays a number of blocks because the sizes are       *)
(* numbers; so they are proved together.                                   *)
(***************************************************************************)
EXTENDS Exec, TLAPS

(* What `spush` and `spop` do to a stack, for every block size. *)

\* The allocation grows to at least the height wanted, and by whole blocks.
LEMMA GrownLenFacts ==
  ASSUME NEW S, S.len \in Nat, NEW n \in Nat
  PROVE  /\ GrownLen(S, n) \in Nat
         /\ GrownLen(S, n) >= n
         /\ GrownLen(S, n) >= S.len
         /\ \E q \in Nat : GrownLen(S, n) = S.len + StackBlock * q
<1>1. CASE n <= S.len
  <2>1. GrownLen(S, n) = S.len
    BY <1>1 DEF GrownLen
  <2>2. S.len = S.len + StackBlock * 0
    BY StackBlockAssumption
  <2> QED BY <1>1, <2>1, <2>2
<1>2. CASE ~(n <= S.len)
  <2> DEFINE q == Blocks(n - S.len)
  <2>1. q \in Nat
    BY <1>2, StackBlockAssumption DEF Blocks
  <2>2. StackBlock * q >= n - S.len
    BY <1>2, StackBlockAssumption DEF Blocks
  <2>3. StackBlock * q \in Nat
    BY <2>1, StackBlockAssumption
  <2>4. GrownLen(S, n) = S.len + StackBlock * q
    BY <1>2 DEF GrownLen
  <2> HIDE DEF q
  <2> QED BY <1>2, <2>1, <2>2, <2>3, <2>4
<1> QED BY <1>1, <1>2

\* Adding blocks to a backed allocation keeps it a positive number of blocks.
LEMMA MoreBlocks ==
  ASSUME NEW l \in Nat, NEW m \in Nat, NEW q \in Nat, m = l + StackBlock * q,
         \E k \in 1 .. l : l = StackBlock * k
  PROVE  \E k \in 1 .. m : m = StackBlock * k
<1>1. PICK k \in 1 .. l : l = StackBlock * k
  OBVIOUS
<1>2. m = StackBlock * (k + q)
  BY <1>1, StackBlockAssumption
<1>3. StackBlock * (k + q) >= k + q
  BY <1>1, StackBlockAssumption
<1>4. k + q \in 1 .. m
  BY <1>1, <1>2, <1>3
<1> QED BY <1>2, <1>4

\* Giving one block back keeps it so, if something is left.
LEMMA OneBlockLess ==
  ASSUME NEW l \in Nat, StackBlock < l,
         \E k \in 1 .. l : l = StackBlock * k
  PROVE  \E k \in 1 .. l - StackBlock : l - StackBlock = StackBlock * k
<1>1. PICK k \in 1 .. l : l = StackBlock * k
  OBVIOUS
<1>2. l - StackBlock = StackBlock * (k - 1)
  BY <1>1, StackBlockAssumption
<1>3. k # 1
  BY <1>1, StackBlockAssumption
<1>4. StackBlock * (k - 1) >= k - 1
  BY <1>1, StackBlockAssumption
<1>5. k - 1 \in 1 .. l - StackBlock
  BY <1>1, <1>2, <1>3, <1>4, StackBlockAssumption
<1> QED BY <1>2, <1>5

\* `spush`es put their values on top and leave the cells below alone.
LEMMA PushAllFacts ==
  ASSUME NEW S, IsStack(S), NEW vals \in Seq(Word),
         NEW T, T = PushAll(S, vals)
  PROVE  /\ IsStack(T)
         /\ T.sp = S.sp + Len(vals)
         /\ Backed(S) => Backed(T)
         /\ S.len <= T.len
         /\ T.sp <= T.len
         /\ S.sp <= S.len => \A i \in 0 .. S.sp - 1 : T.ops[i] = S.ops[i]
         /\ \A i \in 1 .. Len(vals) : T.ops[S.sp + i - 1] = vals[i]
<1> DEFINE l == GrownLen(S, S.sp + Len(vals))
<1>1. /\ l \in Nat /\ l >= S.sp + Len(vals) /\ l >= S.len
      /\ \E q \in Nat : l = S.len + StackBlock * q
  BY GrownLenFacts DEF IsStack
<1>2. T = [ops |-> PushedOps(S, vals, l), sp |-> S.sp + Len(vals), len |-> l]
  BY DEF PushAll
<1> HIDE DEF l
<1>3. /\ T.sp = S.sp + Len(vals) /\ T.len = l
      /\ T = [ops |-> T.ops, sp |-> T.sp, len |-> T.len]
      /\ T.ops = [i \in 0 .. l - 1 |->
                    IF i \in S.sp .. S.sp + Len(vals) - 1
                    THEN vals[i - S.sp + 1]
                    ELSE IF i < S.len THEN S.ops[i] ELSE Fresh]
  BY <1>2 DEF PushedOps
<1>4. S.sp \in Nat /\ S.len \in Nat /\ S.ops \in [0 .. S.len - 1 -> Word]
  BY DEF IsStack
<1>5. T.ops \in [0 .. T.len - 1 -> Word]
  BY <1>1, <1>3, <1>4, FreshAssumption, SMTT(60)
<1>6. IsStack(T)
  BY <1>1, <1>3, <1>4, <1>5 DEF IsStack
<1>7. ASSUME Backed(S) PROVE Backed(T)
  <2>1. PICK q \in Nat : l = S.len + StackBlock * q
    BY <1>1
  <2>2. \E k \in 1 .. S.len : S.len = StackBlock * k
    BY <1>7 DEF Backed
  <2>3. \E k \in 1 .. l : l = StackBlock * k
    BY <1>1, <1>4, <2>1, <2>2, MoreBlocks
  <2>4. T.sp <= T.len
    BY <1>1, <1>3
  <2> QED BY <1>3, <2>3, <2>4 DEF Backed
<1>8. ASSUME NEW i \in 1 .. Len(vals)
      PROVE  T.ops[S.sp + i - 1] = vals[i]
  <2>1. /\ S.sp + i - 1 \in 0 .. l - 1
        /\ S.sp + i - 1 \in S.sp .. S.sp + Len(vals) - 1
        /\ (S.sp + i - 1) - S.sp + 1 = i
    BY <1>1, <1>4, SMTT(60)
  <2>2. T.ops[S.sp + i - 1] = vals[(S.sp + i - 1) - S.sp + 1]
    BY <1>3, <2>1
  <2> QED BY <2>1, <2>2
<1>9. S.sp <= S.len => \A i \in 0 .. S.sp - 1 : T.ops[i] = S.ops[i]
  BY <1>1, <1>3, <1>4
<1> QED BY <1>1, <1>3, <1>6, <1>7, <1>8, <1>9

LEMMA PushFacts ==
  ASSUME NEW S, IsStack(S), Backed(S), NEW v \in Word, NEW T, T = Push(S, v)
  PROVE  /\ IsStack(T) /\ Backed(T)
         /\ T.sp = S.sp + 1
         /\ S.len <= T.len
         /\ \A i \in 0 .. S.sp - 1 : T.ops[i] = S.ops[i]
         /\ T.ops[S.sp] = v
<1>1. <<v>> \in Seq(Word) /\ Len(<<v>>) = 1 /\ <<v>>[1] = v
  OBVIOUS
<1>2. T = PushAll(S, <<v>>)
  BY DEF Push
<1>3. S.sp \in Nat /\ S.sp <= S.len
  BY DEF IsStack, Backed
<1>4. /\ IsStack(T) /\ T.sp = S.sp + 1 /\ Backed(T) /\ S.len <= T.len
      /\ \A i \in 0 .. S.sp - 1 : T.ops[i] = S.ops[i]
  BY <1>1, <1>2, <1>3, PushAllFacts, ZenonT(60)
<1> DEFINE vals == <<v>>
<1>a. vals \in Seq(Word) /\ T = PushAll(S, vals)
  BY <1>1, <1>2
<1> HIDE DEF vals
<1>b. \A i \in 1 .. Len(vals) : T.ops[S.sp + i - 1] = vals[i]
  BY <1>a, PushAllFacts
<1>5. \A i \in 1 .. Len(<<v>>) : T.ops[S.sp + i - 1] = <<v>>[i]
  BY <1>b DEF vals
<1>6. T.ops[S.sp + 1 - 1] = <<v>>[1] /\ S.sp + 1 - 1 = S.sp
  BY <1>1, <1>3, <1>5
<1> QED BY <1>1, <1>4, <1>6

\* A `spop` of a non-empty stack leaves the cells below alone, keeps them in
\* the allocation, and reads a cell that is still allocated.
LEMMA PopFacts ==
  ASSUME NEW S, IsStack(S), Backed(S), S.sp > 0, NEW T, T = Pop(S)
  PROVE  /\ IsStack(T) /\ Backed(T)
         /\ T.sp = S.sp - 1
         /\ T.sp < T.len
         /\ T.len <= S.len
         /\ \A i \in 0 .. T.len - 1 : T.ops[i] = S.ops[i]
         /\ Top(S) \in Word
<1> DEFINE l == IF S.sp - 1 < S.len - StackBlock
                THEN S.len - StackBlock ELSE S.len
<1>1. /\ S.sp \in Nat /\ S.len \in Nat /\ S.ops \in [0 .. S.len - 1 -> Word]
      /\ S.sp <= S.len
      /\ \E k \in 1 .. S.len : S.len = StackBlock * k
  BY DEF IsStack, Backed
<1>2. T = [ops |-> [i \in 0 .. l - 1 |-> S.ops[i]], sp |-> S.sp - 1, len |-> l]
  BY DEF Pop
<1>3. l \in Nat /\ l <= S.len /\ S.sp - 1 < l
  BY <1>1, StackBlockAssumption
<1>4. \E k \in 1 .. l : l = StackBlock * k
  <2>1. CASE S.sp - 1 < S.len - StackBlock
    <3>1. StackBlock < S.len /\ l = S.len - StackBlock
      <4>1. StackBlock < S.len
        BY <1>1, <2>1, StackBlockAssumption
      <4>2. l = S.len - StackBlock
        BY <2>1
      <4> QED BY <4>1, <4>2
    <3>2. \E k \in 1 .. S.len - StackBlock : S.len - StackBlock = StackBlock * k
      BY <1>1, <3>1, OneBlockLess
    <3> QED BY <3>1, <3>2
  <2>2. CASE ~(S.sp - 1 < S.len - StackBlock)
    BY <1>1, <2>2
  <2> QED BY <2>1, <2>2
<1> HIDE DEF l
<1>5. /\ T.sp = S.sp - 1 /\ T.len = l
      /\ T = [ops |-> T.ops, sp |-> T.sp, len |-> T.len]
      /\ T.ops = [i \in 0 .. l - 1 |-> S.ops[i]]
  BY <1>2
<1>6. T.ops \in [0 .. T.len - 1 -> Word]
  BY <1>1, <1>3, <1>5
<1>7. IsStack(T)
  BY <1>1, <1>3, <1>5, <1>6 DEF IsStack
<1>8. Backed(T)
  <2>1. T.sp <= T.len
    BY <1>1, <1>3, <1>5
  <2>2. \E k \in 1 .. T.len : T.len = StackBlock * k
    BY <1>4, <1>5
  <2> QED BY <2>1, <2>2 DEF Backed
<1>9. Top(S) \in Word
  BY <1>1 DEF Top
<1> QED BY <1>1, <1>3, <1>5, <1>7, <1>8, <1>9

\* Writing a cell changes that cell and nothing else.
LEMMA PokeFacts ==
  ASSUME NEW S, IsStack(S), NEW a \in 0 .. S.len - 1, NEW v \in Word,
         NEW T, T = Poke(S, a, v)
  PROVE  /\ IsStack(T)
         /\ Backed(S) => Backed(T)
         /\ T.sp = S.sp /\ T.len = S.len
         /\ T.ops[a] = v
         /\ \A i \in 0 .. S.len - 1 : i # a => T.ops[i] = S.ops[i]
<1>1. T = [ops |-> [S.ops EXCEPT ![a] = v], sp |-> S.sp, len |-> S.len]
  BY DEF Poke, IsStack
<1>2. /\ T.sp = S.sp /\ T.len = S.len /\ T.ops = [S.ops EXCEPT ![a] = v]
      /\ T = [ops |-> T.ops, sp |-> T.sp, len |-> T.len]
  BY <1>1
<1>3. /\ S.sp \in Nat /\ S.len \in Nat /\ S.ops \in [0 .. S.len - 1 -> Word]
  BY DEF IsStack
<1>4. IsStack(T)
  BY <1>2, <1>3 DEF IsStack
<1>5. Backed(S) => Backed(T)
  BY <1>2 DEF Backed
<1> QED BY <1>2, <1>3, <1>4, <1>5

LEMMA NewStackFacts == IsStack(NewStack) /\ Backed(NewStack)
<1>1. StackBlock = StackBlock * 1 /\ 1 \in 1 .. StackBlock
  BY StackBlockAssumption
<1>2. 0 \in Word
  BY WordModAssumption DEF Word
<1>3. IsStack(NewStack)
  BY <1>2, StackBlockAssumption DEF IsStack, NewStack
<1>4. Backed(NewStack)
  BY <1>1, StackBlockAssumption DEF Backed, NewStack
<1> QED BY <1>3, <1>4
-----------------------------------------------------------------------------
(* The invariant. *)

Inv == TypeOK /\ StackBacked

Errors == {"add_overflow", "sub_underflow"}

-----------------------------------------------------------------------------
(* The program. *)

LEMMA SmallWords == /\ WordMod \in Nat
                    /\ 0 \in Word /\ 1 \in Word /\ 22 \in Word
                    /\ \A w \in Word : w \in Nat
  BY WordModAssumption, WordBitsAssumption DEF Word

LEMMA PlainTyped ==
  ASSUME NEW op \in UserOps \cup BuiltinOps
  PROVE  Plain(op) \in Inst
  BY SmallWords, IdentsAssumption DEF Plain, Inst, Segments

LEMMA PushITyped ==
  ASSUME NEW seg \in Segments, NEW offset \in Word
  PROVE  PushI(seg, offset) \in Inst
<1>1. "PUSH" \in UserOps
  BY DEF UserOps
<1>2. Plain("PUSH") \in Inst
  BY <1>1, PlainTyped
<1> QED BY <1>2 DEF PushI, Inst

LEMMA CallITyped ==
  ASSUME NEW ident \in Idents, NEW nargs \in Word
  PROVE  CallI(ident, nargs) \in Inst
<1>1. "CALL" \in UserOps
  BY DEF UserOps
<1>2. Plain("CALL") \in Inst
  BY <1>1, PlainTyped
<1> QED BY <1>2 DEF CallI, Inst

LEMMA SystemFileTyped == IsFile(SystemFile)
<1>1. /\ PushI("ARG", 0) \in Inst /\ PushI("ARG", 1) \in Inst
      /\ PushI("CONST", 0) \in Inst
  BY PushITyped, SmallWords DEF Segments
<1>2. /\ Plain("PRINT_CHAR") \in Inst /\ Plain("PRINT_NUM") \in Inst
      /\ Plain("PRINT_STR") \in Inst /\ Plain("READ_CHAR") \in Inst
      /\ Plain("READ_NUM") \in Inst /\ Plain("READ_STR") \in Inst
      /\ Plain("RET") \in Inst
  BY PlainTyped DEF UserOps, BuiltinOps
<1>3. CallI("Sys.init", 1) \in Inst
  BY CallITyped, SmallWords, SysInitAssumption
<1>4. SystemFile.insts \in Seq(Inst) /\ Len(SystemFile.insts) = 22
  BY <1>1, <1>2, <1>3 DEF SystemFile, SystemInsts
<1>5. ASSUME NEW key \in DOMAIN SystemFile.st
      PROVE  /\ SystemFile.st[key] \in SymVal
             /\ SystemFile.st[key].inst_addr <= 22
  <2>1. PICK ident \in SystemNames : key = Func(ident)
    BY <1>5 DEF SystemFile
  <2>2. SystemFile.st[key] = SystemSymbol(ident)
    BY <1>5, <2>1 DEF SystemFile, Func
  <2>3. \A a \in 0 .. 22, n \in {0, 1} :
          At(a, n) \in SymVal /\ At(a, n).inst_addr <= 22
    BY SmallWords DEF At, SymVal
  <2>4. SystemSymbol(ident) \in {At(0, 0), At(4, 0), At(8, 0), At(13, 0),
                                 At(15, 0), At(17, 1)}
    BY <2>1 DEF SystemSymbol, SystemNames
  <2> QED BY <2>2, <2>3, <2>4
<1> QED BY <1>4, <1>5 DEF IsFile

LEMMA FileTyped ==
  ASSUME IsProgram(prog), NEW k \in Files
  PROVE  IsFile(FileOf(k))
<1>1. CASE k = 0
  BY <1>1, SystemFileTyped DEF FileOf
<1>2. CASE k # 0
  <2>1. k \in DOMAIN prog
    BY <1>2 DEF Files, IsProgram
  <2> QED BY <1>2, <2>1 DEF FileOf, IsProgram
<1> QED BY <1>1, <1>2

LEMMA CurTyped ==
  ASSUME TypeOK, NEW op, Executing(op)
  PROVE  /\ Cur \in Inst
         /\ Cur.offset \in Word /\ Cur.nargs \in Word /\ Cur.ident \in Idents
         /\ Cur.offset \in Nat /\ Cur.nargs \in Nat
         /\ status = "run" /\ fi \in Files /\ Cur.op = op
<1>1. Active.insts \in Seq(Inst)
  BY FileTyped DEF TypeOK, Active, IsFile
<1>2. ei[fi] \in Nat /\ ei[fi] + 1 \in 1 .. Len(Active.insts)
  BY <1>1 DEF TypeOK, Executing
<1>3. Cur \in Inst
  BY <1>1, <1>2 DEF Cur
<1> QED BY <1>3, SmallWords DEF Inst, TypeOK, Executing

-----------------------------------------------------------------------------
(* The ways a handler ends. *)

LEMMA StopKeepsInv ==
  ASSUME Inv, NEW how \in Statuses, NEW S, IsStack(S),
         how \notin Errors => Backed(S),
         Stop(how, S)
  PROVE  Inv'
  BY DEF Inv, TypeOK, StackBacked, Stop, Errors, Files

MemoryTyped ==
  /\ heap \in [0 .. HeapSize - 1 -> Word]
  /\ ptr \in [this : Word, that : Word]
  /\ mem \in [Files -> [static : [0 .. StatSize - 1 -> Word],
                        tmp    : [0 .. TempSize - 1 -> Word]]]

LEMMA KeepsMemoryTyped ==
  ASSUME TypeOK, KeepMemory, prog' = prog
  PROVE  MemoryTyped'
  BY DEF MemoryTyped, TypeOK, KeepMemory, Files

LEMMA AdvanceKeepsInv ==
  ASSUME Inv, NEW S, IsStack(S), Backed(S), Advance(S), MemoryTyped'
  PROVE  Inv'
<1>1. ei' \in [Files -> Nat]
  BY DEF Inv, TypeOK, Advance
<1> QED BY <1>1 DEF Inv, TypeOK, StackBacked, Advance, MemoryTyped, Files

LEMMA UnderflowKeepsInv ==
  ASSUME Inv, NEW S, IsStack(S), Backed(S), Underflow(S)
  PROVE  Inv'
<1>1. "stack_underflow" \in Statuses /\ "stack_underflow" \notin Errors
  BY DEF Statuses, Errors
<1> QED BY <1>1, StopKeepsInv DEF Underflow

\* What a running state gives a handler.
LEMMA Running ==
  ASSUME Inv, status = "run"
  PROVE  /\ IsStack(stack) /\ Backed(stack)
         /\ stack.sp \in Nat /\ stack.len \in Nat /\ stack.sp <= stack.len
         /\ \A i \in 0 .. stack.len - 1 : stack.ops[i] \in Word
         /\ DOMAIN stack.ops = 0 .. stack.len - 1
         /\ Floor \in Nat
  BY DEF Inv, TypeOK, StackBacked, IsStack, Backed, Floor

LEMMA PopRunning ==
  ASSUME Inv, status = "run", NEW S, IsStack(S), Backed(S), Poppable(S)
  PROVE  /\ IsStack(Pop(S)) /\ Backed(Pop(S))
         /\ Pop(S).sp = S.sp - 1 /\ Pop(S).sp < Pop(S).len
         /\ Top(S) \in Word
<1>1. S.sp > 0
  BY Running DEF Poppable, CanPop, IsStack
<1> QED BY <1>1, PopFacts

LEMMA PushRunning ==
  ASSUME NEW S, IsStack(S), Backed(S), NEW v \in Word
  PROVE  IsStack(Push(S, v)) /\ Backed(Push(S, v))
  BY PushFacts

-----------------------------------------------------------------------------
(* One lemma per action. *)

LEMMA StatusFacts ==
  /\ {"oob_heap", "oob_stack", "oob_files", "abort", "done", "seg_overflow",
      "stack_addr_overflow", "pointer_segment", "heap_addr_overflow",
      "ctrl_flow", "def", "nargs", "read_io", "skip_line", "skip_eof",
      "read_num_char", "read_num_overflow"} \subseteq Statuses \ Errors
  /\ {"add_overflow", "sub_underflow"} \subseteq Statuses
  BY DEF Statuses, Errors

LEMMA PushFrameInv == ASSUME Inv, PushFrame PROVE Inv'
<1>1. /\ Cur.offset \in Nat /\ status = "run" /\ TypeOK
      /\ IsStack(stack) /\ Backed(stack)
      /\ stack.sp \in Nat /\ stack.len \in Nat /\ stack.sp <= stack.len
      /\ \A i \in 0 .. stack.len - 1 : stack.ops[i] \in Word
  BY CurTyped, Running DEF PushFrame, Inv
<1>2. CASE SegmentError
  BY <1>1, <1>2, StopKeepsInv, StatusFacts DEF SegmentError
<1>3. CASE InSegment /\ Advance(Push(stack, stack.ops[SegAddr])) /\ KeepMemory
  <2>1. SegAddr \in 0 .. stack.len - 1
    BY <1>1, <1>3 DEF InSegment, SegAddr, SegBase, TypeOK
  <2>2. stack.ops[SegAddr] \in Word
    BY <1>1, <2>1
  <2>3. MemoryTyped'
    BY <1>1, <1>3, KeepsMemoryTyped DEF Advance
  <2> QED BY <1>1, <1>3, <2>2, <2>3, PushRunning, AdvanceKeepsInv
<1> QED BY <1>2, <1>3 DEF PushFrame

LEMMA PopFrameInv == ASSUME Inv, PopFrame PROVE Inv'
<1>1. /\ Cur.offset \in Nat /\ status = "run" /\ TypeOK
      /\ IsStack(stack) /\ Backed(stack)
      /\ stack.sp \in Nat /\ stack.len \in Nat /\ stack.sp <= stack.len
  BY CurTyped, Running DEF PopFrame, Inv
<1>2. CASE SegmentError
  BY <1>1, <1>2, StopKeepsInv, StatusFacts DEF SegmentError
<1>3. CASE InSegment /\ Underflow(stack)
  BY <1>1, <1>3, UnderflowKeepsInv
<1>4. CASE /\ InSegment /\ Poppable(stack)
           /\ Advance(Poke(Pop(stack), SegAddr, Top(stack)))
           /\ KeepMemory
  <2>1. /\ IsStack(Pop(stack)) /\ Backed(Pop(stack))
        /\ Pop(stack).sp = stack.sp - 1 /\ Pop(stack).sp < Pop(stack).len
        /\ Top(stack) \in Word
    BY <1>1, <1>4, PopRunning
  <2>2. Pop(stack).len \in Nat
    BY <2>1 DEF IsStack
  <2>3. SegAddr \in 0 .. Pop(stack).len - 1
    <3>1. PICK a, b : a = SegAddr /\ b = SegBase
      OBVIOUS
    <3>2. b \in Nat /\ a = Cur.offset + b /\ a < stack.sp
      BY <1>1, <1>4, <3>1 DEF InSegment, SegAddr, SegBase, TypeOK
    <3>3. PICK S : S = Pop(stack)
      OBVIOUS
    <3>4. S.len \in Nat /\ S.sp = stack.sp - 1 /\ S.sp < S.len
      BY <2>1, <2>2, <3>3
    <3>5. a \in 0 .. S.len - 1
      BY <1>1, <3>2, <3>4
    <3> QED BY <3>1, <3>3, <3>5
  <2>4. /\ IsStack(Poke(Pop(stack), SegAddr, Top(stack)))
        /\ Backed(Poke(Pop(stack), SegAddr, Top(stack)))
    <3>1. PICK S, a, v : S = Pop(stack) /\ a = SegAddr /\ v = Top(stack)
      OBVIOUS
    <3>2. IsStack(S) /\ Backed(S) /\ a \in 0 .. S.len - 1 /\ v \in Word
      BY <2>1, <2>3, <3>1
    <3>3. IsStack(Poke(S, a, v)) /\ Backed(Poke(S, a, v))
      BY <3>2, PokeFacts
    <3> QED BY <3>1, <3>3
  <2>5. MemoryTyped'
    BY <1>1, <1>4, KeepsMemoryTyped DEF Advance
  <2> QED BY <1>4, <2>4, <2>5, AdvanceKeepsInv
<1> QED BY <1>2, <1>3, <1>4 DEF PopFrame

LEMMA PushFileSegInv == ASSUME Inv, PushFileSeg PROVE Inv'
<1>1. /\ Cur.offset \in Nat /\ status = "run" /\ TypeOK /\ fi \in Files
      /\ IsStack(stack) /\ Backed(stack)
  BY CurTyped, Running DEF PushFileSeg, Inv
<1>2. CASE FileSegError
  BY <1>1, <1>2, StopKeepsInv, StatusFacts DEF FileSegError
<1>3. CASE /\ InFileSeg
           /\ Advance(Push(stack, mem[fi][FileSeg][Cur.offset])) /\ KeepMemory
  <2>1. mem[fi][FileSeg][Cur.offset] \in Word
    BY <1>1, <1>3, SizesAssumption
       DEF InFileSeg, FileSeg, FileSegSize, TypeOK
  <2>2. MemoryTyped'
    BY <1>1, <1>3, KeepsMemoryTyped DEF Advance
  <2> QED BY <1>1, <1>3, <2>1, <2>2, PushRunning, AdvanceKeepsInv
<1> QED BY <1>2, <1>3 DEF PushFileSeg

LEMMA PopFileSegInv == ASSUME Inv, PopFileSeg PROVE Inv'
<1>1. /\ Cur.offset \in Nat /\ status = "run" /\ TypeOK /\ fi \in Files
      /\ IsStack(stack) /\ Backed(stack)
  BY CurTyped, Running DEF PopFileSeg, Inv
<1>2. CASE FileSegError
  BY <1>1, <1>2, StopKeepsInv, StatusFacts DEF FileSegError
<1>3. CASE InFileSeg /\ Underflow(stack)
  BY <1>1, <1>3, UnderflowKeepsInv
<1>4. CASE /\ InFileSeg /\ Poppable(stack)
           /\ Advance(Pop(stack))
           /\ mem' = [mem EXCEPT ![fi][FileSeg][Cur.offset] = Top(stack)]
           /\ UNCHANGED <<heap, ptr>>
  <2>1. IsStack(Pop(stack)) /\ Backed(Pop(stack)) /\ Top(stack) \in Word
    BY <1>1, <1>4, PopRunning
  <2>2. mem' \in [Files -> [static : [0 .. StatSize - 1 -> Word],
                            tmp    : [0 .. TempSize - 1 -> Word]]]
    BY <1>1, <1>4, <2>1, ZenonT(60) DEF FileSeg, TypeOK
  <2>3. MemoryTyped'
    BY <1>1, <1>4, <2>2 DEF MemoryTyped, TypeOK, Advance, Files
  <2> QED BY <1>4, <2>1, <2>3, AdvanceKeepsInv
<1> QED BY <1>2, <1>3, <1>4 DEF PopFileSeg

LEMMA PushConstInv == ASSUME Inv, PushConst PROVE Inv'
<1>1. /\ Cur.offset \in Word /\ TypeOK
      /\ IsStack(stack) /\ Backed(stack)
  BY CurTyped, Running DEF PushConst, Inv
<1>2. MemoryTyped'
  BY <1>1, KeepsMemoryTyped DEF PushConst, Advance
<1> QED BY <1>1, <1>2, PushRunning, AdvanceKeepsInv DEF PushConst

LEMMA HeapAddrTyped == ASSUME TypeOK, Cur.offset \in Nat PROVE HeapAddr \in Nat
  BY SmallWords DEF HeapAddr, TypeOK

LEMMA PushHeapInv == ASSUME Inv, PushHeap PROVE Inv'
<1>1. /\ Cur.offset \in Nat /\ TypeOK /\ HeapAddr \in Nat
      /\ IsStack(stack) /\ Backed(stack)
  BY CurTyped, Running, HeapAddrTyped DEF PushHeap, Inv
<1>2. CASE HeapError
  BY <1>1, <1>2, StopKeepsInv, StatusFacts DEF HeapError
<1>3. CASE HeapAddr = HeapSize /\ Stop("oob_heap", stack)
  BY <1>1, <1>3, StopKeepsInv, StatusFacts
<1>4. CASE /\ HeapAddr < HeapSize
           /\ Advance(Push(stack, heap[HeapAddr])) /\ KeepMemory
  <2>1. heap[HeapAddr] \in Word
    BY <1>1, <1>4, SizesAssumption DEF TypeOK
  <2>2. MemoryTyped'
    BY <1>1, <1>4, KeepsMemoryTyped DEF Advance
  <2> QED BY <1>1, <1>4, <2>1, <2>2, PushRunning, AdvanceKeepsInv
<1> QED BY <1>2, <1>3, <1>4 DEF PushHeap

LEMMA PopHeapInv == ASSUME Inv, PopHeap PROVE Inv'
<1>1. /\ Cur.offset \in Nat /\ TypeOK /\ HeapAddr \in Nat /\ status = "run"
      /\ IsStack(stack) /\ Backed(stack)
  BY CurTyped, Running, HeapAddrTyped DEF PopHeap, Inv
<1>2. CASE HeapError
  BY <1>1, <1>2, StopKeepsInv, StatusFacts DEF HeapError
<1>3. CASE HeapAddr <= HeapSize /\ Underflow(stack)
  BY <1>1, <1>3, UnderflowKeepsInv
<1>4. ASSUME Poppable(stack)
      PROVE  IsStack(Pop(stack)) /\ Backed(Pop(stack)) /\ Top(stack) \in Word
  BY <1>1, <1>4, PopRunning
<1>5. CASE HeapAddr = HeapSize /\ Poppable(stack) /\ Stop("oob_heap", Pop(stack))
  BY <1>4, <1>5, StopKeepsInv, StatusFacts
<1>6. CASE /\ HeapAddr < HeapSize /\ Poppable(stack)
           /\ Advance(Pop(stack))
           /\ heap' = [heap EXCEPT ![HeapAddr] = Top(stack)]
           /\ UNCHANGED <<ptr, mem>>
  <2>1. heap' \in [0 .. HeapSize - 1 -> Word]
    BY <1>1, <1>4, <1>6 DEF TypeOK
  <2>2. MemoryTyped'
    BY <1>1, <1>6, <2>1 DEF MemoryTyped, TypeOK, Advance, Files
  <2> QED BY <1>4, <1>6, <2>2, AdvanceKeepsInv
<1> QED BY <1>2, <1>3, <1>5, <1>6 DEF PopHeap

LEMMA PushPointerInv == ASSUME Inv, PushPointer PROVE Inv'
<1>1. TypeOK /\ IsStack(stack) /\ Backed(stack)
  BY CurTyped, Running DEF PushPointer, Inv
<1>2. CASE PointerError
  BY <1>1, <1>2, StopKeepsInv, StatusFacts DEF PointerError
<1>3. CASE Cur.offset <= 1 /\ ptr[Pointer] > HeapSize /\ Stop("abort", stack)
  BY <1>1, <1>3, StopKeepsInv, StatusFacts
<1>4. CASE /\ Cur.offset <= 1 /\ ptr[Pointer] <= HeapSize
           /\ Advance(Push(stack, ptr[Pointer])) /\ KeepMemory
  <2>1. ptr[Pointer] \in Word
    BY <1>1 DEF Pointer, TypeOK
  <2>2. MemoryTyped'
    BY <1>1, <1>4, KeepsMemoryTyped DEF Advance
  <2> QED BY <1>1, <1>4, <2>1, <2>2, PushRunning, AdvanceKeepsInv
<1> QED BY <1>2, <1>3, <1>4 DEF PushPointer

LEMMA PopPointerInv == ASSUME Inv, PopPointer PROVE Inv'
<1>1. TypeOK /\ status = "run" /\ IsStack(stack) /\ Backed(stack)
  BY CurTyped, Running DEF PopPointer, Inv
<1>2. CASE PointerError
  BY <1>1, <1>2, StopKeepsInv, StatusFacts DEF PointerError
<1>3. CASE Cur.offset <= 1 /\ Underflow(stack)
  BY <1>1, <1>3, UnderflowKeepsInv
<1>4. CASE /\ Cur.offset <= 1 /\ Poppable(stack)
           /\ Advance(Pop(stack))
           /\ ptr' = [ptr EXCEPT ![Pointer] = Top(stack)]
           /\ UNCHANGED <<heap, mem>>
  <2>1. IsStack(Pop(stack)) /\ Backed(Pop(stack)) /\ Top(stack) \in Word
    BY <1>1, <1>4, PopRunning
  <2>2. ptr' \in [this : Word, that : Word]
    BY <1>1, <1>4, <2>1 DEF Pointer, TypeOK
  <2>3. MemoryTyped'
    BY <1>1, <1>4, <2>2 DEF MemoryTyped, TypeOK, Advance, Files
  <2> QED BY <1>4, <2>1, <2>3, AdvanceKeepsInv
<1> QED BY <1>2, <1>3, <1>4 DEF PopPointer

LEMMA UnaryInv == ASSUME Inv, Unary PROVE Inv'
<1>1. PICK op \in UnaryOps :
        /\ Executing(op)
        /\ \/ Underflow(stack)
           \/ /\ Poppable(stack)
              /\ Advance(Push(Pop(stack), UnaryValue(op, Top(stack))))
              /\ KeepMemory
  BY DEF Unary
<1>2. TypeOK /\ status = "run" /\ IsStack(stack) /\ Backed(stack)
  BY <1>1, CurTyped, Running DEF Inv
<1>3. CASE Underflow(stack)
  BY <1>2, <1>3, UnderflowKeepsInv
<1>4. CASE /\ Poppable(stack)
           /\ Advance(Push(Pop(stack), UnaryValue(op, Top(stack))))
           /\ KeepMemory
  <2>1. IsStack(Pop(stack)) /\ Backed(Pop(stack)) /\ Top(stack) \in Word
    BY <1>2, <1>4, PopRunning
  <2>2. UnaryValue(op, Top(stack)) \in Word
    BY <2>1, WordModAssumption DEF UnaryValue, Word
  <2>3. MemoryTyped'
    BY <1>2, <1>4, KeepsMemoryTyped DEF Advance
  <2> QED BY <1>4, <2>1, <2>2, <2>3, PushRunning, AdvanceKeepsInv
<1> QED BY <1>1, <1>3, <1>4

LEMMA UnderflowOfTwoInv ==
  ASSUME Inv, status = "run", UnderflowOfTwo
  PROVE  Inv'
<1>1. IsStack(stack) /\ Backed(stack)
  BY Running
<1>2. CASE Underflow(stack)
  BY <1>1, <1>2, UnderflowKeepsInv
<1>3. CASE Poppable(stack) /\ Underflow(Pop(stack))
  BY <1>1, <1>3, PopRunning, UnderflowKeepsInv
<1> QED BY <1>2, <1>3 DEF UnderflowOfTwo

\* Two `spop`s that succeed.
LEMMA PopTwice ==
  ASSUME Inv, status = "run", PoppableTwice
  PROVE  /\ IsStack(Pop(Pop(stack))) /\ Backed(Pop(Pop(stack)))
         /\ Top(stack) \in Word /\ Top(Pop(stack)) \in Word
<1>1. IsStack(Pop(stack)) /\ Backed(Pop(stack)) /\ Top(stack) \in Word
  BY Running, PopRunning DEF PoppableTwice
<1> QED BY <1>1, PopRunning DEF PoppableTwice

LEMMA UnpopTyped ==
  ASSUME NEW S, IsStack(S)
  PROVE  IsStack(Unpop(S))
<1>1. Unpop(S) = [ops |-> S.ops, sp |-> S.sp + 2, len |-> S.len]
  BY DEF Unpop, IsStack
<1>2. /\ Unpop(S).ops = S.ops /\ Unpop(S).sp = S.sp + 2 /\ Unpop(S).len = S.len
      /\ Unpop(S) = [ops |-> Unpop(S).ops, sp |-> Unpop(S).sp, len |-> Unpop(S).len]
  BY <1>1
<1> QED BY <1>2 DEF IsStack

LEMMA BinaryInv == ASSUME Inv, Binary PROVE Inv'
<1> DEFINE rest == Pop(Pop(stack))
           val(op) == BinaryValue(op, Top(Pop(stack)), Top(stack))
<1>1. PICK op \in BinaryOps :
        /\ Executing(op)
        /\ \/ UnderflowOfTwo
           \/ /\ PoppableTwice
              /\ \/ /\ val(op) \in Word
                    /\ Advance(Push(rest, val(op))) /\ KeepMemory
                 \/ Stop(ArithmeticError(op), Unpop(rest))
  BY DEF Binary
<1>2. TypeOK /\ status = "run" /\ IsStack(stack) /\ Backed(stack)
  BY <1>1, CurTyped, Running DEF Inv
<1>3. CASE UnderflowOfTwo
  BY <1>2, <1>3, UnderflowOfTwoInv
<1>4. CASE /\ PoppableTwice
           /\ val(op) \in Word /\ Advance(Push(rest, val(op))) /\ KeepMemory
  <2>1. IsStack(rest) /\ Backed(rest)
    BY <1>2, <1>4, PopTwice
  <2>2. MemoryTyped'
    BY <1>2, <1>4, KeepsMemoryTyped DEF Advance
  <2> HIDE DEF rest, val
  <2> QED BY <1>4, <2>1, <2>2, PushRunning, AdvanceKeepsInv
<1>5. CASE PoppableTwice /\ Stop(ArithmeticError(op), Unpop(rest))
  <2>1. IsStack(Unpop(rest))
    BY <1>2, <1>5, PopTwice, UnpopTyped
  <2>2. ArithmeticError(op) \in Errors /\ ArithmeticError(op) \in Statuses
    BY StatusFacts DEF ArithmeticError, Errors
  <2> HIDE DEF rest
  <2> QED BY <1>5, <2>1, <2>2, StopKeepsInv
<1> QED BY <1>1, <1>3, <1>4, <1>5

-----------------------------------------------------------------------------

LEMMA JumpErrorKeepsInv ==
  ASSUME Inv, NEW key, NEW S, IsStack(S), Backed(S), JumpError(key, S)
  PROVE  Inv'
  BY StopKeepsInv, StatusFacts DEF JumpError

\* A jump lands in a file that defines the symbol.
LEMMA JumpTyped ==
  ASSUME TypeOK, NEW key, NEW k \in Files, JumpTo(key, k)
  PROVE  /\ prog' = prog /\ fi' \in Files' /\ ei' \in [Files' -> Nat]
         /\ status' = status
         /\ FileOf(k).st[key] \in SymVal
<1>1. key \in DOMAIN FileOf(k).st
  <2>1. k \in Targets(key)
    BY DEF JumpTo
  <2> QED BY <2>1 DEF Targets
<1>2. FileOf(k).st[key] \in SymVal
  BY <1>1, FileTyped DEF IsFile, TypeOK
<1>3. FileOf(k).st[key].inst_addr \in Nat
  BY <1>2 DEF SymVal
<1> QED BY <1>2, <1>3 DEF JumpTo, TypeOK, Files

\* A step that moves within the program and leaves the memory alone.
LEMMA MoveKeepsInv ==
  ASSUME Inv, prog' = prog, fi' \in Files', ei' \in [Files' -> Nat],
         IsStack(stack'), Backed(stack'),
         reg' \in [arg : Nat, arg_len : Nat, lcl : Nat, lcl_len : Nat],
         MemoryTyped', status' = status
  PROVE  Inv'
  BY DEF Inv, TypeOK, StackBacked, MemoryTyped

LEMMA GotoInv == ASSUME Inv, Goto PROVE Inv'
<1>1. TypeOK /\ IsStack(stack) /\ Backed(stack)
  BY CurTyped, Running DEF Goto, Inv
<1>2. CASE JumpError(Label(Cur.ident), stack)
  BY <1>1, <1>2, JumpErrorKeepsInv
<1>3. ASSUME NEW k \in Files, JumpTo(Label(Cur.ident), k),
             UNCHANGED <<stack, reg>>, KeepMemory
      PROVE  Inv'
  <2>1. /\ prog' = prog /\ fi' \in Files' /\ ei' \in [Files' -> Nat]
        /\ status' = status
    BY <1>1, <1>3, JumpTyped
  <2>2. MemoryTyped'
    BY <1>1, <1>3, <2>1, KeepsMemoryTyped
  <2>3. reg' \in [arg : Nat, arg_len : Nat, lcl : Nat, lcl_len : Nat]
    BY <1>1, <1>3 DEF TypeOK
  <2> QED BY <1>1, <1>3, <2>1, <2>2, <2>3, MoveKeepsInv
<1> QED BY <1>2, <1>3 DEF Goto

LEMMA PutBackTyped ==
  ASSUME NEW S, IsStack(S), Backed(S), S.sp < S.len
  PROVE  IsStack(PutBack(S)) /\ Backed(PutBack(S))
<1>1. PutBack(S) = [ops |-> S.ops, sp |-> S.sp + 1, len |-> S.len]
  BY DEF PutBack, IsStack
<1>2. /\ PutBack(S).ops = S.ops /\ PutBack(S).sp = S.sp + 1
      /\ PutBack(S).len = S.len
      /\ PutBack(S) = [ops |-> PutBack(S).ops, sp |-> PutBack(S).sp,
                       len |-> PutBack(S).len]
  BY <1>1
<1>3. S.sp \in Nat /\ S.len \in Nat
  BY DEF IsStack
<1> QED BY <1>2, <1>3 DEF IsStack, Backed

LEMMA IfGotoInv == ASSUME Inv, IfGoto PROVE Inv'
<1>1. TypeOK /\ status = "run" /\ IsStack(stack) /\ Backed(stack)
  BY CurTyped, Running DEF IfGoto, Inv
<1>2. CASE Underflow(stack)
  BY <1>1, <1>2, UnderflowKeepsInv
<1>3. ASSUME Poppable(stack)
      PROVE  /\ IsStack(Pop(stack)) /\ Backed(Pop(stack))
             /\ Pop(stack).sp < Pop(stack).len
  BY <1>1, <1>3, PopRunning
<1>4. CASE Poppable(stack) /\ Advance(Pop(stack)) /\ KeepMemory
  <2>1. MemoryTyped'
    BY <1>1, <1>4, KeepsMemoryTyped DEF Advance
  <2> QED BY <1>3, <1>4, <2>1, AdvanceKeepsInv
<1>5. CASE Poppable(stack) /\ JumpError(Label(Cur.ident), PutBack(Pop(stack)))
  BY <1>3, <1>5, PutBackTyped, JumpErrorKeepsInv
<1>6. ASSUME Poppable(stack), NEW k \in Files, JumpTo(Label(Cur.ident), k),
             stack' = Pop(stack), UNCHANGED reg, KeepMemory
      PROVE  Inv'
  <2>1. /\ prog' = prog /\ fi' \in Files' /\ ei' \in [Files' -> Nat]
        /\ status' = status
    BY <1>1, <1>6, JumpTyped
  <2>2. MemoryTyped'
    BY <1>1, <1>6, <2>1, KeepsMemoryTyped
  <2>3. reg' \in [arg : Nat, arg_len : Nat, lcl : Nat, lcl_len : Nat]
    BY <1>1, <1>6 DEF TypeOK
  <2>4. IsStack(stack') /\ Backed(stack')
    BY <1>3, <1>6
  <2> QED BY <2>1, <2>2, <2>3, <2>4, MoveKeepsInv
<1> QED BY <1>2, <1>4, <1>5, <1>6 DEF IfGoto

LEMMA ConcatTyped ==
  ASSUME NEW S, NEW s \in Seq(S), NEW t \in Seq(S)
  PROVE  s \o t \in Seq(S) /\ Len(s \o t) = Len(s) + Len(t)
OBVIOUS

\* The words `exec_call` saves are words, whatever was cast.
LEMMA SavedWordsTyped ==
  ASSUME TypeOK
  PROVE  SavedWords \in Seq(Word) /\ Len(SavedWords) = 8
<1>1. \A n \in Nat : n % WordMod \in Word
  BY WordModAssumption DEF Word
<1>2. /\ ei[fi] \in Nat /\ fi \in Nat
      /\ reg.lcl \in Nat /\ reg.lcl_len \in Nat
      /\ reg.arg \in Nat /\ reg.arg_len \in Nat
      /\ ptr.this \in Nat /\ ptr.that \in Nat
  BY SmallWords DEF TypeOK, Files
<1>3. Registers \in Seq(Word) /\ Len(Registers) = 6
  BY <1>1, <1>2 DEF Registers
<1> DEFINE address == << ei[fi] % WordMod, fi % WordMod >>
<1>4. address \in Seq(Word) /\ Len(address) = 2
  BY <1>1, <1>2
<1>5. SavedWords = address \o Registers
  BY DEF SavedWords
<1> HIDE DEF address
<1>6. /\ address \o Registers \in Seq(Word)
      /\ Len(address \o Registers) = Len(address) + Len(Registers)
  BY <1>3, <1>4, ConcatTyped, Zenon
<1> QED BY <1>3, <1>4, <1>5, <1>6

LEMMA LocalsTyped ==
  ASSUME NEW nlocals \in Nat
  PROVE  Locals(nlocals) \in Seq(Word) /\ Len(Locals(nlocals)) = nlocals
<1>1. Locals(nlocals) \in [1 .. nlocals -> Word]
  BY SmallWords DEF Locals
<1>2. Locals(nlocals) \in Seq(Word)
  BY <1>1
<1> QED BY <1>1, <1>2

LEMMA CallInv == ASSUME Inv, Call PROVE Inv'
<1>1. /\ TypeOK /\ IsStack(stack) /\ Backed(stack) /\ stack.sp \in Nat
      /\ Cur.nargs \in Nat
  BY CurTyped, Running DEF Call, Inv
<1>2. CASE Stop("nargs", stack)
  BY <1>1, <1>2, StopKeepsInv, StatusFacts
<1>3. CASE JumpError(Func(Cur.ident), stack)
  BY <1>1, <1>3, JumpErrorKeepsInv
<1>4. ASSUME NEW k \in Files, NEW nlocals,
             nlocals = FileOf(k).st[Func(Cur.ident)].nlocals,
             Cur.nargs <= stack.sp,
             JumpTo(Func(Cur.ident), k),
             stack' = PushAll(stack, SavedWords \o Locals(nlocals)),
             reg' = [arg |-> stack.sp - Cur.nargs, arg_len |-> Cur.nargs,
                     lcl |-> stack.sp + 8, lcl_len |-> nlocals],
             KeepMemory
      PROVE  Inv'
  <2>1. /\ prog' = prog /\ fi' \in Files' /\ ei' \in [Files' -> Nat]
        /\ status' = status
        /\ FileOf(k).st[Func(Cur.ident)] \in SymVal
    BY <1>1, <1>4, JumpTyped
  <2>2. nlocals \in Nat
    BY <1>4, <2>1, SmallWords DEF SymVal
  <2>3. SavedWords \o Locals(nlocals) \in Seq(Word)
    BY <1>1, <2>2, SavedWordsTyped, LocalsTyped
  <2>4. IsStack(stack') /\ Backed(stack')
    BY <1>1, <1>4, <2>3, PushAllFacts
  <2>5. reg' \in [arg : Nat, arg_len : Nat, lcl : Nat, lcl_len : Nat]
    BY <1>1, <1>4, <2>2
  <2>6. MemoryTyped'
    BY <1>1, <1>4, <2>1, KeepsMemoryTyped
  <2> QED BY <2>1, <2>4, <2>5, <2>6, MoveKeepsInv
<1> QED BY <1>2, <1>3, <1>4 DEF Call

\* The stack `return` leaves: the argument's cell is in what `spop` left.
LEMMA ReturnedStackTyped ==
  ASSUME Inv, status = "run", Poppable(stack), FrameReadable
  PROVE  /\ IsStack(ReturnedStack) /\ Backed(ReturnedStack)
         /\ ReturnedStack.len = Pop(stack).len
<1> DEFINE T == Poke(Pop(stack), reg.arg, Top(stack))
<1>1. IsStack(Pop(stack)) /\ Backed(Pop(stack)) /\ Top(stack) \in Word
  BY Running, PopRunning
<1>2. reg.arg \in 0 .. Pop(stack).len - 1
  BY <1>1 DEF FrameReadable, IsStack
<1>3. IsStack(T) /\ Backed(T) /\ T.len = Pop(stack).len
  BY <1>1, <1>2, PokeFacts
<1>4. ReturnedStack = [T EXCEPT !.sp = reg.arg + 1]
  BY DEF ReturnedStack
<1>5. reg.arg + 1 \in Nat /\ reg.arg + 1 <= T.len
  BY <1>1, <1>2, <1>3 DEF IsStack
<1> HIDE DEF T
<1>6. ReturnedStack = [ops |-> T.ops, sp |-> reg.arg + 1, len |-> T.len]
  BY <1>3, <1>4 DEF IsStack
<1>7. /\ ReturnedStack.ops = T.ops /\ ReturnedStack.sp = reg.arg + 1
      /\ ReturnedStack.len = T.len
      /\ ReturnedStack = [ops |-> ReturnedStack.ops, sp |-> ReturnedStack.sp,
                          len |-> ReturnedStack.len]
  BY <1>6
<1> QED BY <1>3, <1>5, <1>7 DEF IsStack, Backed

LEMMA RestoredRegTyped ==
  ASSUME NEW ops, \A i \in 1 .. 6 : ops[Frame - i] \in Nat
  PROVE  RestoredReg(ops) \in [arg : Nat, arg_len : Nat, lcl : Nat, lcl_len : Nat]
<1>1. /\ ops[Frame - 3] \in Nat /\ ops[Frame - 4] \in Nat
      /\ ops[Frame - 5] \in Nat /\ ops[Frame - 6] \in Nat
  OBVIOUS
<1>2. \A a, b, c, d \in Nat :
        [arg_len |-> a, arg |-> b, lcl_len |-> c, lcl |-> d]
          \in [arg : Nat, arg_len : Nat, lcl : Nat, lcl_len : Nat]
  OBVIOUS
<1> QED BY <1>1, <1>2 DEF RestoredReg

LEMMA RetInv == ASSUME Inv, Ret PROVE Inv'
<1>1. /\ TypeOK /\ status = "run" /\ IsStack(stack) /\ Backed(stack)
      /\ stack.len \in Nat /\ DOMAIN stack.ops = 0 .. stack.len - 1
      /\ \A i \in 0 .. stack.len - 1 : stack.ops[i] \in Word
  BY CurTyped, Running DEF Ret, Inv
<1>2. CASE Stop("oob_stack", stack)
  BY <1>1, <1>2, StopKeepsInv, StatusFacts
<1>3. CASE Underflow(stack)
  BY <1>1, <1>3, UnderflowKeepsInv
<1>4. CASE Poppable(stack) /\ Stop("oob_stack", Pop(stack))
  <2>1. IsStack(Pop(stack)) /\ Backed(Pop(stack))
    BY <1>1, <1>4, PopRunning
  <2> QED BY <1>4, <2>1, StopKeepsInv, StatusFacts
<1>5. CASE Poppable(stack) /\ FrameReadable /\ Stop("oob_files", ReturnedStack)
  <2>1. IsStack(ReturnedStack) /\ Backed(ReturnedStack)
    BY <1>1, <1>5, ReturnedStackTyped
  <2> QED BY <1>5, <2>1, StopKeepsInv, StatusFacts
<1>6. ASSUME ReturnAddressReadable, Poppable(stack), FrameReadable,
             NEW ret_ei, ret_ei = stack.ops[Frame - 8],
             NEW ret_fi, ret_fi = stack.ops[Frame - 7],
             ret_fi \in Files,
             stack' = ReturnedStack,
             reg' = RestoredReg(ReturnedStack.ops),
             ptr' = RestoredPtr(ReturnedStack.ops),
             fi' = ret_fi,
             ei' = [ei EXCEPT ![ret_fi] = Resume(ret_ei)],
             UNCHANGED <<prog, heap, mem, status>>
      PROVE  Inv'
  <2>1. /\ IsStack(ReturnedStack) /\ Backed(ReturnedStack)
        /\ ReturnedStack.len = Pop(stack).len
    BY <1>1, <1>6, ReturnedStackTyped
  <2>2. IsStack(Pop(stack))
    BY <1>1, <1>6, PopRunning
  <2>3. Frame \in Nat
    BY <1>1, WordModAssumption DEF Frame, TypeOK
  <2>4. Frame - 8 >= 0 /\ Frame - 1 < ReturnedStack.len
    BY <1>1, <1>6, <2>1, <2>2, <2>3, SMTT(60)
       DEF ReturnAddressReadable, FrameReadable, IsStack
  <2>5. \A i \in 1 .. 6 : ReturnedStack.ops[Frame - i] \in Word
    <3>1. PICK S, f : S = ReturnedStack /\ f = Frame
      OBVIOUS
    <3>2. /\ S.len \in Nat /\ S.ops \in [0 .. S.len - 1 -> Word]
          /\ f \in Nat /\ f >= 8 /\ f - 1 < S.len
      BY <2>1, <2>3, <2>4, <3>1 DEF IsStack
    <3>3. \A i \in 1 .. 6 : f - i \in 0 .. S.len - 1
      BY <3>2
    <3> QED BY <3>1, <3>2, <3>3
  <2>6. ret_ei \in Nat
    BY <1>1, <1>6, SmallWords DEF ReturnAddressReadable
  <2>7. reg' \in [arg : Nat, arg_len : Nat, lcl : Nat, lcl_len : Nat]
    <3>1. \A i \in 1 .. 6 : ReturnedStack.ops[Frame - i] \in Nat
      BY <2>5, SmallWords
    <3> QED BY <1>6, <3>1, RestoredRegTyped
  <2>8. ptr' \in [this : Word, that : Word]
    BY <1>6, <2>5 DEF RestoredPtr
  <2>9. fi' \in Files' /\ ei' \in [Files' -> Nat]
    <3>1. Resume(ret_ei) \in Nat
      BY <2>6 DEF Resume
    <3>2. Files' = Files
      BY <1>6 DEF Files
    <3>3. ei' \in [Files -> Nat]
      BY <1>1, <1>6, <3>1 DEF TypeOK
    <3> QED BY <1>6, <3>2, <3>3
  <2>10. MemoryTyped'
    BY <1>1, <1>6, <2>8 DEF MemoryTyped, TypeOK, Files
  <2> QED BY <1>6, <2>1, <2>7, <2>9, <2>10, MoveKeepsInv
<1> QED BY <1>2, <1>3, <1>4, <1>5, <1>6 DEF Ret

-----------------------------------------------------------------------------

LEMMA DiscardInv == ASSUME Inv, Discard PROVE Inv'
<1>1. TypeOK /\ status = "run" /\ IsStack(stack) /\ Backed(stack)
  BY CurTyped, Running DEF Discard, Inv
<1>2. CASE Underflow(stack)
  BY <1>1, <1>2, UnderflowKeepsInv
<1>3. CASE Poppable(stack) /\ Advance(Pop(stack)) /\ KeepMemory
  <2>1. IsStack(Pop(stack)) /\ Backed(Pop(stack))
    BY <1>1, <1>3, PopRunning
  <2>2. MemoryTyped'
    BY <1>1, <1>3, KeepsMemoryTyped DEF Advance
  <2> QED BY <1>3, <2>1, <2>2, AdvanceKeepsInv
<1> QED BY <1>2, <1>3 DEF Discard

LEMMA PrintStrInv == ASSUME Inv, PrintStr PROVE Inv'
<1> DEFINE rest == Pop(Pop(stack))
<1>1. TypeOK /\ status = "run"
  BY CurTyped DEF PrintStr, Inv
<1>2. CASE UnderflowOfTwo
  BY <1>1, <1>2, UnderflowOfTwoInv
<1>3. CASE PoppableTwice /\ Advance(rest) /\ KeepMemory
  <2>1. IsStack(rest) /\ Backed(rest)
    BY <1>1, <1>3, PopTwice
  <2>2. MemoryTyped'
    BY <1>1, <1>3, KeepsMemoryTyped DEF Advance
  <2> HIDE DEF rest
  <2> QED BY <1>3, <2>1, <2>2, AdvanceKeepsInv
<1>4. CASE PoppableTwice /\ Stop("oob_heap", rest)
  <2>1. IsStack(rest) /\ Backed(rest)
    BY <1>1, <1>4, PopTwice
  <2> HIDE DEF rest
  <2> QED BY <1>4, <2>1, StopKeepsInv, StatusFacts
<1> QED BY <1>2, <1>3, <1>4 DEF PrintStr

LEMMA ReadCharInv == ASSUME Inv, ReadChar PROVE Inv'
<1>1. TypeOK /\ IsStack(stack) /\ Backed(stack)
  BY CurTyped, Running DEF ReadChar, Inv
<1>2. PICK ch \in InputChars : Advance(Push(stack, ch)) /\ KeepMemory
  BY DEF ReadChar, TakeChar
<1>3. ch \in Word
  BY InputAssumption
<1>4. MemoryTyped'
  BY <1>1, <1>2, KeepsMemoryTyped DEF Advance
<1> QED BY <1>1, <1>2, <1>3, <1>4, PushRunning, AdvanceKeepsInv

LEMMA ReadNumInv == ASSUME Inv, ReadNum PROVE Inv'
<1>1. TypeOK /\ IsStack(stack) /\ Backed(stack)
  BY CurTyped, Running DEF ReadNum, Inv
<1>2. CASE \E how \in {"read_io", "skip_line", "skip_eof", "read_num_overflow"} :
             Stop(how, stack)
  BY <1>1, <1>2, StopKeepsInv, StatusFacts
<1>3. ASSUME NEW num \in Word, Advance(Push(stack, num)), KeepMemory
      PROVE  Inv'
  <2>1. MemoryTyped'
    BY <1>1, <1>3, KeepsMemoryTyped DEF Advance
  <2> QED BY <1>1, <1>3, <2>1, PushRunning, AdvanceKeepsInv
<1> QED BY <1>2, <1>3 DEF ReadNum, TakeNum

LEMMA SkipInv == ASSUME Inv, Skip PROVE Inv'
<1>1. status \notin Errors
  BY DEF Skip, SkipLine, SkipEof, Errors
<1>2. IsStack(stack) /\ Backed(stack)
  BY <1>1 DEF Inv, TypeOK, StackBacked, Errors
<1> QED BY <1>2, StopKeepsInv, StatusFacts DEF Skip, SkipLine, SkipEof

LEMMA ReadStrInv == ASSUME Inv, ReadStr PROVE Inv'
<1>1. TypeOK /\ status = "run" /\ IsStack(stack) /\ Backed(stack)
  BY CurTyped, Running DEF ReadStr, Inv
<1>2. ASSUME Poppable(stack)
      PROVE  IsStack(Pop(stack)) /\ Backed(Pop(stack)) /\ Top(stack) \in Nat
  BY <1>1, <1>2, PopRunning, SmallWords
<1>3. CASE Underflow(stack)
  BY <1>1, <1>3, UnderflowKeepsInv
<1>4. CASE /\ Poppable(stack)
           /\ \E how \in {"read_io", "heap_addr_overflow"} : Stop(how, Pop(stack))
  BY <1>2, <1>4, StopKeepsInv, StatusFacts
<1>5. ASSUME Poppable(stack), NEW line \in InputLines,
             NEW addr, addr = Top(stack), NEW nread, nread = Len(line) - 1,
             heap' = [a \in DOMAIN heap |->
                        IF a \in addr .. addr + nread - 1
                        THEN line[a - addr + 1] ELSE heap[a]],
             Advance(Push(Pop(stack), nread % WordMod)),
             UNCHANGED <<ptr, mem>>
      PROVE  Inv'
  <2>1. line \in Seq(Word) /\ addr \in Nat /\ nread \in Nat
    BY <1>2, <1>5, InputAssumption
  <2>2. nread % WordMod \in Word
    BY <2>1, WordModAssumption DEF Word
  <2>3. \A a \in addr .. addr + nread - 1 : line[a - addr + 1] \in Word
    BY <1>5, <2>1
  <2>4. heap' \in [0 .. HeapSize - 1 -> Word]
    BY <1>1, <1>5, <2>1, <2>3 DEF TypeOK
  <2>5. MemoryTyped'
    BY <1>1, <1>5, <2>4 DEF MemoryTyped, TypeOK, Advance, Files
  <2> QED BY <1>2, <1>5, <2>2, <2>5, PushRunning, AdvanceKeepsInv
<1> QED BY <1>3, <1>4, <1>5 DEF ReadStr, TakeLine

LEMMA HaltInv == ASSUME Inv, Halt PROVE Inv'
  BY Running, StopKeepsInv, StatusFacts DEF Halt

-----------------------------------------------------------------------------
(* The theorems. *)

LEMMA InitInv == ASSUME Init PROVE Inv
<1>1. IsProgram(prog)
  BY ProgramsAssumption DEF Init
<1>2. Len(prog) \in Nat
  BY <1>1 DEF IsProgram
<1>3. fi \in Files /\ ei \in [Files -> Nat]
  BY <1>2 DEF Init, Startup, Files
<1>4. IsStack(stack) /\ Backed(stack)
  BY NewStackFacts DEF Init
<1>5. /\ reg \in [arg : Nat, arg_len : Nat, lcl : Nat, lcl_len : Nat]
      /\ ptr \in [this : Word, that : Word]
      /\ heap \in [0 .. HeapSize - 1 -> Word]
  BY SmallWords DEF Init
<1>6. mem \in [Files -> [static : [0 .. StatSize - 1 -> Word],
                         tmp    : [0 .. TempSize - 1 -> Word]]]
  BY SmallWords DEF Init
<1>7. status \in Statuses
  BY DEF Init, Statuses
<1> QED BY <1>1, <1>3, <1>4, <1>5, <1>6, <1>7 DEF Inv, TypeOK, StackBacked

LEMMA NextInv == ASSUME Inv, [Next]_vars PROVE Inv'
<1>1. CASE MemoryAccess
  BY <1>1, PushFrameInv, PopFrameInv, PushFileSegInv, PopFileSegInv,
     PushConstInv, PushHeapInv, PopHeapInv, PushPointerInv, PopPointerInv
     DEF MemoryAccess
<1>2. CASE Unary \/ Binary
  BY <1>2, UnaryInv, BinaryInv
<1>3. CASE Goto \/ IfGoto \/ Call \/ Ret
  BY <1>3, GotoInv, IfGotoInv, CallInv, RetInv
<1>4. CASE Builtin
  BY <1>4, DiscardInv, PrintStrInv, ReadCharInv, ReadNumInv, ReadStrInv
     DEF Builtin
<1>5. CASE Skip \/ Halt
  BY <1>5, SkipInv, HaltInv
<1>6. CASE UNCHANGED vars
  BY <1>6 DEF vars, Inv, TypeOK, StackBacked, Files
<1> QED BY <1>1, <1>2, <1>3, <1>4, <1>5, <1>6 DEF Next, Local

\* Type correctness: in every reachable state of every program, `fi` is one
\* of the program's files, so that execution never resumes outside it, and
\* whatever any instruction computes, reads or restores is a 16-bit word.
THEOREM TypeCorrect == Spec => []TypeOK
<1>1. Init => Inv
  BY InitInv
<1>2. Inv /\ [Next]_vars => Inv'
  BY NextInv
<1>3. Inv => TypeOK
  BY DEF Inv
<1> QED BY <1>1, <1>2, <1>3, PTL DEF Spec

\* Memory safety of the stack: whatever a program pushes, pops, calls and
\* returns from, the cells in use lie in the blocks `spush` and `spop` have
\* left allocated, unless an addition or a subtraction failed.
THEOREM StackSafe == Spec => []StackBacked
<1>1. Init => Inv
  BY InitInv
<1>2. Inv /\ [Next]_vars => Inv'
  BY NextInv
<1>3. Inv => StackBacked
  BY DEF Inv
<1> QED BY <1>1, <1>2, <1>3, PTL DEF Spec
=============================================================================
