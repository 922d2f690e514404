-------------------------------- MODULE Exec --------------------------------
(***************************************************************************)
(* The executor of src/exec.c over the program built by src/prog.c:        *)
(* one action per instruction, the whole handler and the loop's increment  *)
(* of `ei` included.  An instruction that reports an error, fails an       *)
(* assertion or leaves the memory it owns ends the run with a status that  *)
(* says so.  What is printed is left out; what is read is chosen.          *)
(***************************************************************************)
EXTENDS VMStack, Insts

CONSTANTS
  HeapSize, StatSize, TempSize,  \* MEM_HEAP_SIZE, MEM_STAT_SIZE, MEM_TEMP_SIZE
  Programs,                      \* the compiled programs considered
  BitAnd(_, _), BitOr(_, _),     \* C's & and | on words
  InputNums, InputChars, InputLines  \* what stdin may hold at a read

VARIABLES
  prog,    \* the user's files, in command-line order
  fi,      \* index of the active file; 0 is the system file
  ei,      \* index of the next instruction, one per file
  stack,   \* ops, sp and len
  reg,     \* arg, arg_len, lcl and lcl_len
  heap,    \* heap memory
  ptr,     \* heap._this and heap.that
  mem,     \* static and temp memory, one of each per file
  status   \* "run", or how the run ended

vars == <<prog, fi, ei, stack, reg, heap, ptr, mem, status>>

-----------------------------------------------------------------------------
ASSUME WordBitsAssumption == WordMod > 22  \* the system file is addressable
ASSUME SysInitAssumption == "Sys.init" \in Idents
ASSUME SizesAssumption ==
  /\ HeapSize \in Nat /\ StatSize \in Nat /\ TempSize \in Nat
  /\ HeapSize < WordMod
ASSUME BitwiseAssumption ==
  \A x, y \in Word : BitAnd(x, y) \in Word /\ BitOr(x, y) \in Word
ASSUME ProgramsAssumption == \A p \in Programs : IsProgram(p)
ASSUME InputAssumption ==
  /\ InputNums \subseteq Nat
  /\ InputChars \subseteq Word
  /\ \A line \in InputLines : line \in Seq(Word) /\ line # <<>>

\* `init_system_file`: the builtins, then the startup code at 20.
SystemInsts ==
  << PushI("ARG", 0), Plain("PRINT_CHAR"), PushI("CONST", 0), Plain("RET"),
     PushI("ARG", 0), Plain("PRINT_NUM"), PushI("CONST", 0), Plain("RET"),
     PushI("ARG", 0), PushI("ARG", 1), Plain("PRINT_STR"),
       PushI("CONST", 0), Plain("RET"),
     Plain("READ_CHAR"), Plain("RET"),
     Plain("READ_NUM"), Plain("RET"),
     PushI("ARG", 0), Plain("READ_STR"), Plain("RET"),
     PushI("CONST", 0), CallI("Sys.init", 1) >>

SystemNames == {"Sys.print_char", "Sys.print_num", "Sys.print_str",
                "Sys.read_char", "Sys.read_num", "Sys.read_str"}
SystemSymbol(ident) ==
  CASE ident = "Sys.print_char" -> At(0, 0)
    [] ident = "Sys.print_num"  -> At(4, 0)
    [] ident = "Sys.print_str"  -> At(8, 0)
    [] ident = "Sys.read_char"  -> At(13, 0)
    [] ident = "Sys.read_num"   -> At(15, 0)
    [] ident = "Sys.read_str"   -> At(17, 1)

SystemFile ==
  [insts |-> SystemInsts,
   st |-> [key \in {Func(ident) : ident \in SystemNames} |-> SystemSymbol(key[2])]]
Startup == 20

Files == 0 .. Len(prog)
FileOf(k) == IF k = 0 THEN SystemFile ELSE prog[k]
Active == FileOf(fi)
Cur == Active.insts[ei[fi] + 1]

-----------------------------------------------------------------------------
(* How a handler ends: by going on to the next instruction, or with an     *)
(* error.  The stack an error leaves behind is part of what the tests read. *)

Executing(op) ==
  /\ status = "run"
  /\ ei[fi] < Len(Active.insts)
  /\ Cur.op = op

Floor == reg.lcl + reg.lcl_len

\* End the run, with the stack S.
Stop(how, S) ==
  /\ status' = how
  /\ stack' = S
  /\ UNCHANGED <<prog, fi, ei, reg, heap, ptr, mem>>

\* Go on to the next instruction of the active file, with the stack S.
Advance(S) ==
  /\ stack' = S
  /\ ei' = [ei EXCEPT ![fi] = @ + 1]
  /\ UNCHANGED <<prog, fi, reg, status>>

KeepMemory == UNCHANGED <<heap, ptr, mem>>

\* Mutant: the only floor is the bottom of the stack.
Poppable_NoFloor(S) == CanPop(S, 0)

Poppable(S) == CanPop(S, Floor)

\* A `spop` of the stack S that finds nothing above the floor.
Underflow(S) == ~Poppable(S) /\ Stop("stack_underflow", S)

\* Two `spop`s of which one finds nothing: the first may have succeeded.
UnderflowOfTwo ==
  Underflow(stack) \/ (Poppable(stack) /\ Underflow(Pop(stack)))
PoppableTwice == Poppable(stack) /\ Poppable(Pop(stack))

-----------------------------------------------------------------------------
(* `exec_push` and `exec_pop`, one action per group of segments. *)

SegBase == IF Cur.seg = "ARG" THEN reg.arg ELSE reg.lcl
SegLen == IF Cur.seg = "ARG" THEN reg.arg_len ELSE reg.lcl_len
\* Mutant: the address of a segment entry is one too low.
SegAddr_OneBelow ==
  IF Cur.offset + SegBase = 0 THEN stack.len ELSE Cur.offset + SegBase - 1
SegAddr == Cur.offset + SegBase
\* Mutant: only the stack pointer is checked, not the segment's length.
InSegment_IgnoresLength == SegAddr < stack.sp
InSegment == Cur.offset < SegLen /\ SegAddr < stack.sp

SegmentError ==
  \/ Cur.offset >= SegLen /\ Stop("seg_overflow", stack)
  \/ Cur.offset < SegLen /\ SegAddr >= stack.sp
       /\ Stop("stack_addr_overflow", stack)

PushFrame ==
  /\ Executing("PUSH") /\ Cur.seg \in {"ARG", "LOC"}
  /\ \/ SegmentError
     \/ InSegment /\ Advance(Push(stack, stack.ops[SegAddr])) /\ KeepMemory

PopFrame ==
  /\ Executing("POP") /\ Cur.seg \in {"ARG", "LOC"}
  /\ \/ SegmentError
     \/ InSegment /\ Underflow(stack)
     \/ /\ InSegment /\ Poppable(stack)
        /\ Advance(Poke(Pop(stack), SegAddr, Top(stack)))
        /\ KeepMemory

FileSeg == IF Cur.seg = "STAT" THEN "static" ELSE "tmp"
FileSegSize == IF Cur.seg = "STAT" THEN StatSize ELSE TempSize
InFileSeg == Cur.offset < FileSegSize
FileSegError == ~InFileSeg /\ Stop("seg_overflow", stack)

PushFileSeg ==
  /\ Executing("PUSH") /\ Cur.seg \in {"STAT", "TMP"}
  /\ \/ FileSegError
     \/ /\ InFileSeg
        /\ Advance(Push(stack, mem[fi][FileSeg][Cur.offset])) /\ KeepMemory

PopFileSeg ==
  /\ Executing("POP") /\ Cur.seg \in {"STAT", "TMP"}
  /\ \/ FileSegError
     \/ InFileSeg /\ Underflow(stack)
     \/ /\ InFileSeg /\ Poppable(stack)
        /\ Advance(Pop(stack))
        /\ mem' = [mem EXCEPT ![fi][FileSeg][Cur.offset] = Top(stack)]
        /\ UNCHANGED <<heap, ptr>>

PushConst ==
  /\ Executing("PUSH") /\ Cur.seg = "CONST"
  /\ Advance(Push(stack, Cur.offset)) /\ KeepMemory

\* Both bounds are inclusive, so the address HeapSize passes the check.
HeapAddr == Cur.offset + (IF Cur.seg = "THIS" THEN ptr.this ELSE ptr.that)
HeapError == HeapAddr > HeapSize /\ Stop("heap_addr_overflow", stack)

PushHeap ==
  /\ Executing("PUSH") /\ Cur.seg \in {"THIS", "THAT"}
  /\ \/ HeapError
     \/ HeapAddr = HeapSize /\ Stop("oob_heap", stack)
     \/ /\ HeapAddr < HeapSize
        /\ Advance(Push(stack, heap[HeapAddr])) /\ KeepMemory

PopHeap ==
  /\ Executing("POP") /\ Cur.seg \in {"THIS", "THAT"}
  /\ \/ HeapError
     \/ HeapAddr <= HeapSize /\ Underflow(stack)
     \/ HeapAddr = HeapSize /\ Poppable(stack) /\ Stop("oob_heap", Pop(stack))
     \/ /\ HeapAddr < HeapSize /\ Poppable(stack)
        /\ Advance(Pop(stack))
        /\ heap' = [heap EXCEPT ![HeapAddr] = Top(stack)]
        /\ UNCHANGED <<ptr, mem>>

Pointer == IF Cur.offset = 0 THEN "this" ELSE "that"
PointerError == Cur.offset > 1 /\ Stop("pointer_segment", stack)

\* `push pointer` asserts that the pointer is a heap address.
PushPointer ==
  /\ Executing("PUSH") /\ Cur.seg = "PTR"
  /\ \/ PointerError
     \/ Cur.offset <= 1 /\ ptr[Pointer] > HeapSize /\ Stop("abort", stack)
     \/ /\ Cur.offset <= 1 /\ ptr[Pointer] <= HeapSize
        /\ Advance(Push(stack, ptr[Pointer])) /\ KeepMemory

PopPointer ==
  /\ Executing("POP") /\ Cur.seg = "PTR"
  /\ \/ PointerError
     \/ Cur.offset <= 1 /\ Underflow(stack)
     \/ /\ Cur.offset <= 1 /\ Poppable(stack)
        /\ Advance(Pop(stack))
        /\ ptr' = [ptr EXCEPT ![Pointer] = Top(stack)]
        /\ UNCHANGED <<heap, mem>>

-----------------------------------------------------------------------------
(* Arithmetic and logic.  A binary operation that underflows at its second *)
(* operand has already consumed the first.                                 *)

TRUEWORD == WordMod - 1
Truth(b) == IF b THEN TRUEWORD ELSE 0

\* Mutant: negation in a type wider than Word.
UnaryValue_Wide(op, y) ==
  IF op = "NEG" THEN WordMod - y ELSE WordMod - 1 - y

UnaryValue(op, y) ==
  IF op = "NEG" THEN (WordMod - y) % WordMod ELSE WordMod - 1 - y

Unary ==
  \E op \in UnaryOps :
    /\ Executing(op)
    /\ \/ Underflow(stack)
       \/ /\ Poppable(stack)
          /\ Advance(Push(Pop(stack), UnaryValue(op, Top(stack))))
          /\ KeepMemory

BinaryValue(op, x, y) ==
  CASE op = "ADD" -> x + y
    [] op = "SUB" -> x - y
    [] op = "AND" -> BitAnd(x, y)
    [] op = "OR"  -> BitOr(x, y)
    [] op = "EQ"  -> Truth(x = y)
    [] op = "LT"  -> Truth(x < y)
    [] op = "GT"  -> Truth(x > y)

ArithmeticError(op) == IF op = "ADD" THEN "add_overflow" ELSE "sub_underflow"

\* Mutant: only one operand is put back.
Unpop_One(S) == [S EXCEPT !.sp = @ + 1]

\* Undo two `spop`s by `sp += 2`: a block they gave back stays given back.
Unpop(S) == [S EXCEPT !.sp = @ + 2]

Binary ==
  \E op \in BinaryOps :
    /\ Executing(op)
    /\ \/ UnderflowOfTwo
       \/ /\ PoppableTwice
          /\ LET rest == Pop(Pop(stack))
                 val  == BinaryValue(op, Top(Pop(stack)), Top(stack))
             IN  \/ val \in Word /\ Advance(Push(rest, val)) /\ KeepMemory
                 \/ val \notin Word /\ Stop(ArithmeticError(op), Unpop(rest))

-----------------------------------------------------------------------------
(* Control flow. *)

\* The files `jump_to` may jump into: the active file if it defines the
\* symbol, otherwise every other file that does.
Targets(key) ==
  LET defs == {k \in Files : key \in DOMAIN FileOf(k).st}
  IN  IF fi \in defs THEN {fi} ELSE defs

\* `jump_to` succeeds only if one file is left.
JumpError(key, S) ==
  \/ Targets(key) = {} /\ Stop("ctrl_flow", S)
  \/ (\E a, b \in Targets(key) : a # b) /\ Stop("def", S)

JumpTo(key, k) ==
  /\ Targets(key) = {k}
  /\ fi' = k
  /\ ei' = [ei EXCEPT ![k] = FileOf(k).st[key].inst_addr]
  /\ UNCHANGED <<prog, status>>

Goto ==
  /\ Executing("GOTO")
  /\ \/ JumpError(Label(Cur.ident), stack)
     \/ \E k \in Files : JumpTo(Label(Cur.ident), k)
          /\ UNCHANGED <<stack, reg>> /\ KeepMemory

\* `prog->stack.sp ++`
PutBack(S) == [S EXCEPT !.sp = @ + 1]

\* On a jump error the condition is put back by `sp ++`.
IfGoto ==
  /\ Executing("IF_GOTO")
  /\ \/ Underflow(stack)
     \/ Poppable(stack) /\ Top(stack) = 0 /\ Advance(Pop(stack)) /\ KeepMemory
     \/ /\ Poppable(stack) /\ Top(stack) # 0
        /\ \/ JumpError(Label(Cur.ident), PutBack(Pop(stack)))
           \/ \E k \in Files : JumpTo(Label(Cur.ident), k)
                /\ stack' = Pop(stack) /\ UNCHANGED reg /\ KeepMemory

Registers ==
  << reg.lcl % WordMod, reg.lcl_len % WordMod,
     reg.arg % WordMod, reg.arg_len % WordMod,
     ptr.this % WordMod, ptr.that % WordMod >>

\* Mutant: the return address is taken after `jump_to` has moved on.
SavedWords_AfterJump ==
  << ei'[fi'] % WordMod, fi' % WordMod >> \o Registers

\* Mutant: the two words of the return address are pushed in the wrong order.
SavedWords_Swapped == << fi % WordMod, ei[fi] % WordMod >> \o Registers

\* What `exec_call` saves of the caller, each cast to a Word.
SavedWords ==
  << ei[fi] % WordMod, fi % WordMod >> \o Registers

\* Mutant: room is made for the locals and nothing is written there.
Locals_NotCleared(nlocals) == [i \in 1 .. nlocals |-> Fresh]

\* The callee's locals start at zero.
Locals(nlocals) == [i \in 1 .. nlocals |-> 0]

\* nargs is compared with the whole stack, not with the caller's part of it.
Call ==
  /\ Executing("CALL")
  /\ \/ Cur.nargs > stack.sp /\ Stop("nargs", stack)
     \/ Cur.nargs <= stack.sp /\ JumpError(Func(Cur.ident), stack)
     \/ /\ Cur.nargs <= stack.sp
        /\ \E k \in Files :
             LET nlocals == FileOf(k).st[Func(Cur.ident)].nlocals
             IN  /\ JumpTo(Func(Cur.ident), k)
                 /\ stack' = PushAll(stack, SavedWords \o Locals(nlocals))
                 /\ reg' = [arg |-> stack.sp - Cur.nargs, arg_len |-> Cur.nargs,
                            lcl |-> stack.sp + 8, lcl_len |-> nlocals]
        /\ KeepMemory

\* `Addr frame = stack->lcl` keeps 16 bits.
Frame == reg.lcl % WordMod

\* Mutant: the arguments stay on the caller's stack.
ReturnedStack_KeepsArguments ==
  [Poke(Pop(stack), reg.arg, Top(stack)) EXCEPT !.sp = reg.arg + reg.arg_len + 1]

\* The return value replaces the arguments.
ReturnedStack ==
  [Poke(Pop(stack), reg.arg, Top(stack)) EXCEPT !.sp = reg.arg + 1]

\* Mutant: LCL and ARG come back exchanged.
RestoredReg_Swapped(ops) ==
  [arg_len |-> ops[Frame - 3], lcl |-> ops[Frame - 4],
   lcl_len |-> ops[Frame - 5], arg |-> ops[Frame - 6]]

RestoredReg(ops) ==
  [arg_len |-> ops[Frame - 3], arg |-> ops[Frame - 4],
   lcl_len |-> ops[Frame - 5], lcl |-> ops[Frame - 6]]

RestoredPtr(ops) == [that |-> ops[Frame - 1], this |-> ops[Frame - 2]]

\* The accesses of `exec_ret` that must lie in the allocation: the return
\* address before the pop, the argument and the rest of the frame after it.
ReturnAddressReadable == {Frame - 8, Frame - 7} \subseteq DOMAIN stack.ops
FrameReadable == {Frame - 1, reg.arg} \subseteq DOMAIN Pop(stack).ops

\* Mutant: the index is stored as `exec_goto` and `exec_call` store it, one
\* less, so that the loop's increment leads back to the call.
Resume_AtCall(ret_ei) == ret_ei

\* "Don't subtract here": the loop's increment leads past the call.
Resume(ret_ei) == ret_ei + 1

\* The return address is read before the return value is written (with no
\* arguments it is written over it), the registers after.
Ret ==
  /\ Executing("RET")
  /\ \/ ~ReturnAddressReadable /\ Stop("oob_stack", stack)
     \/ ReturnAddressReadable /\ Underflow(stack)
     \/ /\ ReturnAddressReadable /\ Poppable(stack)
        /\ ~FrameReadable /\ Stop("oob_stack", Pop(stack))
     \/ /\ ReturnAddressReadable /\ Poppable(stack) /\ FrameReadable
        /\ LET ret_ei == stack.ops[Frame - 8]
               ret_fi == stack.ops[Frame - 7]
           IN  \/ ret_fi \notin Files /\ Stop("oob_files", ReturnedStack)
               \/ /\ ret_fi \in Files
                  /\ stack' = ReturnedStack
                  /\ reg' = RestoredReg(ReturnedStack.ops)
                  /\ ptr' = RestoredPtr(ReturnedStack.ops)
                  /\ fi' = ret_fi
                  /\ ei' = [ei EXCEPT ![ret_fi] = Resume(ret_ei)]
                  /\ UNCHANGED <<prog, heap, mem, status>>

-----------------------------------------------------------------------------
(* The builtins' instructions. *)

\* `pop constant`, `Sys.print_char` and `Sys.print_num` consume one value.
Discard ==
  /\ \/ Executing("POP") /\ Cur.seg = "CONST"
     \/ Executing("PRINT_CHAR")
     \/ Executing("PRINT_NUM")
  /\ \/ Underflow(stack)
     \/ Poppable(stack) /\ Advance(Pop(stack)) /\ KeepMemory

\* The heap cells `Sys.print_str` reads; the address is cast to an Addr.
StrCells(start, nchars) == {(start + i) % WordMod : i \in 0 .. nchars - 1}

PrintStr ==
  /\ Executing("PRINT_STR")
  /\ \/ UnderflowOfTwo
     \/ /\ PoppableTwice
        /\ LET rest  == Pop(Pop(stack))
               cells == StrCells(Top(stack), Top(Pop(stack)))
           IN  \/ cells \subseteq DOMAIN heap /\ Advance(rest) /\ KeepMemory
               \/ ~(cells \subseteq DOMAIN heap) /\ Stop("oob_heap", rest)

TakeChar(ch) == Advance(Push(stack, ch)) /\ KeepMemory

ReadChar == Executing("READ_CHAR") /\ \E ch \in InputChars : TakeChar(ch)

TakeNum(num) ==
  \/ num \in Word /\ Advance(Push(stack, num)) /\ KeepMemory
  \/ num \notin Word /\ Stop("read_num_overflow", stack)

\* Nothing to read, something that is no number (followed by the rest of a
\* line, or by the end of the input), or a number.
ReadNum ==
  /\ Executing("READ_NUM")
  /\ \/ Stop("read_io", stack)
     \/ Stop("skip_line", stack)
     \/ Stop("skip_eof", stack)
     \/ \E num \in InputNums : TakeNum(num)

\* The loop that discards the line after an invalid number.
SkipLine == status = "skip_line" /\ Stop("read_num_char", stack)
SkipEof == status = "skip_eof" /\ Stop("skip_eof", stack)

\* `getline`'s last character is dropped, a newline or not.
TakeLine(line) ==
  LET addr  == Top(stack)
      nread == Len(line) - 1
  IN  \/ addr + nread > HeapSize /\ Stop("heap_addr_overflow", Pop(stack))
      \/ /\ addr + nread <= HeapSize
         /\ heap' = [a \in DOMAIN heap |->
                      IF a \in addr .. addr + nread - 1
                      THEN line[a - addr + 1] ELSE heap[a]]
         /\ Advance(Push(Pop(stack), nread % WordMod))
         /\ UNCHANGED <<ptr, mem>>

ReadStr ==
  /\ Executing("READ_STR")
  /\ \/ Underflow(stack)
     \/ Poppable(stack) /\ Stop("read_io", Pop(stack))
     \/ Poppable(stack) /\ \E line \in InputLines : TakeLine(line)

-----------------------------------------------------------------------------
(* The loop of `exec_prog`. *)

\* The end of any file ends execution.
Halt ==
  /\ status = "run"
  /\ ei[fi] >= Len(Active.insts)
  /\ Stop("done", stack)

Init ==
  /\ prog \in Programs
  /\ fi = 0
  /\ ei = [k \in Files |-> IF k = 0 THEN Startup ELSE 0]
  /\ stack = NewStack
  /\ reg = [arg |-> 0, arg_len |-> 0, lcl |-> 0, lcl_len |-> 0]
  /\ heap = [a \in 0 .. HeapSize - 1 |-> 0]
  /\ ptr = [this |-> 0, that |-> 0]
  /\ mem = [k \in Files |-> [static |-> [i \in 0 .. StatSize - 1 |-> 0],
                             tmp    |-> [i \in 0 .. TempSize - 1 |-> 0]]]
  /\ status = "run"

MemoryAccess == \/ PushFrame \/ PopFrame \/ PushFileSeg \/ PopFileSeg
                \/ PushConst \/ PushHeap \/ PopHeap
                \/ PushPointer \/ PopPointer
Builtin == Discard \/ PrintStr \/ ReadChar \/ ReadNum \/ ReadStr
Skip == SkipLine \/ SkipEof

\* Every step that neither calls nor returns.
Local == MemoryAccess \/ Unary \/ Binary \/ Goto \/ IfGoto \/ Builtin
           \/ Skip \/ Halt

Next == Local \/ Call \/ Ret

Spec == Init /\ [][Next]_vars /\ WF_vars(Next)

-----------------------------------------------------------------------------
(* Types and the first invariant. *)

Statuses ==
  {"run", "done", "abort", "oob_heap", "oob_stack", "oob_files",
   "stack_underflow", "seg_overflow", "stack_addr_overflow", "pointer_segment",
   "heap_addr_overflow", "add_overflow", "sub_underflow", "ctrl_flow", "def",
   "nargs", "read_io", "skip_line", "skip_eof", "read_num_char",
   "read_num_overflow"}

\* The type invariant: `fi` is a file (execution never resumes outside the
\* program), every word fits 16 bits, the register lengths are sizes.
TypeOK ==
  /\ IsProgram(prog)
  /\ fi \in Files
  /\ ei \in [Files -> Nat]
  /\ IsStack(stack)
  /\ reg \in [arg : Nat, arg_len : Nat, lcl : Nat, lcl_len : Nat]
  /\ heap \in [0 .. HeapSize - 1 -> Word]
  /\ ptr \in [this : Word, that : Word]
  /\ mem \in [Files -> [static : [0 .. StatSize - 1 -> Word],
                        tmp    : [0 .. TempSize - 1 -> Word]]]
  /\ status \in Statuses

\* Memory safety of the stack: while the program runs, and however it ends
\* but by an arithmetic error, the cells in use lie in the allocation that
\* `spush` grows and `spop` shrinks, whatever `return` does to `sp`; and the
\* allocation never gets smaller than one block, below which the unsigned
\* comparison in `spop` would wrap.
StackBacked ==
  status \notin {"add_overflow", "sub_underflow"} => Backed(stack)
=============================================================================
