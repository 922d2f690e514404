----------------------------- MODULE ExecFrames -----------------------------
(***************************************************************************)
(* The executor with the history of its calls: what `exec_call` found when *)
(* it saved the caller, so that it can be compared with what `exec_ret`    *)
(* brings back.  Properties of the call stack, and the proof obligation    *)
(* that the machine implements CallFrames.                                 *)
(***************************************************************************)
EXTENDS Exec

VARIABLES
  calls,       \* one entry per activation that waits for its callee
  disciplined  \* every call so far took its arguments from the caller's own
               \* working stack, and its frame address and its return
               \* address fit a Word

fvars == <<vars, calls, disciplined>>

Snapshot ==
  [fi |-> fi, ei |-> ei[fi], reg |-> reg, ptr |-> ptr,
   frame |-> stack.sp + 8, nargs |-> Cur.nargs, ops |-> stack.ops]

OwnArguments == Cur.nargs <= stack.sp - Floor
FrameFitsWord == stack.sp + 8 < WordMod
\* `Addr ret_ei` and `Addr ret_fi` keep 16 bits.
ReturnFitsWord == ei[fi] < WordMod /\ fi < WordMod

FInit == Init /\ calls = <<>> /\ disciplined = TRUE

FLocal == Local /\ UNCHANGED <<calls, disciplined>>

\* The history is kept while it means something.
FCall ==
  /\ Call
  /\ IF status' # "run" THEN UNCHANGED <<calls, disciplined>>
     ELSE /\ disciplined' = (/\ disciplined
                             /\ OwnArguments /\ FrameFitsWord /\ ReturnFitsWord)
          /\ calls' = IF disciplined' THEN Append(calls, Snapshot) ELSE <<>>

FRet ==
  /\ Ret
  /\ UNCHANGED disciplined
  /\ calls' = IF status' = "run" /\ calls # <<>>
              THEN SubSeq(calls, 1, Len(calls) - 1) ELSE calls

FNext == FLocal \/ FCall \/ FRet

FSpec == FInit /\ [][FNext]_fvars /\ WF_fvars(FNext)

-----------------------------------------------------------------------------
(* The shape of the call stack. *)

\* The registers of the i-th activation, the running one last.
Regs(i) == IF i \in DOMAIN calls THEN calls[i].reg ELSE reg

\* The first cell of the arguments of the i-th call.
Base(c) == c.frame - 8 - c.nargs

\* The eight words at the frame address are those `exec_call` saved.
SavedIntact(c) ==
  /\ c.frame <= stack.len
  /\ stack.ops[c.frame - 8] = c.ei
  /\ stack.ops[c.frame - 7] = c.fi
  /\ stack.ops[c.frame - 6] = c.reg.lcl
  /\ stack.ops[c.frame - 5] = c.reg.lcl_len
  /\ stack.ops[c.frame - 4] = c.reg.arg
  /\ stack.ops[c.frame - 3] = c.reg.arg_len
  /\ stack.ops[c.frame - 2] = c.ptr.this
  /\ stack.ops[c.frame - 1] = c.ptr.that

\* The arguments, the saved words and the locals of the (i+1)-th activation
\* follow each other, above everything the i-th one keeps.
Linked(i) ==
  /\ Regs(i + 1).lcl = calls[i].frame
  /\ Regs(i + 1).arg = Base(calls[i])
  /\ Regs(i + 1).arg_len = calls[i].nargs
  /\ calls[i].reg.lcl + calls[i].reg.lcl_len <= Base(calls[i])

\* No instruction between a call and its return overwrites the saved words:
\* while calls are disciplined, every frame holds what `exec_call` pushed and
\* frames do not overlap, whatever the functions pop into their arguments and
\* locals (exec.c:104-142 checks the segments, prog.c:48-52 the floor).
FramesIntact ==
  disciplined =>
    /\ \A i \in DOMAIN calls : SavedIntact(calls[i]) /\ Linked(i)
    /\ \A i, j \in DOMAIN calls : i < j => calls[i].frame <= Base(calls[j])
    /\ Floor <= stack.sp

\* A callee, and everything it calls, leaves its callers' part of the stack
\* alone: every cell below the arguments of a pending call still holds what
\* it held when the call was made.
CallerUntouched ==
  disciplined =>
    \A i \in DOMAIN calls : \A a \in 0 .. Base(calls[i]) - 1 :
      stack.ops[a] = calls[i].ops[a]

\* The startup code is the only code that runs outside a function: a `return`
\* always has a frame to return through (exec.c:611-615 reads below `lcl`
\* without a check), and startup is left for good only through its call.
StartupBelow ==
  disciplined =>
    IF calls = <<>> THEN fi = 0 /\ ei[0] >= Startup
    ELSE /\ calls[1].fi = 0 /\ calls[1].ei = Startup + 1
         /\ fi = 0 => ei[0] < Startup

\* `return` never reads outside the stack nor jumps outside the program while
\* calls are disciplined.
NoWildReturn == disciplined => status \notin {"oob_stack", "oob_files"}

\* When execution ends in the system file, `Sys.init` has returned: its return
\* value is all that is left on the stack.
BalancedHalt ==
  disciplined /\ status = "done" /\ fi = 0 => stack.sp = 1 /\ calls = <<>>

\* `return` gives the caller back everything `call` took: its file, the next
\* instruction, its segments, its pointers and its stack, with the arguments
\* replaced by the callee's top value (exec.c:602-648).
ReturnRestores ==
  Ret /\ status' = "run" /\ disciplined =>
    LET c == calls[Len(calls)] IN
    /\ calls # <<>>
    /\ fi' = c.fi /\ ei'[c.fi] = c.ei + 1
    /\ reg' = c.reg /\ ptr' = c.ptr
    /\ stack'.sp = Base(c) + 1
    /\ stack'.ops[Base(c)] = Top(stack)
    /\ \A a \in 0 .. Base(c) - 1 : stack'.ops[a] = c.ops[a]
ReturnRestoresCaller == [][ReturnRestores]_fvars

\* Both pointers, and those every pending call has saved, are heap addresses.
Address(p) == p.this <= HeapSize /\ p.that <= HeapSize
Addresses == Address(ptr) /\ \A i \in DOMAIN calls : Address(calls[i].ptr)

PopsForeign ==
  /\ Executing("POP") /\ Cur.seg = "PTR"
  /\ Poppable(stack) /\ Top(stack) > HeapSize

\* Only `pop pointer` makes a pointer something else than a heap address: `call`
\* saves both pointers in the stack and `return` takes them back from there,
\* and whatever happens to the stack in between, what comes back is what was
\* saved.  A program that pops only addresses never fails the assertion of
\* `push pointer` (exec.c:267 and 270).
PointersStay ==
  disciplined /\ Addresses =>
    (Addresses' /\ status' # "abort") \/ PopsForeign
PointersStayAddresses == [][PointersStay]_fvars

\* A step that is refused leaves the stack it found: the bounds are checked
\* before the `spop`, where `if-goto` has popped its condition (and maybe given
\* a block back) `sp ++` restores it (exec.c:521 "`val` is restored on error"),
\* and where `add` and `sub` have popped their operands `sp += 2` does.  Only
\* after these two may the allocation be too small for the restored stack.
\* Underflow is not among the refusals: a first operand stays popped.
ArithmeticRefusals == {"add_overflow", "sub_underflow"}
Refusals == {"ctrl_flow", "def", "nargs", "seg_overflow", "stack_addr_overflow",
             "pointer_segment", "abort"} \cup ArithmeticRefusals
RefusalKeepsStack ==
  status = "run" /\ status' \in Refusals =>
    /\ stack'.sp = stack.sp
    /\ \A a \in DOMAIN stack'.ops : a < stack.sp => stack'.ops[a] = stack.ops[a]
    /\ status' \notin ArithmeticRefusals => stack'.sp <= stack'.len
FailedStepKeepsStack == [][RefusalKeepsStack]_fvars

\* In a program without loops every call returns: once an activation is on
\* the call stack it is left again, unless the program ends first.
CallsReturn ==
  \A n \in 1 .. 6 :
    (Len(calls) >= n /\ status = "run") ~> (Len(calls) < n \/ status # "run")

-----------------------------------------------------------------------------
(* What the comments and tests of the code say and the code does not do. *)

\* prog.c:48-50: "Underflowing into the caller's stack is forbidden. This part
\* of the stack starts at `stack->lcl + stack->lcl_len`."
CallTakesOwnArguments ==
  [][Call /\ status' = "run" => reg'.arg >= Floor]_fvars

\* exec.c:608-610: "`LCL` always points to the stack position right after all
\* of the caller's segments etc. have been pushed", so `return` restores the
\* caller's LCL and ARG from the words below it.
ReturnReadsFrameAtLcl ==
  [][Ret /\ status' = "run" =>
       /\ reg'.lcl = stack.ops[reg.lcl - 6]
       /\ reg'.arg = stack.ops[reg.lcl - 4]]_fvars

-----------------------------------------------------------------------------
(* The abstract frames, read off the machine's own memory. *)

Cells(a, n) == [i \in 1 .. n |-> stack.ops[a + i - 1]]

ActTop(i) == IF i \in DOMAIN calls THEN Base(calls[i]) ELSE stack.sp

ActOf(i) ==
  LET r == Regs(i)
      w == r.lcl + r.lcl_len
  IN  [args   |-> Cells(r.arg, r.arg_len),
       locals |-> Cells(r.lcl, r.lcl_len),
       work   |-> Cells(w, ActTop(i) - w),
       from   |-> IF i = 1 THEN <<>>
                  ELSE << stack.ops[r.lcl - 7], stack.ops[r.lcl - 8] >>,
       saved  |-> IF i = 1 THEN <<>>
                  ELSE << stack.ops[r.lcl - 2], stack.ops[r.lcl - 1] >>]

AbsMode == IF ~disciplined THEN "lost"
           ELSE IF status = "run" THEN "run" ELSE "over"

Acts == IF AbsMode = "run" THEN [i \in 1 .. Len(calls) + 1 |-> ActOf(i)]
        ELSE <<>>

Frames == INSTANCE CallFrames WITH
  Values <- Word,
  acts   <- Acts,
  pos    <- << fi, ei[fi] >>,
  ptrs   <- << ptr.this, ptr.that >>,
  mode   <- AbsMode

\* The machine implements CallFrames: activations on one shared stack with
\* saved words in between behave as if each had a stack of its own, until a
\* call takes more arguments than its caller has, or is made so high in the
\* stack or so far in the program that its addresses do not fit a Word.
ImplementsFrames == Frames!ASpec
=============================================================================
