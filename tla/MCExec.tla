------------------------------- MODULE MCExec -------------------------------
(***************************************************************************)
(* Instances of ExecFrames for TLC: the word operations, the programs and  *)
(* the input.  A program is a template whose holes are filled in all ways. *)
(***************************************************************************)
EXTENDS ExecFrames, Assembly

CONSTANT MaxSp   \* bound on the stack height, so that recursion stops

\* Words of at most nine bits.
Bit(x, k) == (x \div k) % 2
MCBitAnd(x, y) ==
  LET b(k) == k * Bit(x, k) * Bit(y, k)
  IN  b(1) + b(2) + b(4) + b(8) + b(16) + b(32) + b(64) + b(128) + b(256)
MCBitOr(x, y) == x + y - MCBitAnd(x, y)

MCIdents == SystemNames \cup {"", "Sys.init", "g", "h", "f", "L", "M", "more",
                              "nowhere", "twice"}

MCNext == stack.sp <= MaxSp /\ FNext
MCSpec == FInit /\ [][MCNext]_fvars /\ WF_fvars(MCNext)

-----------------------------------------------------------------------------
(* Frames: `Sys.init` in the first file calls g in the second, which does    *)
(* anything and calls h in the first, itself, or jumps.                      *)

FrameInsts ==
  { C(1), PushI("ARG", 0), PopI("ARG", 0), PushI("LOC", 0), PopI("LOC", 0),
    PopI("PTR", 0), PopI("PTR", 1), PopI("STAT", 0), PushI("STAT", 0),
    CallI("h", 1), CallI("h", 0), CallI("g", 0), Return,
    IfGotoI("L"), GotoI("M") }

FrameProgram(nargs, nlocals, body) ==
  LET g == body \o << C(2), Return >>
      init == << C(1), C(3), CallI("g", nargs), PopI("TMP", 0), C(4), Return >>
      h == << PushI("ARG", 0), C(0), PopI("PTR", 0), Plain("NEG"), Return >>
  IN  << MkFile(init \o h, {<<Func("Sys.init"), 0, 0>>, <<Func("h"), 6, 0>>,
                            <<Label("M"), 9, 0>>}),
         MkFile(g, {<<Func("g"), 0, nlocals>>, <<Label("L"), 1, 0>>}) >>

-----------------------------------------------------------------------------
(* Operations: `Sys.init` pushes three values and runs any two instructions, *)
(* or three that work on memory; every segment, inside and outside its       *)
(* bounds.                                                                   *)

OpInsts ==
  { PushI(seg, offset) : seg \in Segments \ {"CONST", "LOC"}, offset \in 0 .. 1 }
  \cup { PopI(seg, offset) : seg \in Segments \ {"CONST", "LOC"}, offset \in 0 .. 1 }
  \cup { PushI("PTR", 2), PopI("PTR", 2), PopI("CONST", 0), PushI("LOC", 0),
         IfGotoI("L"), IfGotoI("nowhere"), GotoI("nowhere"), GotoI("twice"),
         IfGotoI("twice"), CallI("nowhere", 0), CallI("twice", 4) }
  \cup { Plain(op) : op \in UnaryOps \cup BinaryOps }

OpProgram(w, body) ==
  << MkFile(<< C(2), C(1), C(w) >> \o body,
            {<<Func("Sys.init"), 0, 0>>, <<Label("L"), 5, 0>>}),
     MkFile(<< C(1) >>, {<<Label("twice"), 0, 0>>, <<Func("twice"), 0, 0>>}),
     MkFile(<< C(1) >>, {<<Label("twice"), 0, 0>>, <<Func("twice"), 0, 0>>}) >>

\* The instructions that act together through memory or leave the stack lower.
MemoryInsts ==
  { PopI("PTR", 0), PushI("PTR", 0), PopI("PTR", 1), PushI("PTR", 1),
    PopI("THIS", 1), PushI("THIS", 1), PushI("THAT", 0), PopI("STAT", 0),
    PushI("STAT", 0), PopI("ARG", 0), PushI("ARG", 0), PopI("CONST", 0),
    IfGotoI("twice"), Plain("ADD"), Plain("SUB"), Plain("NEG") }

OpPrograms(w) ==
  {OpProgram(w, body) :
     body \in [1 .. 2 -> OpInsts] \cup [1 .. 3 -> MemoryInsts]}

-----------------------------------------------------------------------------
(* Borrowed arguments: g calls h with more arguments than it has, so h's     *)
(* return value lands in g's locals or in the words g must return through;   *)
(* then g pushes and returns.                                                *)

BorrowProgram(nlocals, k, v, c, n, tail) ==
  LET init == << C(1), C(3), CallI("g", 1), C(5), Return >>
      g == << CallI("h", k) >> \o [i \in 1 .. n |-> C(c)] \o tail
             \o << Return >>
      h == << C(v), Return >>
  IN  << MkFile(init \o g \o h,
                {<<Func("Sys.init"), 0, 0>>, <<Func("g"), 5, nlocals>>,
                 <<Func("h"), 5 + Len(g), 0>>}) >>

BorrowPrograms ==
  {BorrowProgram(nlocals, k, v, c, n, tail) :
     nlocals \in 0 .. 1, k \in 0 .. 14, v \in {1, 9, 40},
     c \in {0, 12}, n \in 0 .. 9,
     tail \in {<<>>, << PushI("LOC", 0) >>, << PushI("ARG", 0) >>,
               << PopI("LOC", 0) >>}}

-----------------------------------------------------------------------------
(* Builtins: two calls of builtins with any arguments. *)

BuiltinProgram(a, b, f, m, g, n) ==
  << MkFile(<< C(1), PopI("PTR", 1), C(a), C(b), CallI(f, m), CallI(g, n), Return >>,
            {<<Func("Sys.init"), 0, 0>>}) >>

-----------------------------------------------------------------------------
(* A function that calls itself, taking its own arguments only. *)

DeepProgram(n) ==
  << MkFile(<< C(n), CallI("f", 1), Return,
              PushI("ARG", 0), IfGotoI("more"), C(7), Return,
              PushI("ARG", 0), C(1), Plain("SUB"), CallI("f", 1), Return >>,
            {<<Func("Sys.init"), 0, 0>>, <<Func("f"), 3, 0>>,
             <<Label("more"), 7, 0>>}) >>

-----------------------------------------------------------------------------
(* More instructions than a Word can count: `Sys.init` calls Sys.print_num   *)
(* and g, before or after that many others.  A call after them returns to    *)
(* one of them instead.                                                      *)

LongProgram(before, after) ==
  LET nots == [i \in 1 .. WordMod |-> Plain("NOT")]
      body == << C(1) >> \o before \o << GotoI("L") >> \o nots
      init == body \o after \o << Return >>
      g == << PushI("ARG", 0), PopI("LOC", 0), C(4), Return >>
  IN  << MkFile(init, {<<Func("Sys.init"), 0, 0>>, <<Label("L"), Len(body), 0>>}),
         MkFile(g, {<<Func("g"), 0, 1>>}) >>

LongPrograms ==
  LET Calls == {<<>>, << CallI("g", 1) >>, << CallI("Sys.print_num", 1) >>}
  IN  {LongProgram(before, after) : before \in Calls, after \in Calls}

-----------------------------------------------------------------------------
(* What stdin may hold. *)

MCInputNums == {0, 5, WordMod}
MCInputChars == {3, WordMod - 1}   \* the last is EOF
MCInputLines == {<<10>>, <<4, 10>>, <<4, 5, 10>>, <<4, 5>>, <<6, 7, 8, 10>>}
=============================================================================
