------------------------------ MODULE VMStack ------------------------------
(***************************************************************************)
(* The operand stack of a Hack VM program: `Stack`, `new_stack`, `spush`   *)
(* and `spop` of src/prog.c.  A stack is a value                           *)
(*   ops  the allocated cells, indexed from 0 as in C,                     *)
(*   sp   the index of the first free cell,                                *)
(*   len  the number of cells allocated, a multiple of StackBlock.         *)
(* The segment registers of the C struct (arg, lcl and their lengths) are  *)
(* the variable `reg` of module Exec: only `call` and `return` write them, *)
(* and `spop` reads them as the floor below which it does not pop.         *)
(***************************************************************************)
EXTENDS Words

CONSTANTS
  StackBlock,  \* STACK_BLOCK_SIZE: cells added or given back by one realloc
  Fresh        \* what a cell holds that realloc added and nobody wrote

ASSUME StackBlockAssumption == StackBlock \in Nat \ {0}

ASSUME FreshAssumption == Fresh \in Word

\* The types of the fields.
IsStack(S) ==
  /\ S = [ops |-> S.ops, sp |-> S.sp, len |-> S.len]
  /\ S.sp \in Nat
  /\ S.len \in Nat
  /\ S.ops \in [0 .. S.len - 1 -> Word]

\* The allocation is a positive number of whole blocks and covers every cell
\* in use.
Backed(S) ==
  /\ S.sp <= S.len
  /\ \E k \in 1 .. S.len : S.len = StackBlock * k

NewStack ==
  [ops |-> [i \in 0 .. StackBlock - 1 |-> 0], sp |-> 0, len |-> StackBlock]

Blocks(n) == (n + StackBlock - 1) \div StackBlock

\* The allocation after pushing up to height n: whole blocks, only if needed.
GrownLen(S, n) ==
  IF n <= S.len THEN S.len ELSE S.len + StackBlock * Blocks(n - S.len)

\* The cells after pushing vals, in an allocation of l cells.
PushedOps(S, vals, l) ==
  [i \in 0 .. l - 1 |->
     IF i \in S.sp .. S.sp + Len(vals) - 1 THEN vals[i - S.sp + 1]
     ELSE IF i < S.len THEN S.ops[i] ELSE Fresh]

\* Successive `spush`es of the elements of vals.
PushAll(S, vals) ==
  LET n == S.sp + Len(vals)
      l == GrownLen(S, n)
  IN  [ops |-> PushedOps(S, vals, l), sp |-> n, len |-> l]

Push(S, val) == PushAll(S, <<val>>)

\* `spop` succeeds only above the floor, the end of the local segment.
CanPop(S, floor) == S.sp > floor

\* Mutant: `<=` for `<` in `spop`'s test gives back the block being emptied.
Pop_ShrinksEarly(S) ==
  LET l == IF S.sp - 1 <= S.len - StackBlock THEN S.len - StackBlock ELSE S.len
  IN  [ops |-> [i \in 0 .. l - 1 |-> S.ops[i]], sp |-> S.sp - 1, len |-> l]

\* The stack after a successful `spop`; it gives back at most one block, and
\* the comparison is C's unsigned one (len >= StackBlock, so no wrap).
Pop(S) ==
  LET l == IF S.sp - 1 < S.len - StackBlock THEN S.len - StackBlock ELSE S.len
  IN  [ops |-> [i \in 0 .. l - 1 |-> S.ops[i]], sp |-> S.sp - 1, len |-> l]

Top(S) == S.ops[S.sp - 1]

\* `stack->ops[a] = val`
Poke(S, a, val) == [S EXCEPT !.ops[a] = val]
=============================================================================
