------------------------------- MODULE Words -------------------------------
(* The machine's words: uint16_t in src/prog.h.                             *)
EXTENDS Integers, Sequences

CONSTANT WordMod  \* 2^16: a Word is a uint16_t

ASSUME WordModAssumption == WordMod \in Nat \ {0}

Word == 0 .. WordMod - 1
=============================================================================
