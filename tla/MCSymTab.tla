------------------------------ MODULE MCSymTab ------------------------------
(* Small symbol tables: blocks of four cells, as the unit tests have them.   *)
EXTENDS SymTab, TLC

CONSTANTS MaxUsed  \* bound: no insertion once this many cells are in use

\* Every key hashes to the first or to the last index of the new table.
MCHashes == [Keys -> {0, 2^HashBits - 1}]

MCNext ==
  \E key \in Keys :
    \/ Get(key)
    \/ \E val \in Vals : used < MaxUsed /\ Insert(key, val)

MCSpec == Init /\ [][MCNext]_vars

\* Keys differ only in their hashes, and the hashes considered are all.
MCSymmetry == Permutations(Keys)
=============================================================================
