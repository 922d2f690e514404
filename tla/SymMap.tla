------------------------------- MODULE SymMap -------------------------------
(***************************************************************************)
(* What src/st.h promises of a symbol table: a map that `insert_st` only   *)
(* ever extends and `get_st` reads.  `answer` is the result of the last    *)
(* call.  What happens when a symbol is inserted a second time with the    *)
(* same data is left open: the call succeeds or the program stops.  The    *)
(* promise ends when the table is reallocated: `lost`.                     *)
(***************************************************************************)
CONSTANTS Keys, Vals

VARIABLES map, answer, lost

NoKeys == [key \in {} |-> CHOOSE v \in Vals : TRUE]

AInit == map = NoKeys /\ answer = <<"none">> /\ lost = FALSE

AInsertNew(key, val) ==
  /\ key \notin DOMAIN map
  /\ map' = [k \in DOMAIN map \cup {key} |-> IF k = key THEN val ELSE map[k]]
  /\ answer' = <<"OK">>

\* A symbol keeps the data it was first given.
AInsertOld(key, val) ==
  /\ key \in DOMAIN map
  /\ answer' \in IF map[key] = val THEN {<<"OK">>, <<"abort">>} ELSE {<<"EXISTS">>}
  /\ UNCHANGED map

AGet(key) ==
  /\ answer' = IF key \in DOMAIN map THEN <<"FOUND", map[key]>> ELSE <<"ERR">>
  /\ UNCHANGED map

ACall ==
  \E key \in Keys :
    \/ \E val \in Vals : AInsertNew(key, val) \/ AInsertOld(key, val)
    \/ AGet(key)

ALose == map' = NoKeys /\ answer' = <<"none">> /\ lost' = TRUE

ANext == ~lost /\ ((ACall /\ UNCHANGED lost) \/ ALose)

ASpec == AInit /\ [][ANext]_<<map, answer, lost>>
=============================================================================
