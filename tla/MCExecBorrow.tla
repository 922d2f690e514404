--------------------------- MODULE MCExecBorrow ---------------------------
(* Calls that take more arguments than the caller's working stack holds. *)
EXTENDS MCExec

MCPrograms == BorrowPrograms
=============================================================================
