------------------------------- MODULE Parse -------------------------------
(***************************************************************************)
(* `parse` of src/parse.c: a machine that reads the tokens of one file and *)
(* fills its instructions and its symbol table, one action per iteration   *)
(* of the loop and statement kind.  The symbol table is the map that       *)
(* SymMap describes (and that SymTab implements until it is reallocated).  *)
(* Of an error message only the token it points at is kept.                *)
(***************************************************************************)
EXTENDS Grammar

CONSTANTS
  InstBlock,  \* INST_BLOCK_SIZE: cells calloc'ed first, then added by realloc
  Texts       \* the token sequences considered

ASSUME InstBlockAssumption == InstBlock \in Nat \ {0}
ASSUME TextsAssumption == Texts \subseteq Seq(Token)

VARIABLES
  tokens,    \* the file's tokens; never change
  idx,       \* its.idx, the number of tokens consumed
  insts,     \* the instructions so far
  st, answer,  \* the symbol table, and the result of the last `insert_st`
  reported,  \* the errors printed so far: positions of tokens
  result     \* "parsing", or "ok" (PARSE_OK), "err" (PARSE_ERR), "abort"

vars == <<tokens, idx, insts, st, answer, reported, result>>

SymKey == {Func(name) : name \in Idents} \cup {Label(name) : name \in Idents}
Table == INSTANCE SymMap
  WITH Keys <- SymKey, Vals <- SymVal, map <- st, answer <- answer, lost <- FALSE

-----------------------------------------------------------------------------
(* The token stream. *)

\* `its_lh` after n more tokens; past the end it is `none_token`.
NoneToken == [t |-> "NONE", val |-> "NONE"]
Ahead(n) == IF idx + n <= Len(tokens) THEN tokens[idx + n] ELSE NoneToken

\* The loop goes on and dispatches on the code of the next token.
Reading(codes) == result = "parsing" /\ idx < Len(tokens) /\ Ahead(1).t \in codes

\* Mutant: the error points at the token before.
Report_Previous(n) == reported' = Append(reported, idx + n - 1)

\* Print an error that points at the n-th token from here.
Report(n) == reported' = Append(reported, idx + n)

\* PARSE_ERR, with the error at the n-th token.
Reject(n) ==
  /\ Report(n)
  /\ result' = "err"
  /\ UNCHANGED <<tokens, idx, st, answer>>

\* A parse function of the default branch succeeds on n tokens.
Emit(inst, n) ==
  /\ insts' = Append(insts, inst)
  /\ idx' = idx + n
  /\ UNCHANGED <<tokens, st, answer, result>>

\* It fails at the n-th token: `insts->idx ++` counts the unfinished
\* instruction, whose operands nobody reads.
Abandon(n) ==
  /\ Reject(n)
  /\ insts' = Append(insts, Plain(Ahead(1).t))

-----------------------------------------------------------------------------
(* Instructions. *)

MapInst ==
  /\ Reading(MapTokens)
  /\ Emit(Plain(Ahead(1).t), 1)
  /\ UNCHANGED reported

HasSegment == Ahead(2).t \in Segments
MemoryInst ==
  /\ Reading(MemoryTokens)
  /\ \/ ~HasSegment /\ Abandon(2)
     \/ HasSegment /\ Ahead(3).t # "UINT" /\ Abandon(3)
     \/ /\ HasSegment /\ Ahead(3).t = "UINT"
        /\ Emit([Plain(Ahead(1).t) EXCEPT !.seg = Ahead(2).t,
                                          !.offset = Ahead(3).val], 3)
        /\ UNCHANGED reported

HasIdent == Ahead(2).t = "IDENT"
GotoInst ==
  /\ Reading(GotoTokens)
  /\ \/ ~HasIdent /\ Abandon(2)
     \/ /\ HasIdent
        /\ Emit([Plain(Ahead(1).t) EXCEPT !.ident = Ahead(2).val], 2)
        /\ UNCHANGED reported

\* The number of arguments a call without one is left with: what its cell
\* holds, zero from calloc or anything from realloc.
Leftover == IF Len(insts) < InstBlock THEN {0} ELSE Word

\* Mutant: one token too few is consumed.
CallInst_Short ==
  /\ Reading({"CALL"})
  /\ \/ ~HasIdent /\ Abandon(2)
     \/ /\ HasIdent /\ Ahead(3).t = "UINT"
        /\ Emit(CallI(Ahead(2).val, Ahead(3).val), 2)
        /\ UNCHANGED reported
     \/ /\ HasIdent /\ Ahead(3).t # "UINT"
        /\ \E nargs \in Leftover : Emit(CallI(Ahead(2).val, nargs), 2)
        /\ Report(3)

\* Without a number of arguments an error is printed, and parsing goes on.
CallInst ==
  /\ Reading({"CALL"})
  /\ \/ ~HasIdent /\ Abandon(2)
     \/ /\ HasIdent /\ Ahead(3).t = "UINT"
        /\ Emit(CallI(Ahead(2).val, Ahead(3).val), 3)
        /\ UNCHANGED reported
     \/ /\ HasIdent /\ Ahead(3).t # "UINT"
        /\ \E nargs \in Leftover : Emit(CallI(Ahead(2).val, nargs), 2)
        /\ Report(3)

-----------------------------------------------------------------------------
(* Declarations. *)

\* Mutant: addresses count from one.
NextAddr_FromOne == Len(insts) + 1

\* `insts->idx`; `st->num_inst` is zero, as `parse` runs once per table.
NextAddr == Len(insts)

\* Enter a symbol declared by n tokens, after the errors `printed`.  A second
\* definition is an error at the declaration's first token; the assertion in
\* `insert_st` may stop the program if it is the same.
Declare(key, val, n, printed) ==
  /\ Table!AInsertNew(key, val) \/ Table!AInsertOld(key, val)
  /\ IF answer' = <<"EXISTS">>
     THEN result' = "err" /\ reported' = Append(printed, idx + 1)
     ELSE /\ result' = IF answer' = <<"abort">> THEN "abort" ELSE result
          /\ reported' = printed
  /\ idx' = idx + n
  /\ UNCHANGED <<tokens, insts>>

LabelMeta ==
  /\ Reading({"LABEL"})
  /\ \/ ~HasIdent /\ Reject(2) /\ UNCHANGED insts
     \/ HasIdent /\ Declare(Label(Ahead(2).val), At(NextAddr, 0), 2, reported)

\* Mutant: the number of locals is taken before it is checked to be there.
FunctionInst_Unchecked ==
  /\ Reading({"FUNC"})
  /\ \/ ~HasIdent /\ Reject(2) /\ UNCHANGED insts
     \/ /\ HasIdent
        /\ Declare(Func(Ahead(2).val),
                   At(NextAddr, IF Ahead(3).t = "UINT" THEN Ahead(3).val ELSE 0),
                   3, reported)

\* Without a number of locals an error is printed, and the function has none.
FunctionInst ==
  /\ Reading({"FUNC"})
  /\ \/ ~HasIdent /\ Reject(2) /\ UNCHANGED insts
     \/ /\ HasIdent /\ Ahead(3).t = "UINT"
        /\ Declare(Func(Ahead(2).val), At(NextAddr, Ahead(3).val), 3, reported)
     \/ /\ HasIdent /\ Ahead(3).t # "UINT"
        /\ Declare(Func(Ahead(2).val), At(NextAddr, 0), 2,
                   Append(reported, idx + 3))

-----------------------------------------------------------------------------

\* A token that begins no instruction.
WrongStart ==
  /\ Reading(TokenCodes \ InstTokens)
  /\ Reject(1) /\ UNCHANGED insts

Finish ==
  /\ result = "parsing" /\ idx >= Len(tokens)
  /\ result' = "ok"
  /\ UNCHANGED <<tokens, idx, insts, st, answer, reported>>

Init ==
  /\ tokens \in Texts
  /\ idx = 0
  /\ insts = <<>>
  /\ st = [key \in {} |-> At(0, 0)] /\ answer = <<"none">>
  /\ reported = <<>>
  /\ result = "parsing"

Next == \/ MapInst \/ MemoryInst \/ GotoInst \/ CallInst
        \/ LabelMeta \/ FunctionInst \/ WrongStart \/ Finish

Spec == Init /\ [][Next]_vars /\ WF_vars(Next)

-----------------------------------------------------------------------------
(* Properties. *)

\* The type invariant: instructions and symbols are at all times a file as
\* `exec_prog` expects it, with no builtin instruction and with every symbol
\* at an instruction or just past the last.
TypeOK ==
  /\ tokens \in Seq(Token)
  /\ idx \in 0 .. Len(tokens)
  /\ IsFile([insts |-> insts, st |-> st])
  /\ \A i \in DOMAIN insts : insts[i].op \in UserOps
  /\ DOMAIN st \subseteq SymKey
  /\ reported \in Seq(1 .. Len(tokens) + 1)
  /\ result \in {"parsing", "ok", "err", "abort"}

\* What was parsed without an error is what the text says: the text is made
\* of statements, each instruction is in its place with its operands, and each
\* symbol was declared once (or again at the same place) and stands for the
\* instruction that follows its declaration.
ParsedFaithfully ==
  result = "ok" /\ reported = <<>> =>
    /\ WellFormed(tokens)
    /\ Means(tokens, insts, st)

\* The first error points at the first token that cannot stand where it does,
\* whatever was read before it, unless a symbol was defined twice; and no text
\* with such a token goes unreported.
ErrorAtFault ==
  result \in {"ok", "err"} /\ Faults(tokens) # {} =>
    /\ reported # <<>>
    /\ reported[1] \in Faults(tokens) => \A k \in Faults(tokens) : reported[1] <= k
    /\ reported[1] \notin Faults(tokens) =>
         /\ answer = <<"EXISTS">>
         /\ \A k \in Faults(tokens) : reported[1] < k

\* A well-formed text that declares every symbol once is parsed to its end
\* without an error.
ValidTextParsed ==
  WellFormed(tokens) /\ SingleDecls(tokens) => <>(result = "ok" /\ reported = <<>>)

\* prog.c:318, after `parse` has returned PARSE_OK: "Now we know the source
\* code in `fn` is a valid source file."
OkMeansValid == result = "ok" => WellFormed(tokens)
=============================================================================
