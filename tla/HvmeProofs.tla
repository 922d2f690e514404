----------------------------- MODULE HvmeProofs -----------------------------
(***************************************************************************)
(* Nothing is leaked, released twice or lost, only whole programs are run, *)
(* and the exit status tells: for any number of files, and whichever call  *)
(* fails.  The invariant says, for every point of the run, exactly what is *)
(* allocated then.                                                         *)
(***************************************************************************)
EXTENDS Hvme, TLAPS

\* What belongs to the program and to the files completed so far.
Base == OfProgram \cup OfFiles

Accounted ==
  /\ pc \in {"start", "exit"} => live = {}
  /\ pc \in {"loop", "give_up", "exec", "clean"} => live = Base
  /\ pc \in {"open", "no_tokens", "tables"} => live = Base \cup TokensOf(nfiles)
  /\ pc = "scan" => live = Base \cup TokensOf(nfiles) \cup ReadingOf(nfiles)
  /\ pc = "parse" =>
       live = Base \cup TokensOf(nfiles) \cup SymbolsOf(nfiles) \cup InstsOf(nfiles)
  /\ pc = "loaded" => live = Base \cup FileOf(nfiles)

Filing == {"open", "scan", "no_tokens", "tables", "parse", "loaded"}
Whole == loaded = [k \in 1 .. nfn |-> k]
Progress ==
  /\ pc = "start" => nfiles = 0 /\ loaded = <<>>
  /\ pc \in Filing \cup {"loop", "give_up", "exec", "clean"} =>
       /\ nfn > 0 /\ nfiles \in 1 .. nfn + 1
       /\ loaded = [k \in 1 .. nfiles - 1 |-> k]
  /\ pc \in Filing => nfiles <= nfn
  /\ pc \in {"exec", "clean"} \/ ret # NotYet => nfn > 0 /\ Whole
  /\ pc \notin {"clean", "exit"} => ret = NotYet
  /\ pc = "clean" => ret # NotYet
  /\ pc = "exit" => code = (IF ret = NotYet THEN 1 ELSE ret % StatusMod)

Inv == TypeOK /\ misused = FALSE /\ Accounted /\ Progress

-----------------------------------------------------------------------------
(* Allocations of different owners are different. *)

\* The file in work owns nothing of what is already there.
LEMMA Fresh ==
  ASSUME NEW k \in Nat, nfiles = k, NEW what
  PROVE  << what, k >> \notin Base
<1>1. << what, k >> \notin OfProgram
  BY DEF OfProgram
<1>2. \A w : \A j \in 0 .. k - 1 : << w, j >> # << what, k >>
  OBVIOUS
<1>3. \A j : \A x \in FileOf(j) : \E w : x = << w, j >>
  BY DEF FileOf, SymbolsOf, InstsOf, MemOf
<1>4. << what, k >> \notin OfFiles
  BY <1>2, <1>3 DEF OfFiles
<1> QED BY <1>1, <1>4 DEF Base

\* What a file has at each stage is apart from all the rest.
LEMMA Apart ==
  ASSUME nfiles \in Nat
  PROVE  /\ TokensOf(nfiles) \cap Base = {}
         /\ ReadingOf(nfiles) \cap (Base \cup TokensOf(nfiles)) = {}
         /\ SymbolsOf(nfiles) \cap (Base \cup TokensOf(nfiles)) = {}
         /\ InstsOf(nfiles) \cap (Base \cup TokensOf(nfiles)) = {}
         /\ (MemOf(nfiles) \cup { <<"filename", nfiles>> }) \cap
              (Base \cup SymbolsOf(nfiles) \cup InstsOf(nfiles)) = {}
<1>1. \A what : << what, nfiles >> \notin Base
  BY Fresh
<1>2. TokensOf(nfiles) \cap Base = {}
  BY <1>1 DEF TokensOf
<1>3. ReadingOf(nfiles) \cap (Base \cup TokensOf(nfiles)) = {}
  BY <1>1 DEF ReadingOf, TokensOf
<1>4. SymbolsOf(nfiles) \cap (Base \cup TokensOf(nfiles)) = {}
  BY <1>1 DEF SymbolsOf, TokensOf
<1>5. InstsOf(nfiles) \cap (Base \cup TokensOf(nfiles)) = {}
  BY <1>1 DEF InstsOf, TokensOf
<1>6. (MemOf(nfiles) \cup { <<"filename", nfiles>> }) \cap
        (Base \cup SymbolsOf(nfiles) \cup InstsOf(nfiles)) = {}
  BY <1>1 DEF MemOf, SymbolsOf, InstsOf
<1> QED BY <1>2, <1>3, <1>4, <1>5, <1>6

\* Tokens are not part of a file.
LEMMA TokensApart ==
  ASSUME nfiles \in Nat
  PROVE  TokensOf(nfiles) \cap
           (MemOf(nfiles) \cup { <<"filename", nfiles>> } \cup FileOf(nfiles)) = {}
  BY DEF TokensOf, FileOf, SymbolsOf, InstsOf, MemOf

\* A file that is loaded joins the others.
LEMMA BaseGrows ==
  ASSUME nfiles \in Nat, nfiles' = nfiles + 1
  PROVE  Base' = Base \cup FileOf(nfiles)
<1>1. 0 .. nfiles' - 1 = (0 .. nfiles - 1) \cup {nfiles}
  OBVIOUS
<1>2. OfFiles' = OfFiles \cup FileOf(nfiles)
  BY <1>1 DEF OfFiles, FileOf, SymbolsOf, InstsOf, MemOf
<1> QED BY <1>2 DEF Base, OfProgram

LEMMA BaseStays == ASSUME nfiles' = nfiles PROVE Base' = Base
  BY DEF Base, OfProgram, OfFiles, FileOf, SymbolsOf, InstsOf, MemOf

-----------------------------------------------------------------------------
(* Every call keeps the invariant. *)

LEMMA NoFilesInv == ASSUME Inv, NoFiles PROVE Inv'
  BY DEF Inv, TypeOK, Accounted, Progress, NoFiles, Goes, NotYet, StatusMod,
         Filing, Whole

LEMMA MakeProgInv == ASSUME Inv, MakeProg PROVE Inv'
<1>1. pc = "start" /\ pc' = "loop" /\ nfiles' = 1 /\ nfn > 0 /\ live = {}
  BY DEF MakeProg, Goes, Inv, Accounted
<1>2. live' = OfProgram \cup FileOf(0) /\ misused' = FALSE
  BY <1>1 DEF MakeProg, Allocate, Exchange, Inv
<1>3. Base' = OfProgram \cup FileOf(0)
  <2>1. 0 .. nfiles' - 1 = {0}
    BY <1>1
  <2> QED BY <2>1 DEF Base, OfFiles, OfProgram, FileOf, SymbolsOf, InstsOf, MemOf
<1>4. Accounted'
  BY <1>1, <1>2, <1>3 DEF Accounted
<1>5. loaded' = [k \in 1 .. nfiles' - 1 |-> k]
  BY <1>1 DEF MakeProg, Inv, Progress
<1>6. TypeOK'
  <2>1. nfn' \in Nat /\ nfiles' \in 0 .. nfn' + 1
    BY <1>1 DEF Inv, TypeOK, MakeProg
  <2>2. UNCHANGED <<ret, code>>
    BY DEF MakeProg
  <2> QED BY <1>1, <1>2, <2>1, <2>2 DEF Inv, TypeOK
<1>7. ret' = NotYet /\ nfn' = nfn /\ nfiles' \in 1 .. nfn' + 1
  BY <1>1 DEF Inv, TypeOK, Progress, MakeProg
<1>8. Progress'
  BY <1>1, <1>5, <1>7 DEF Progress, Filing, Whole
<1> QED BY <1>2, <1>4, <1>6, <1>8 DEF Inv

\* A call that leaves the counters alone keeps the rest of the invariant if it
\* goes on to a point of the same stage.
LEMMA CallInv ==
  ASSUME Inv, pc \in Filing \cup {"loop"}, pc' \in Filing \cup {"give_up", "killed", "stuck"},
         pc' \in Filing => nfiles <= nfn,
         UNCHANGED <<nfn, nfiles, loaded, ret, code>>,
         misused' = FALSE, Accounted'
  PROVE  Inv'
<1>1. TypeOK'
  BY DEF Inv, TypeOK, Filing
<1>2. Progress'
  BY DEF Inv, Progress, Filing, Whole
<1> QED BY <1>1, <1>2 DEF Inv

LEMMA Counted == ASSUME Inv, pc \in Filing \cup {"loop"} PROVE nfiles \in Nat /\ nfn \in Nat
  BY DEF Inv, TypeOK

LEMMA ProcFileInv == ASSUME Inv, ProcFile PROVE Inv'
<1>1. pc = "loop" /\ pc' = "open" /\ nfiles \in Nat /\ live = Base
  BY Counted DEF ProcFile, Goes, Inv, Accounted
<1>2. live' = Base \cup TokensOf(nfiles) /\ misused' = FALSE
  BY <1>1, Apart DEF ProcFile, Allocate, Exchange, Inv
<1>3. Accounted'
  BY <1>1, <1>2, BaseStays DEF Accounted, ProcFile
<1> QED BY <1>1, <1>2, <1>3, CallInv DEF ProcFile, MoreFiles, Filing

LEMMA OpenInv == ASSUME Inv, Open PROVE Inv'
<1>1. pc = "open" /\ nfiles \in Nat /\ live = Base \cup TokensOf(nfiles) /\ nfiles <= nfn
  BY Counted DEF Open, Inv, Accounted, Progress, Filing
<1>2. CASE pc' = "scan" /\ Allocate(ReadingOf(nfiles))
  <2>1. live' = Base \cup TokensOf(nfiles) \cup ReadingOf(nfiles) /\ misused' = FALSE
    BY <1>1, <1>2, Apart DEF Allocate, Exchange, Inv
  <2>2. Accounted'
    BY <1>2, <2>1, BaseStays DEF Accounted, Open
  <2> QED BY <1>1, <1>2, <2>1, <2>2, CallInv DEF Open, Filing
<1>3. CASE pc' = "no_tokens" /\ UNCHANGED <<live, misused>>
  <2>1. Accounted'
    BY <1>1, <1>3, BaseStays DEF Accounted, Open
  <2> QED BY <1>1, <1>3, <2>1, CallInv DEF Open, Filing, Inv
<1> QED BY <1>2, <1>3 DEF Open

LEMMA ScanInv == ASSUME Inv, Scan PROVE Inv'
<1>1. /\ pc = "scan" /\ nfiles \in Nat /\ nfiles <= nfn
      /\ live = Base \cup TokensOf(nfiles) \cup ReadingOf(nfiles)
  BY Counted DEF Scan, Inv, Accounted, Progress, Filing
<1>2. CASE pc' \in {"tables", "no_tokens"} /\ Release(ReadingOf(nfiles))
  <2>1. live' = Base \cup TokensOf(nfiles) /\ misused' = FALSE
    BY <1>1, <1>2, Apart DEF Release, Exchange, Inv
  <2>2. Accounted'
    BY <1>2, <2>1, BaseStays DEF Accounted, Scan
  <2> QED BY <1>1, <1>2, <2>1, <2>2, CallInv DEF Scan, Filing
<1>3. CASE pc' \in {"killed", "stuck"} /\ UNCHANGED <<live, misused>>
  <2>1. Accounted'
    BY <1>3 DEF Accounted
  <2> QED BY <1>1, <1>3, <2>1, CallInv DEF Scan, Filing, Inv
<1> QED BY <1>2, <1>3 DEF Scan

LEMMA ScanFailedInv == ASSUME Inv, ScanFailed PROVE Inv'
<1>1. /\ pc = "no_tokens" /\ pc' = "give_up" /\ nfiles \in Nat
      /\ live = Base \cup TokensOf(nfiles)
  BY Counted DEF ScanFailed, Goes, Inv, Accounted, Filing
<1>2. live' = Base /\ misused' = FALSE
  BY <1>1, Apart DEF ScanFailed, Release, Exchange, Inv
<1>3. Accounted'
  BY <1>1, <1>2, BaseStays DEF Accounted, ScanFailed
<1> QED BY <1>1, <1>2, <1>3, CallInv DEF ScanFailed, Filing

LEMMA NewTablesInv == ASSUME Inv, NewTables PROVE Inv'
<1>1. /\ pc = "tables" /\ pc' = "parse" /\ nfiles \in Nat /\ nfiles <= nfn
      /\ live = Base \cup TokensOf(nfiles)
  BY Counted DEF NewTables, Goes, Inv, Accounted, Progress, Filing
<1>2. /\ live' = Base \cup TokensOf(nfiles) \cup SymbolsOf(nfiles) \cup InstsOf(nfiles)
      /\ misused' = FALSE
  BY <1>1, Apart DEF NewTables, Allocate, Exchange, Inv
<1>3. Accounted'
  BY <1>1, <1>2, BaseStays DEF Accounted, NewTables
<1> QED BY <1>1, <1>2, <1>3, CallInv DEF NewTables, Filing

LEMMA ParseInv == ASSUME Inv, Parse PROVE Inv'
<1> DEFINE Tables == SymbolsOf(nfiles) \cup InstsOf(nfiles)
           Rest == MemOf(nfiles) \cup { <<"filename", nfiles>> }
<1>1. /\ pc = "parse" /\ nfiles \in Nat /\ nfiles <= nfn
      /\ live = Base \cup TokensOf(nfiles) \cup Tables
  BY Counted DEF Parse, Inv, Accounted, Progress, Filing
<1>2. /\ TokensOf(nfiles) \cap Base = {} /\ Tables \cap (Base \cup TokensOf(nfiles)) = {}
      /\ Rest \cap (Base \cup Tables) = {} /\ TokensOf(nfiles) \cap Rest = {}
      /\ FileOf(nfiles) = Tables \cup Rest
  BY <1>1, Apart, TokensApart DEF FileOf
<1>3. CASE ParseOk
  <2>1. live' = Base \cup FileOf(nfiles) /\ misused' = FALSE
    <3> HIDE DEF Tables, Rest
    <3>1. Exchange(TokensOf(nfiles), Rest)
      BY <1>3 DEF ParseOk, Rest
    <3> QED BY <1>1, <1>2, <3>1 DEF Exchange, Inv
  <2>2. Accounted'
    BY <1>3, <2>1, BaseStays DEF Accounted, Parse, ParseOk
  <2> QED BY <1>1, <1>3, <2>1, <2>2, CallInv DEF Parse, ParseOk, Filing
<1>4. CASE ParseError
  <2>1. live' = Base /\ misused' = FALSE
    <3> HIDE DEF Tables, Rest
    <3>1. Exchange(TokensOf(nfiles) \cup Tables, {})
      BY <1>4 DEF ParseError, Release, Tables
    <3> QED BY <1>1, <1>2, <3>1 DEF Exchange, Inv
  <2>2. Accounted'
    BY <1>4, <2>1, BaseStays DEF Accounted, Parse, ParseError
  <2> QED BY <1>1, <1>4, <2>1, <2>2, CallInv DEF Parse, ParseError, Filing
<1>5. CASE pc' = "killed" /\ UNCHANGED <<live, misused>>
  <2>1. Accounted'
    BY <1>5 DEF Accounted
  <2> QED BY <1>1, <1>5, <2>1, CallInv DEF Parse, Filing, Inv
<1> QED BY <1>3, <1>4, <1>5 DEF Parse

LEMMA FileLoadedInv == ASSUME Inv, FileLoaded PROVE Inv'
<1>1. /\ pc = "loaded" /\ pc' = "loop" /\ nfiles \in 1 .. nfn /\ nfn \in Nat
      /\ nfiles' = nfiles + 1 /\ UNCHANGED <<nfn, live, misused, ret, code>>
      /\ live = Base \cup FileOf(nfiles)
  <2>1. /\ pc = "loaded" /\ pc' = "loop" /\ nfiles' = nfiles + 1
        /\ UNCHANGED <<nfn, live, misused, ret, code>>
    BY DEF FileLoaded, Goes
  <2>2. live = Base \cup FileOf(nfiles)
    BY <2>1 DEF Inv, Accounted
  <2>3. pc \in Filing
    BY <2>1 DEF Filing
  <2>4. nfn \in Nat /\ nfiles \in 1 .. nfn + 1 /\ nfiles <= nfn
    BY <2>3, Counted DEF Inv, Progress
  <2> QED BY <2>1, <2>2, <2>4
<1>2. Accounted'
  BY <1>1, BaseGrows DEF Accounted
<1>3. loaded' = [k \in 1 .. nfiles' - 1 |-> k]
  <2>1. loaded = [k \in 1 .. nfiles - 1 |-> k] /\ loaded' = Append(loaded, nfiles)
    BY <1>1 DEF Inv, Progress, FileLoaded, Filing
  <2>2. loaded \in Seq(Nat) /\ Len(loaded) = nfiles - 1
    <3>1. nfiles - 1 \in Nat /\ loaded \in [1 .. nfiles - 1 -> Nat]
      BY <1>1, <2>1
    <3> QED BY <3>1
  <2>3. DOMAIN loaded' = 1 .. nfiles /\ \A k \in 1 .. nfiles : loaded'[k] = k
    BY <1>1, <2>1, <2>2
  <2>4. loaded' = [k \in 1 .. nfiles |-> k]
    BY <1>1, <2>1, <2>2, <2>3
  <2> QED BY <1>1, <2>4
<1>4. TypeOK' /\ misused' = FALSE
  BY <1>1 DEF Inv, TypeOK
<1>5. Progress'
  BY <1>1, <1>3 DEF Inv, Progress, Filing, Whole
<1> QED BY <1>2, <1>4, <1>5 DEF Inv

LEMMA CleanUpInv ==
  ASSUME Inv, pc \in {"give_up", "clean"}, pc' = "exit",
         Release(OfFiles \cup OfProgram),
         UNCHANGED <<nfn, nfiles, loaded, ret>>,
         code' = IF ret = NotYet THEN 1 ELSE ret % StatusMod
  PROVE  Inv'
<1>1. live = Base
  BY DEF Inv, Accounted
<1>2. live' = {} /\ misused' = FALSE
  BY <1>1 DEF Release, Exchange, Inv, Base
<1>3. Accounted'
  BY <1>2 DEF Accounted
<1>4. code' \in 0 .. StatusMod - 1
  BY DEF StatusMod, EXEC_ERR, Inv, TypeOK
<1>5. TypeOK'
  BY <1>2, <1>4 DEF Inv, TypeOK
<1>6. Progress'
  BY DEF Inv, Progress, Filing, Whole
<1> QED BY <1>2, <1>3, <1>5, <1>6 DEF Inv

LEMMA GiveUpInv == ASSUME Inv, GiveUp PROVE Inv'
<1>1. ret = NotYet
  BY DEF GiveUp, Goes, Inv, Progress
<1> QED BY <1>1, CleanUpInv DEF GiveUp, Goes

LEMMA CleanInv == ASSUME Inv, Clean PROVE Inv'
<1>1. ret # NotYet
  BY DEF Clean, Goes, Inv, Progress
<1> QED BY <1>1, CleanUpInv DEF Clean, Goes, ExitCode

LEMMA CompiledInv == ASSUME Inv, Compiled PROVE Inv'
<1>1. /\ pc = "loop" /\ pc' = "exec"
      /\ UNCHANGED <<nfn, nfiles, loaded, live, misused, ret, code>>
  BY DEF Compiled, Goes
<1>2. nfn \in Nat /\ nfiles = nfn + 1 /\ nfiles \in 1 .. nfn + 1
  BY <1>1 DEF Compiled, MoreFiles, Inv, TypeOK, Progress
<1>3. Accounted'
  BY <1>1, BaseStays DEF Inv, Accounted
<1>4. nfn > 0
  BY <1>1 DEF Inv, Progress
<1> QED BY <1>1, <1>2, <1>3, <1>4 DEF Inv, TypeOK, Progress, Filing, Whole

LEMMA ExecProgInv == ASSUME Inv, ExecProg PROVE Inv'
<1>1. /\ pc = "exec" /\ pc' \in {"clean", "killed", "stuck"}
      /\ UNCHANGED <<nfn, nfiles, loaded, live, misused, code>>
  BY DEF ExecProg
<1>2. Accounted'
  BY <1>1, BaseStays DEF Inv, Accounted
<1>3. ret' \in {NotYet, 0, EXEC_ERR} /\ (pc' = "clean" <=> ret' # NotYet)
  BY DEF ExecProg, Inv, Progress, NotYet, EXEC_ERR
<1> QED BY <1>1, <1>2, <1>3 DEF Inv, TypeOK, Progress, Filing, Whole

-----------------------------------------------------------------------------

LEMMA InitInv == ASSUME Init PROVE Inv
<1>1. TypeOK
  <2>1. nfn \in Nat /\ nfiles \in 0 .. nfn + 1
    BY MaxFilesAssumption DEF Init
  <2>2. misused \in BOOLEAN
    BY DEF Init
  <2> QED BY <2>1, <2>2 DEF Init, TypeOK
<1>2. misused = FALSE /\ Accounted
  BY DEF Init, Accounted
<1>3. Progress
  BY DEF Init, Progress, Filing
<1> QED BY <1>1, <1>2, <1>3 DEF Inv

LEMMA NextInv == ASSUME Inv, [Next]_vars PROVE Inv'
<1>1. CASE UNCHANGED vars
  BY <1>1, BaseStays
     DEF vars, Inv, TypeOK, Accounted, Progress, Filing, Whole,
         TokensOf, ReadingOf, SymbolsOf, InstsOf, MemOf, FileOf
<1> QED BY <1>1, NoFilesInv, MakeProgInv, ProcFileInv, OpenInv, ScanInv,
           ScanFailedInv, NewTablesInv, ParseInv, FileLoadedInv, GiveUpInv,
           CompiledInv, ExecProgInv, CleanInv DEF Next

LEMMA InvHolds == Spec => []Inv
<1>1. Init => Inv
  BY InitInv
<1>2. Inv /\ [Next]_vars => Inv'
  BY NextInv
<1> QED BY <1>1, <1>2, PTL DEF Spec

\* Calls, results and the count of files stay what they are declared to be:
\* `nfiles` never passes the one past the last file, and an exit status has
\* eight bits.
THEOREM RunTypeCorrect == Spec => []TypeOK
<1>1. Inv => TypeOK
  BY DEF Inv
<1> QED BY <1>1, InvHolds, PTL

\* For any number of files and any failure, the process that exits has
\* released all it allocated (prog.c:300-365, 382-391).
THEOREM NoLeak == Spec => []NothingLeaked
<1>1. Inv => NothingLeaked
  BY DEF Inv, Accounted, NothingLeaked
<1> QED BY <1>1, InvHolds, PTL

\* No cleanup releases what is not live, and none overwrites what is.
THEOREM NoDoubleRelease == Spec => []ReleasedOnce
<1>1. Inv => ReleasedOnce
  BY DEF Inv, ReleasedOnce
<1> QED BY <1>1, InvHolds, PTL

\* A program is executed only if each of its files was compiled, in order.
THEOREM WholeProgramsOnly == Spec => []OnlyWholePrograms
<1>1. Inv => OnlyWholePrograms
  BY DEF Inv, Progress, Whole, OnlyWholePrograms
<1> QED BY <1>1, InvHolds, PTL

\* The exit status is zero exactly after a whole program ran without an error.
THEOREM ExitStatusTells == Spec => []ExitCodeTells
<1>1. Inv => ExitCodeTells
  BY DEF Inv, TypeOK, Progress, Whole, ExitCodeTells, NotYet, EXEC_ERR, StatusMod
<1> QED BY <1>1, InvHolds, PTL
=============================================================================
