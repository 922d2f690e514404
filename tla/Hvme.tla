-------------------------------- MODULE Hvme --------------------------------
(***************************************************************************)
(* One run of the program: `run_hvme` of src/hvme.c, which has the files   *)
(* compiled by `make_prog` and `proc_file` (src/prog.c), executes them and *)
(* cleans up.  What scanning, parsing and executing do is reduced to how   *)
(* they can end (modules Scan, Parse and Exec say when); what is kept is   *)
(* the order of the calls and every allocation and release, the two that   *)
(* `scan` makes included.  An allocation that fails ends the program.      *)
(***************************************************************************)
EXTENDS Integers, Sequences

CONSTANT MaxFiles  \* bound: the number of files on the command line

VARIABLES
  nfn,      \* the number of files given; never changes
  pc,       \* the call that comes next, or how the process ended
  nfiles,   \* prog->nfiles, the index of the file in work; 0 is the system's
  loaded,   \* the files that are completely loaded, in order
  live,     \* what is allocated and not yet released, as << what, file >>
  misused,  \* something was released that was not live, or overwritten
  ret,      \* what `exec_prog` returned; NotYet before it does
  code      \* the process's exit status; NotYet before the end

vars == <<nfn, pc, nfiles, loaded, live, misused, ret, code>>

EXEC_ERR == -1
NotYet == -2
StatusMod == 256  \* an exit status has eight bits
ASSUME MaxFilesAssumption == MaxFiles \in Nat

-----------------------------------------------------------------------------
(* Allocations. *)

OfProgram == { <<what, -1>> : what \in {"prog", "heap", "stack", "files"} }
TokensOf(k) == { <<what, k>> : what \in {"tokens", "tokens_name"} }
ReadingOf(k) == { <<what, k>> : what \in {"fd", "blk"} }
SymbolsOf(k) == { <<"st", k>> }
InstsOf(k) == { <<what, k>> : what \in {"insts", "insts_name"} }
MemOf(k) == { <<what, k>> : what \in {"static", "tmp"} }
FileOf(k) == SymbolsOf(k) \cup InstsOf(k) \cup MemOf(k) \cup { <<"filename", k>> }

\* Release S, then allocate T.
Exchange(S, T) ==
  /\ live' = (live \ S) \cup T
  /\ misused' = (misused \/ ~(S \subseteq live) \/ T \cap (live \ S) # {})

Allocate(T) == Exchange({}, T)
Release(S) == Exchange(S, {})

Goes(from, to) == pc = from /\ pc' = to

-----------------------------------------------------------------------------
(* Compiling. *)

NoFiles ==
  /\ nfn = 0 /\ Goes("start", "exit")
  /\ code' = 1
  /\ UNCHANGED <<nfn, nfiles, loaded, live, misused, ret>>

\* `make_prog` up to the loop: the system file is complete.
MakeProg ==
  /\ nfn > 0 /\ Goes("start", "loop")
  /\ Allocate(OfProgram \cup FileOf(0))
  /\ nfiles' = 1
  /\ UNCHANGED <<nfn, loaded, ret, code>>

\* Mutant: `<` for `<=` in the loop's condition.
MoreFiles_LastSkipped == nfiles < nfn

\* Mutant: the system's file is not counted.
MoreFiles_OneMore == nfiles <= nfn + 1

MoreFiles == nfiles <= nfn

ProcFile ==
  /\ MoreFiles /\ Goes("loop", "open")
  /\ Allocate(TokensOf(nfiles))
  /\ UNCHANGED <<nfn, nfiles, loaded, ret, code>>

Open ==
  /\ pc = "open"
  /\ \/ pc' = "scan" /\ Allocate(ReadingOf(nfiles))
     \/ pc' = "no_tokens" /\ UNCHANGED <<live, misused>>
  /\ UNCHANGED <<nfn, nfiles, loaded, ret, code>>

\* The file is scanned to its end, or reading it fails or a token is wrong, or
\* a word in it is too long for the block: then `scan` is stopped by the
\* sanitizer or reads on forever.
Scan ==
  /\ pc = "scan"
  /\ \/ pc' \in {"tables", "no_tokens"} /\ Release(ReadingOf(nfiles))
     \/ pc' \in {"killed", "stuck"} /\ UNCHANGED <<live, misused>>
  /\ UNCHANGED <<nfn, nfiles, loaded, ret, code>>

ScanFailed ==
  /\ Goes("no_tokens", "give_up")
  /\ Release(TokensOf(nfiles))
  /\ UNCHANGED <<nfn, nfiles, loaded, ret, code>>

NewTables ==
  /\ Goes("tables", "parse")
  /\ Allocate(SymbolsOf(nfiles) \cup InstsOf(nfiles))
  /\ UNCHANGED <<nfn, nfiles, loaded, ret, code>>

\* Mutant: the tokens are released on success only.
ParseError_KeepsTokens ==
  pc' = "give_up" /\ Release(SymbolsOf(nfiles) \cup InstsOf(nfiles))

ParseError ==
  pc' = "give_up" /\ Release(TokensOf(nfiles) \cup SymbolsOf(nfiles) \cup InstsOf(nfiles))

ParseOk ==
  /\ pc' = "loaded"
  /\ Exchange(TokensOf(nfiles), MemOf(nfiles) \cup { <<"filename", nfiles>> })

\* An assertion of `insert_st` may stop the program.
Parse ==
  /\ pc = "parse"
  /\ \/ ParseOk
     \/ ParseError
     \/ pc' = "killed" /\ UNCHANGED <<live, misused>>
  /\ UNCHANGED <<nfn, nfiles, loaded, ret, code>>

FileLoaded ==
  /\ Goes("loaded", "loop")
  /\ loaded' = Append(loaded, nfiles)
  /\ nfiles' = nfiles + 1
  /\ UNCHANGED <<nfn, live, misused, ret, code>>

\* Mutant: the file in work is counted before it is complete.
OfFiles_Inclusive == UNION {FileOf(k) : k \in 0 .. nfiles}

\* `del_file` for all files of the program.
OfFiles == UNION {FileOf(k) : k \in 0 .. nfiles - 1}

\* `del_prog`, and `run_hvme` gives up.
GiveUp ==
  /\ Goes("give_up", "exit")
  /\ Release(OfFiles \cup OfProgram)
  /\ code' = 1
  /\ UNCHANGED <<nfn, nfiles, loaded, ret>>

-----------------------------------------------------------------------------
(* Executing. *)

Compiled ==
  /\ ~MoreFiles /\ Goes("loop", "exec")
  /\ UNCHANGED <<nfn, nfiles, loaded, live, misused, ret, code>>

\* `exec_prog` reads files, and allocates and releases nothing that it keeps
\* but the stack's blocks.
ExecProg ==
  /\ pc = "exec"
  /\ \/ pc' = "clean" /\ ret' \in {0, EXEC_ERR}
     \/ pc' \in {"killed", "stuck"} /\ UNCHANGED ret
  /\ UNCHANGED <<nfn, nfiles, loaded, live, misused, code>>

\* Mutant: errors of the execution are not passed on.
ExitCode_AlwaysZero == 0

ExitCode == ret % StatusMod

Clean ==
  /\ Goes("clean", "exit")
  /\ Release(OfFiles \cup OfProgram)
  /\ code' = ExitCode
  /\ UNCHANGED <<nfn, nfiles, loaded, ret>>

Init ==
  /\ nfn \in 0 .. MaxFiles
  /\ pc = "start" /\ nfiles = 0 /\ loaded = <<>>
  /\ live = {} /\ misused = FALSE
  /\ ret = NotYet /\ code = NotYet

Next == \/ NoFiles \/ MakeProg \/ ProcFile \/ Open \/ Scan \/ ScanFailed
        \/ NewTables \/ Parse \/ FileLoaded \/ GiveUp
        \/ Compiled \/ ExecProg \/ Clean

Spec == Init /\ [][Next]_vars

-----------------------------------------------------------------------------
(* Properties. *)

\* The type invariant.
TypeOK ==
  /\ nfn \in Nat /\ nfiles \in 0 .. nfn + 1
  /\ pc \in {"start", "loop", "open", "scan", "no_tokens", "tables", "parse",
             "loaded", "give_up", "exec", "clean", "exit", "killed", "stuck"}
  /\ misused \in BOOLEAN
  /\ ret \in {NotYet, 0, EXEC_ERR} /\ code \in {NotYet} \cup 0 .. StatusMod - 1

\* However compiling and executing end, at exit everything has been released:
\* the leak check that is part of the build has nothing to report (a leak
\* turns the exit status of a correct run into a failure).
NothingLeaked == pc = "exit" => live = {}

\* Whichever file fails at whichever stage, no cleanup releases what another
\* one already has, what was never allocated, or loses what it has.
ReleasedOnce == ~misused

\* Only a program of which every file was compiled, in the order of the
\* command line, is ever executed.
OnlyWholePrograms ==
  pc = "exec" \/ ret # NotYet => loaded = [k \in 1 .. nfn |-> k]

\* The exit status is zero exactly if all files were compiled and executed
\* without an error.
ExitCodeTells ==
  pc = "exit" =>
    (code = 0 <=> nfn > 0 /\ ret = 0 /\ loaded = [k \in 1 .. nfn |-> k])
=============================================================================
