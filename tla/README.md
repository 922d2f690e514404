# hvme: models, checks and proofs

hvme (`src/src/`) runs programs of the Hack virtual machine. It reads one or
more `.vm` files, compiles each to an array of instructions and a symbol table,
and interprets them on one operand stack, a heap, and a static and a temp
segment per file. It is a single-threaded C program; its difficulty lies not in
concurrency but in long sequences of legal calls on shared memory: the call
stack is interleaved with the values of the functions that use it, allocations
grow and shrink under it, text arrives in blocks, and whatever fails halfway must
clean up what was done so far.

The build uses `-fsanitize=address` and keeps assertions (`src/Makefile:2`), so
an access outside an allocation and a failed assertion are ends of the program,
not undefined states; the models treat them so.

## 1. The system

| component | code | state | operations | modules |
|---|---|---|---|---|
| operand stack | `prog.c:10-65` | `ops`, `sp`, `len` | `new_stack`, `spush`, `spop` | VMStack |
| executor | `exec.c` | `fi`, `ei` of every file, ARG and LCL with their lengths, heap pointers, stdin | one function per instruction, `jump_to`, `exec_call`, `exec_ret`, six builtins, `exec_prog` | Words, Insts, Exec, ExecFrames, CallFrames, Console |
| program memory, builtins | `prog.c:67-290` | heap, static and temp segments, the system file | `new_heap`, `new_mem`, `init_system_file`, heap and memory access | Exec |
| symbol table | `st.c` | cells, `len`, `used` | `new_st`, `insert_st`, `get_st` | SymTab, SymMap |
| scanner | `scan.c` | block buffer, kept characters, position, tokens, static `inside_comment` | `scan`, `scan_blk`, the match functions | Lexis, Scan, TextScan |
| parser | `parse.c` | token stream, instructions, the file's symbol table | `parse` and a function per kind of instruction | Grammar, Parse |
| program loader | `prog.c:295-391` | the files loaded so far, what is allocated | `make_prog`, `proc_file`, `del_prog` | Hvme; its result in Exec's `Init` |
| driver | `main.c`, `hvme.c` | the exit status | load, execute, delete, clean up stdout | Hvme, Console |
| messages, stdout | `msg.c` | the last character printed, stdio's buffer | `hvme_fputs`, `hvme_fprintf`, `clean_stdout`, errors | Console |
| example programs | `examples/` | | | Assembly, Examples (two of them) |
| unit tests | `tests/` | | | not modelled |

How they interact: the driver calls the loader, which for every file calls the
scanner on the whole file, then the parser on the tokens. The parser writes
instructions into the file's array and enters functions and labels with
`insert_st`. The executor reads the arrays and resolves every jump and call with
`get_st`, in the active file first and then in all others. It prints through
`msg.c`, which every error message passes too. All of it is direct calls; what
is shared is the symbol table of a file (parser writes, executor reads), the
operand stack (every instruction) and two static variables (`inside_comment`,
the last character printed).

What makes each part correct, and what is hard about it:

* **Operand stack.** The cells in use lie in the allocation. `spop` shrinks the
  allocation by at most one block per pop, `return` lowers `sp` by any amount
  without shrinking, and an undone pop (`sp += 2`, `sp ++`) raises `sp` without
  growing.
* **Executor.** A function's arguments, locals and working stack are its own; a
  return gives the caller everything back. The state that guarantees this, eight
  saved words per call, lies on the stack the functions themselves push to and
  pop from. Order matters: the return address is read before the return value
  overwrites it, before `jump_to` moves `ei`, and so on.
* **Symbol table.** A map from names to addresses, in which the first definition
  stands. Collisions, wrap-around and reallocation change where a name is
  looked for.
* **Scanner.** The tokens of a file do not depend on where blocks end, and no
  file's comment reaches into the next file.
* **Parser.** What is accepted without an error is what the text says: every
  instruction in its place, every symbol at the instruction that follows its
  declaration. The first error points at the first fault. Statements differ in
  how many tokens they consume and in when the instruction counter moves.
* **Loader and driver.** All or nothing: the program of all files in order, or an
  error; everything allocated is released once, whichever stage of whichever
  file fails, and the exit status tells.
* **Messages, stdout.** Output is buffered, errors are not, and still the
  terminal shows them in order, each error and the shell's prompt on a line of
  its own.

## 2. Modules

`Words` and `Insts` hold words, instructions, files and programs, shared by
parser and executor.

`VMStack` is the operand stack as a value with operators: `Push` is `spush` with
its growth by blocks, `Pop` is `spop` with its shrinking, `CanPop` its floor.

`Exec` is the executor. Variables follow the C structs: `prog` (files with
instructions and symbol table), `fi` and `ei` (`prog->fi`, `File.ei`), `stack`,
`reg` (the registers `arg`, `arg_len`, `lcl`, `lcl_len`, which live in the C
struct `Stack`), `heap`, `ptr` (`_this`, `that`), `mem` (static and temp
segments per file), and `status`, which is `"run"` or the way the run ended: one
value for every error macro of `exec.c:21-97`, `"done"`, `"abort"` for a failed
assertion, `oob_*` for an access that AddressSanitizer stops. One action is one
iteration of the loop in `exec_prog`: the handler with everything it calls, and
`ei ++`. `exec_push` and `exec_pop` are split by group of segments. The system
file is `init_system_file` instruction by instruction: `prog.files[0]` with the
builtins and the startup code at 20.

Words are `0 .. WordMod - 1`; `WordMod` is 2^16 in the program. Where the code
casts a `size_t` to a `Word` (saved registers, the frame address in `exec_ret`)
the model takes `% WordMod`. What `realloc` adds is `Fresh`, any fixed word. In
`Exec`, printing is left out and what is read is chosen from constants.

`ExecFrames` adds two history variables to `Exec`: `calls`, a snapshot of the
caller at every call that has not returned, and `disciplined`, whether every
call so far took its arguments from the caller's own working stack
(`OwnArguments`), and its frame address (`FrameFitsWord`) and its return address
(`ReturnFitsWord`) fit a word. They are read by no action. What a compiler for the VM
language guarantees is the first; the code enforces none of the three. For the first
two that is a finding, for the third see section 3.

`CallFrames` is the abstract specification: activations with arguments, locals
and a working stack of their own that nobody else can touch. ExecFrames maps to
it by reading activations off the machine's memory.

`Console` composes the executor with stdin and stdout. What `Exec` chooses when
it reads, `Console` takes from the characters of stdin (`GetChar`, `GetNum` with
`scanf`'s rules, `GetLine`); the loop that discards a wrong line takes one
character per step (`SkipChar`). What is printed goes to `pending`, stdio's
buffer, with `last_stdout` as in `msg.c`; `Drain` lets stdio write the buffer at
any time, `CleanThen` is `clean_stdout` followed by messages on stderr, `Leave`
the end of `main`. `printed` is a history of what the program printed.
`ImplementsExec` shows that it is Exec: nothing is read or done that Exec does not allow.

`SymTab` is the symbol table cell by cell; keys are abstract, with a hash of
`HashBits` bits of which `delim_hash` takes the top ones. `SymMap` is what
`st.h` promises: a map. `accepted`, the symbols that `insert_st` answered with
`INRES_OK`, is a history variable read by no action.

`Lexis` holds the match functions as operators over a text; `Scan` is `scan`
and `scan_blk`, one action per iteration of either loop, over a file that is a
sequence of characters, for one file after another as `proc_file` scans them: between
two only `inside_comment` is left. `TextScan` scans a text as a whole, with no blocks and no
appended newline, and is what `Scan` implements. Tokens carry their line and
column.

`Grammar` defines tokens and, independently of the parser's code, what a text
over them means: where statements begin (only they start with an instruction's
keyword), which operands are due, which positions are faults, which
instructions and symbols a well-formed text stands for. `Parse` is `parse`, one action
per iteration and kind of statement, with `its_lh` as `Ahead`, the symbol table
as the map `SymMap` (the actions of `SymMap` itself), error messages reduced to
the token they point at, and the operand that `call` leaves uninitialised as a
choice among all words.

`Hvme` is a whole run: `run_hvme`, `make_prog`, `proc_file`, `del_prog` call by
call, with every allocation as a member of `live` and how scanning, parsing and
executing end as choices, for any number of files. Releasing what is not live,
or overwriting what is, sets `misused`.

`Assembly` writes VM programs down, `Examples` has two of `src/examples`, `echo_str`
and `echo_num`, on the console, and what their comments promise of them.

`ExecProofs`, `FrameProofs`, `FrameSimulation`, `ConsoleProofs`, `SymTabProofs`,
`ScanProofs`, `ParseProofs` and `HvmeProofs` hold the proofs. `MC*`
modules and `.cfg` files are the instances for TLC. An operator named
`X_Something` that stands before `X` is a mutant of `X`, a plausible bug; it is
used by nothing.

## 3. Runs

Passing runs:

| run | instance | shows |
|---|---|---|
| `executor` | two files; g has any three of 15 instructions (calls of itself and h, jumps across files, pops into argument, local, pointer, static), 0-2 arguments, 0-1 locals. `Sys.init` with any two of 43 operations, or three of 16 on memory: every segment inside and outside its bounds, symbols missing and defined twice. Calls with up to 14 arguments more than there are, so that frames are overwritten, then pushes and a return. Two calls of any builtins. Calls of g and `Sys.print_num` by a function of more than `WordMod` instructions, before and beyond that many | types (`TypeOK`); the stack stays in its allocation even when frames are overwritten (`StackBacked`); saved words intact and frames apart (`FramesIntact`), callers' cells unchanged (`CallerUntouched`), startup below everything (`StartupBelow`), no wild return (`NoWildReturn`), `Sys.init` leaves one value (`BalancedHalt`), a return restores the caller (`ReturnRestoresCaller`), a refused step leaves the stack as it was (`FailedStepKeepsStack`), only `pop pointer` of a value that is no heap address makes a pointer one, and the assertion of `push pointer` holds until then (`PointersStayAddresses`), the machine implements CallFrames (`ImplementsFrames`) |
| `console` | the echo examples, print-then-fail programs, two calls of any builtins, recursion to depth 3; 18 inputs with empty lines, signs, leading zeros, numbers above 2^32's stand-in, NUL and bytes above 127, with and without a newline at the end | the terminal shows what was printed, in order, then at most a newline and one error (`OutputInOrder`), and ends its last line (`EndsOnNewLine`); the lines and numbers that the echo examples read come back as typed, but for NULs and leading zeros (`EchoesInput`); a wrong number's line is discarded to its newline and then reported (`InvalidLineReported`); every call returns or ends the run (`CallsReturn`); refinement of Exec (`ImplementsExec`) |
| `symbols` | 6 keys, 2 values, a table of 5 cells that is reallocated once, every distribution over first and last index | the table implements SymMap until it is reallocated (`ImplementsMap`); also after that a new symbol always finds a cell (`AssertionOnlyOnRepeat`), every symbol that was accepted is found and what is found was accepted (`NothingLost`), `used` counts (`TypeOK`) |
| `scan` | all files of up to 6 characters over 5, one after another, blocks of 4, token array growing by 1 | no overrun of the buffer or the token array (`TypeOK`); the scanner implements TextScan (`ImplementsTextScan`); files whose words fit half a block are scanned or rejected (`ShortRunsEnd`); a file that ends with a newline and has no empty comment leaves no comment open (`CommentsEnd`) |
| `parse` | all texts of up to 5 of 9 tokens; all sequences of four of 16 statements, 6 of them broken | what is built is a file (`TypeOK`) and, if no error was printed, the one the text means (`ParsedFaithfully`); the first error is at the first fault, and no fault goes unreported (`ErrorAtFault`); valid texts are accepted (`ValidTextParsed`) |
| `hvme` | up to 6 files, every stage of each may fail | nothing leaked at exit (`NothingLeaked`), nothing released twice or lost (`ReleasedOnce`), only whole programs executed (`OnlyWholePrograms`), exit status (`ExitCodeTells`) |

Runs that must find a violation, each a finding of PROJECT.json:

| run | what the code does |
|---|---|
| `borrowed_arguments` | `call f n` checks n against the whole stack, so a call can take its caller's locals and return address |
| `deep_recursion` | from height 2^16 a return reads a truncated frame address (WordMod is 32 in this run) |
| `symbols_duplicate` | after a reallocation a second definition is accepted |
| `symbols_repeat` | `label a` twice in a row fails an assertion |
| `scan_empty_comment` | an empty comment swallows the next line |
| `missing_number` | `function f` or `call f` without its number is reported, and the file is executed all the same |

Other places where the code does not do what it says are in the models, as an
end of the run or a state of its own, without a run to exhibit them:

* `exec_call` keeps the return index in an `Addr` of 16 bits (`exec.c:547`; file index 548, pushed
  as `Word`s), while `parse` makes the array of instructions as long as the file asks for (`parse.c:519-523`).
  From the 65536th instruction on (counted from 0) a call returns to another instruction of the same
  file, 65536 or a multiple of it earlier; no message is given. `Exec` does the same (`SavedWords` takes
  `% WordMod`) and `IsProgram` puts no limit on files. The call ends `disciplined`, so that the
  properties and theorems about frames, whose snapshots hold the whole index, are about calls below that.
  The `executor` run contains such calls (`LongPrograms`): with `ReturnFitsWord` left out of
  `disciplined`, `FramesIntact` fails at the first of them.
* `sp += 2` after an addition overflow (`exec.c:308`, 326) does not "reset the stack to the
  state before" as `exec.c:305-307` says if the two pops gave a block back: `sp` can then exceed the
  allocation. `StackBacked` and `FailedStepKeepsStack` except these two ends, at which the run is over.
* An invalid number in the last, unterminated line of the input is never reported: `fgetc` goes on
  returning EOF and the loop at `exec.c:704` never ends (state `skip_eof`).
* `scanf` takes numbers modulo 2^32 (`exec.c:697`), so 4294967297 is read as 1.
* The last character of a line without a newline is dropped by `Sys.read_str` (`exec.c:740`).
* `this`/`that` accept the address one past the heap (`exec.c:159`, 170, 249,
  256) and `print_str` any address (`exec.c:680`); such a run ends with `oob_heap`.
* `pop pointer` stores any word, and `push pointer` asserts that it is an address
  of the heap (`exec.c:267`, 270); the run ends with `abort`. `PointersStayAddresses`
  says that there is no other way to get there.
* After a NUL has been printed `clean_stdout` takes the line to be ended (`msg.c:54`).
* More than half a block of trailing characters is moved by a `memcpy` between
  overlapping areas (`scan.c:622`), at which AddressSanitizer stops; the scan ends
  with `abort`.
* A word as long as the block leaves no room to read on, and `scan` loops forever
  (`scan.c:624`); `ShortRunsEnd` is asked of files without long words.
* A file can end inside a comment, which `inside_comment` carries into the next
  file (`scan.c:469`); `CommentsEnd` says when it cannot.
* A file that cannot be opened gives no message of its own (`scan.c:563`).

**Bounds.** `StackBlock = 2` makes nearly every push and pop cross a block
boundary, up and down. `WordMod = 64` (32 in `deep_recursion`) is the smallest
convenient power of two above the stack addresses the runs need, and one that `LongPrograms` can exceed; the operands include
0, 1 and `WordMod - 1`, so wrap, overflow and underflow happen. In `console` it is
512, as a word must hold any `char`. `MaxSp`, in MCExec, bounds the stack so that
recursion stops; 56 cells are four to five nested activations, enough for a caller,
its callee and the callee's callee, with saved words of each. Three free
instructions give any pop, write or jump before, between and after two calls.
Every action depends on a constant number of cells and on the two frames around
them, which is why deeper nestings add nothing of a new kind; for types and memory
safety the theorems replace the bounds. `UintMod = 1000` stands for 2^32: two inputs exceed or wrap it.
In SymTab, five cells (the unit tests' size) with keys at the first and
last index give collisions, runs and wrap-around; `MaxUsed` stops insertions
before a second reallocation, so that the 13 cells of `MaxLen` are never reached. In Scan, blocks of 4 and files of 6 give a full
block, kept characters, a refill that is again full, and a last short block; any number of files
follow each other, because all that one leaves is a bit; a
keyword, a number, `//` and whitespace can each lie across the boundary. Keys
are symmetric because all hash functions are considered. In Parse, five arbitrary
tokens hold any statement with any other before or after it, and four statements
any error after two declarations of a name; `InstBlock = 1` makes every
instruction but the first a reallocated one, `WordMod = 3` bounds the choice of
an uninitialised operand. Six files in Hvme are more than enough, and the
theorems do without the bound.

**Fairness.** `Exec`, `ExecFrames` and `Parse` assume weak fairness of the
whole next-state relation: the program is one thread in a loop, and the operating
system runs it. `Scan` assumes it of the scan of a file, not that there is another. `Console` assumes it of the program's own steps only: stdio need
never drain its buffer early. Nothing is assumed about input: that stdin delivers
is part of the step that reads. `CallsReturn` is asked of programs without loops
only; a VM program may well not terminate. SymTab and Hvme have no liveness: the
first because its operations are calls, the second because scanning and
executing may not end, which their own modules are about.

**Deadlock** checking is off because the systems stop: a run ends, a scan
returns, an assertion fails, and the bounds stop the rest.

## 4. Proofs

Every safety property of the passing runs, refinements included, is proved for
all values of the constants.

`ExecProofs` proves, for all values of the constants (any program, word size,
block size, memory sizes, `&` and `|`, and input allowed by the named ASSUMEs):

* `TypeCorrect`: `Spec => []TypeOK`. `fi` is always a file of the program, so no
  return resumes outside it; all cells, segments and pointers hold words.
* `StackSafe`: `Spec => []StackBacked`. `sp <= len`, and `len` is a positive
  number of blocks, in every state except after a failed addition or
  subtraction.

The inductive invariant is their conjunction `Inv`. Neither is inductive alone:
what `spop` returns is a word only because its cell is in the allocation, and
the allocation keeps its shape only because the registers that decide about
popping are numbers. For every action there is a lemma `<Action>Inv`. Handlers
end in one of two ways, so most of them reduce to `StopKeepsInv` and
`AdvanceKeepsInv`; jumps, calls and returns go through `MoveKeepsInv`. The step
that needs thought is `Ret`: it lowers `sp` to `arg + 1` from registers read
off the stack, without any check but the bounds of the accesses themselves. It
is safe because the return value is written at `arg` after the pop, so `arg` lies
in what the pop left allocated (`ReturnedStackTyped`).

Its first section has the facts about `spush` and `spop` these rest on: growth gives
enough whole blocks (`GrownLenFacts`, `MoreBlocks`), shrinking leaves at least one
block above the new `sp` (`OneBlockLess`, `PopFacts`), and neither changes other
cells (`PushAllFacts`, `PokeFacts`).

`FrameProofs` proves what calls and returns promise, for all programs and call
depths: `FramesStayIntact`, `CallersUntouched`, `StartupIsBelow`,
`ReturnsStayInside`, `HaltIsBalanced` and, for every step, `ReturnGivesBack`, all
of `FSpec`, and all of executions as long as they are `disciplined`. None of the properties is inductive: that saved words are not
overwritten depends on where the registers point, the registers come from saved
words, and both depend on the program never leaving the startup code by another
way than its call. The invariant `FramesInv` joins `Inv` with `Orderly`:

* `Stacked`: every pending call is `Pending` (its frame address fits a word, its
  saved words are what was pushed, the callee's registers lie directly above it
  (`Linked`), the cells below are those of the time of the call), a later frame
  lies above an earlier one, and `Floor <= sp`;
* `Outermost`: without a pending call the machine is in the last three
  positions of the system file with the `sp` that belongs to each, otherwise
  the first call is the startup's;
* how a run can end.

The proof has three parts. A step that neither calls nor returns changes the
stack in one of few ways (`LocalIs`), each of which leaves all but the
activation's own arguments and locals alone (`LocalStacksKeep`), and those lie
between the frames (`PendingBelow`, `LocalKeepsStacked`). A call puts a frame on
top in which nothing was truncated: the registers are at most the
frame address, which fits a word, as do the return index and file (`SavedExactly`,
`CallStacked`). A return finds the frame at `lcl`,
pops before it writes, and overwrites at most the return address, which has been
read (`RetIs`), so that what is left is the stack of the caller (`RetStacked`).
That labels never lead into the system file (`LabelsAreUsers`) and calls never
into its startup code (`CallTarget`) is read off `init_system_file`.

`RefusalsKeepTheStack` (`FailedStepKeepsStack`) is an action property of the same
module: in any state in which `Inv` holds, a step that ends the run with a refusal
leaves the stack alone, or pops and puts back (`Refused`), and putting back one
value (`PutBackKeeps`) or two (`UnpopKeeps`) is undoing the pops cell by cell.

`OnlyForeignPopsLoseAddresses` (`PointersStayAddresses`) is one more: the pointers
and all copies of them that pending calls have saved (`Addresses`) stay addresses of the
heap in every step but a `pop pointer` of something else. What a return
loads is the copy its call saved, which `FramesInv` has found to be intact.

`FrameSimulation` proves `FramesImplementCallFrames`, `FSpec => ImplementsFrames`:
the one stack with saved words in between behaves as if each activation had
arguments, locals and working values of its own. The mapping (`ActOf`) reads an
activation off the stack as it is now. For one that waits, `FramesInv` makes
that what it was at the time of its call, so it depends on the recorded
snapshot alone (`WaitingIs`, `ActsAre`). A local step therefore changes only the
last activation (`LocalMaps`). A call moves the arguments from the caller to a
new activation with zeroed locals (`CallerWaits`, `CalleeStarts`, `CallMaps`). A return
drops the last activation and leaves in the caller the cells below the arguments and one
value on top (`CallersCells`, `CallerGoesOn`, `ReturnMaps`). When the run has
ended or discipline is lost the abstract machine has stopped and every step
stutters (`OverStutters`).

`ConsoleProofs` proves `ConsoleImplementsExec` (`ImplementsExec`),
`OutputKeepsOrder` (`OutputInOrder`) and `TerminalOnNewLine` (`EndsOnNewLine`) of
`CSpec`, for every program and every input. For the refinement, every step is
shown to be one of Exec's (`ConsoleSteps`) while what is left of stdin is an end
of what was on it (`StdinLeft`): so the character, the line and the number that
are read are among those that Exec chooses from. The number takes an argument
about a recursive function: the value of n digits exists for every n, by least
counterexample (`SumsExist`, `SumsAgree`, `SumsTotal`), and the modulus keeps it
an unsigned int (`ScannedTyped`). The refinement gives the console all that is
proved of Exec; the other two theorems use it: that what is printed is made of
characters is `Inv` (`PrintsOutput`). Their invariant `Output` says that until
stdout is cleaned (`Flowing`) the terminal followed by the buffer is what was
printed, and the last character is the remembered one unless that is NUL; and
from then on (`Cleaned`) that the buffer is empty and the terminal holds what was
printed, a newline if it lacked one, and at most one message. Neither property is
inductive without the buffer and the remembered character.

`EchoProgramsEcho` (`EchoesInput`) of the same module is about two programs, and for
all inputs, heap, block and word sizes: once `echo_str` or `echo_num` has ended
without an error, it has printed the characters of the first line, without its
NULs, or the digits of the number without leading zeros. It is the whole machine at
work: the startup code, jumps to labels found in symbol tables, frames laid down and
taken back, text through the heap, numbers through `scanf` and `printf`. The
invariant `Echoing` says where the run is and where its data is: one disjunct
for every position of the program counter, grouped in three stages per
program. In the first (`LineReading`, `NumReading`) all of the input is on stdin, in
the second (`LinePrinting`, `NumPrinting`) it is in the heap and its length
on the stack, or the number is on the stack, in the third (`LinePrinted`,
`NumPrinted`) it is printed. Every disjunct names the registers, the `sp`, and the words of the stack that
a later instruction reads, those saved by the calls among them. A step leads from
one disjunct to the next (`FromLineReading`, ...): `Dispatch` says which action the
instruction at hand allows, `CallsBuiltin` and `BuiltinReturns` what a call and its return
do to stack and registers, `ReadsLine`, `ReadsNumber`, `PrintsText` and
`PrintsNumber` what the builtins do. That the numeral comes back is a fact about
decimal numbers (`NumberShown`): the value of digits, and the digits of a value,
are inverse up to leading zeros, by least counterexample in the number of
digits. That a character survives the heap is `CharAgain`, which needs that a
word is at least as wide as a character and of a multiple of its size (`WordCharAssumption`)
as `(Word) (char)` and back are modelled by moduli.

`BadLinesAreDiscarded` is the safety half of `InvalidLineReported`: while a line is discarded its
newline is still on stdin, every step takes one character from it and does nothing
else, and when the error is reported that newline is the last character read and
the message the last thing shown.

`SymTabProofs` proves `TableTyped`, `AlwaysRoom`, `EverySymbolFound` (`TypeOK`,
`AssertionOnlyOnRepeat`, `NothingLost`) and `TableIsMap` (`ImplementsMap`, a
refinement) of SymTab, for every block size, hash function, and set of keys and
values. `TypeOK` is inductive by itself: the number of cells in use follows an
insertion, because the cell taken was free. From it follows by counting that
there is always room: either `used < len`, or the table has just grown, and the
probes of a key visit every cell (`ProbeIsBijection`, `FreeCell`). `NothingLost` is about
`accepted` and needs to know where the accepted symbols are: the invariant
`AcceptedStored` says that they are what the cells hold, no more and no less. It is kept because growing leaves
the old cells as they are and an accepted symbol is put into a free cell
(`InsertStores`); that `get_st` then finds them wherever they lie is `HeldIsFound`, that
it finds nothing else `FoundIsStored`. After a reallocation two values may have
been accepted for one key (finding `symbols_duplicate`); then one of them is found. That the table is a map needs `WayIntact`:
until it is reallocated all cells that the probes of a key meet before the key's own are in
use, so that insertion meets the key before it meets a free cell, and no key
has two cells.

`ScanProofs` proves `ScanTypeCorrect` (`TypeOK`), `CommentsEndWithLines`
(`CommentsEnd`) and `ScanImplementsTextScan` (`ImplementsTextScan`), for every set
of files, every alphabet and every block size that holds an identifier. The
invariant `SInv` (`ScanInvariant`) has four parts:

* `Typed`: what the variables hold, the bounds of buffer and token array included;
* `Window`: the block is the part of `Whole`, the file with the newline that was
  appended to it, from `Raw` on, and `unread` is what follows;
* `Stage`: where the loop is. The position is that of the first character of
  the block (`Here`), a newline is appended only when nothing is left to read, and
  a last block ends with a newline;
* `OpenOnLine`: in a file that ends with a newline and has no empty comment, a
  comment is not open just after a newline.

What makes the block boundaries harmless is a statement about texts alone. A
block u `Shows` a text v if they agree as far as both go, and what u has more is
the newline that was appended. Where whitespace occurs in u, u and v have the same
lexemes (`SameLexemes`), and a lexeme of u is one of v in any case
(`LexemeKept`): literals and runs of letters or digits contain no whitespace, so
they end before it in both, numbers and identifiers are taken only before
whitespace, and of two literals none is a prefix of the other (`OneKeyword`). From this
`MatchTokenKeeps`, `MatchCommentKeeps` and `RejectKeeps` conclude that what a
step matches or rejects in the block the text matches or rejects there, and
`LeaveKeeps` that what is kept for the next block follows blanks only. Positions
add up, across lines too (`MoveMore`, `MatchMeans`). The refinement then has one
lemma per action (`SimulateToken`, `SimulateNoMatch`, ...).

`ShortRunsNeverAbort` and `ShortRunsAdvance` are the safety half of `ShortRunsEnd`. What is
kept for the next block is a run of the file without whitespace (`TextIsShort`), so
at most half a block: the `memcpy` does not overlap (`Kept`), and there is room to read
into. A step therefore decreases, in this order, what is unread, the phase of the
loop, and what is left of the block (`Nearer`). Without the bound on runs both are
false, and both failures are listed in section 3.

`ParseProofs` proves `ParserTypeCorrect`, `Spec => []TypeOK` of Parse, for every
set of texts, block size and word size: whatever tokens a file is made of, what
`parse` has built is a file as the executor assumes it in its `IsProgram`. `TypeOK` is inductive; the work is in the declarations, where
the symbol table changes by `SymMap`'s actions (`DeclareInv`), and in what the
token stream shows near the end of a text (`AheadTyped`).

`ParserFaithful` (`ParsedFaithfully`), `ErrorsPointAtFaults` (`ErrorAtFault`) and
`ValidTextsAccepted` relate the parser to `Grammar`, which does not mention its
code. The invariant `Parsed` has a clause for each situation: while nothing is
reported, the first `idx` tokens are free of faults and whole statements (`SoundTo`), and the
instructions and symbols so far are those they mean (`MeansTo`); once something
is reported, the first report is at the first fault (`FirstFault`), or it is
about a symbol declared twice and every fault comes later (`Twice`). The step that needs work is
that a parse function consumes exactly the operands that are due
(`OperandDue`, `OperandsAhead`) and that the number of instructions before a
statement is the length of the array (`OneMoreCounted`). `ErrorsPointAtFaults`
holds in every state of the parse; the errors after the first keep it
(`ReportedParsed`). `ValidTextsAccepted` is the safety half of `ValidTextParsed`: a
text without faults that declares no symbol twice is never refused, and nothing
is printed about it. That `parse` ends is left to TLC,
but for the reason: `ParserMovesOn` says that every iteration, errors included, consumes
a token and stays inside the text, or is the last.

`HvmeProofs` proves `NoLeak`, `NoDoubleRelease`, `WholeProgramsOnly` and
`ExitStatusTells` for any number of files. None is inductive. The invariant
`Inv` adds `Accounted`, which says for every point of the run exactly what is
allocated there (the program's own blocks, those of the completed files, and
what the file in work has by then), and `Progress`, which relates `nfiles`, the
files loaded and the results. It needs that what is allocated for different
files, or for different purposes, is different (`Fresh`, `Apart`), and that a
loaded file joins those `del_prog` will release (`BaseGrows`). `RunTypeCorrect`
(`TypeOK`), that `nfiles` stays in range and the exit status is a byte, follows.

The assumptions: `WordMod > 22` in Exec (the system file's addresses are words),
the heap is smaller than `WordMod`, block sizes are positive, `&` and `|` of words
are words, programs are what `parse` can produce, of any length, input characters and lines are
words, `WordMod` is a multiple of the number of characters, texts are sequences of tokens. In Lexis and Scan: letters, digits, slash and
whitespace are characters of four disjoint kinds, files are sequences of characters,
no keyword is empty, contains whitespace or is a prefix of another (as of the literals
in `scan.c`), and a block holds an identifier. SymTab's `IndexAssumption` says what the
comment of `delim_hash` says, that the index is inside the table: the top
`log2(n) - 1` bits of a hash are a number below `n`. The prover does not reason
about powers of two, so TLC evaluates the assumption for the sizes of every run, and
`MaxLen` bounds the sizes it is claimed for; in the program, with hashes of 64
bits, it holds for every size there can be. The theorems about frames are about
`disciplined` executions, as the properties are: arguments that are the caller's
own, a stack below `WordMod` cells and calls from the first `WordMod` instructions.

Nothing is proved by induction over an operator: where a fact about all numbers
is needed (`Max`, `Lead`, counting, the value of digits), the proof takes a least
counterexample (`LeastNumber`, from the well-foundedness of `<`).

Only model-checked:

* liveness, which the prover does not handle: `InvalidLineReported` and `CallsReturn` of
  the console, `ShortRunsEnd` of the scanner, `ValidTextParsed` of the parser. Of all but
  `CallsReturn` the variants are proved, so that only the use of fairness, with
  the fact that a step is possible, is TLC's;
* the violation runs, which are counterexamples.

## 5. Not modelled

In the executor: what an instruction printed before AddressSanitizer killed it, and
numbers in the input that do not fit the C library's `unsigned long`. In the
symbol table: the value of djb2 (any hash is considered), `offset` (always zero).
In the scanner: `token_str`, error texts, short reads
(a regular file has none). In the parser: `num_inst`
beyond the first text of a table (`prog.c` gives every file a table of its own),
`inst_str`, and the wording and layout of errors. In the messages: wording,
colours and warnings, which change no state, and a message longer than the
buffer of 1024, which the code takes to be impossible. In the driver: the file names themselves
(`warn_file_ext` reads before a name of fewer than three characters, `msg.c:129`).
Allocation failure: the code asserts that it does not happen. In `spop` the
result of `realloc` to a smaller size is taken to be the same cells. The unit tests and
the other examples are inputs and references, not parts of the system.

## 6. Plan

1. Proofs about the runs that end: which statuses each instruction can end with.
2. The other examples that read or print (`print.vm`, `fibonacci.vm`), with the
   lemmas about calls and builtins that the echo programs rest on.
3. The buffer cells of the messages (`msg.c`) in Console, and file names.
