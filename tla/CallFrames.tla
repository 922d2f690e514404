----------------------------- MODULE CallFrames -----------------------------
(***************************************************************************)
(* What function calls of the VM promise: activations that cannot touch    *)
(* each other.  An activation owns its arguments, its locals, its working  *)
(* stack and its two pointers.  A call moves arguments from the caller's   *)
(* working stack to a new activation; a return destroys the activation,    *)
(* puts one value on the caller's working stack, and the caller goes on    *)
(* after its call with everything else as it left it.                      *)
(***************************************************************************)
EXTENDS Integers, Sequences

CONSTANT Values   \* what a cell can hold

VARIABLES
  acts,    \* the activations, the running one last
  pos,     \* <<file, instruction>> to execute next
  ptrs,    \* the running activation's pointers
  mode     \* "run"; "over" when the program stopped; "lost" when a call took
           \* more arguments than its caller had or found no room for its
           \* addresses, and nothing is promised

avars == <<acts, pos, ptrs, mode>>

\* `from` and `saved` are what the caller gets back when this one returns.
Act(args, locals, from, saved) ==
  [args |-> args, locals |-> locals, work |-> <<>>, from |-> from, saved |-> saved]

Running == acts[Len(acts)]
Caller == acts[Len(acts) - 1]
Below(n) == SubSeq(acts, 1, Len(acts) - n)

AInit ==
  /\ acts = << Act(<<>>, <<>>, <<>>, <<>>) >>
  /\ pos \in Nat \X Nat
  /\ ptrs \in Values \X Values
  /\ mode = "run"

\* A step of the running activation: its argument and local segments keep
\* their sizes, and the activations below it do not change.
ALocal ==
  /\ mode = "run" /\ mode' = "run"
  /\ Len(acts') = Len(acts)
  /\ SubSeq(acts', 1, Len(acts) - 1) = Below(1)
  /\ LET now == acts'[Len(acts)] IN
     /\ Len(now.args) = Len(Running.args)
     /\ Len(now.locals) = Len(Running.locals)
     /\ now.from = Running.from
     /\ now.saved = Running.saved

\* The callee's code says how many locals it gets; they start at zero.
ACall ==
  /\ mode = "run" /\ mode' = "run"
  /\ Len(acts') = Len(acts) + 1
  /\ \E n \in 0 .. Len(Running.work) :
       LET w       == Running.work
           k       == Len(w) - n
           nlocals == Len(acts'[Len(acts')].locals)
       IN  acts' = Below(1)
                   \o << [Running EXCEPT !.work = SubSeq(w, 1, k)],
                         Act(SubSeq(w, k + 1, Len(w)),
                             [i \in 1 .. nlocals |-> 0], pos, ptrs) >>
  /\ ptrs' = ptrs

AReturn ==
  /\ mode = "run" /\ mode' = "run"
  /\ Len(acts) > 1
  /\ Running.work # <<>>
  /\ acts' = Below(2)
             \o << [Caller EXCEPT !.work =
                      Append(@, Running.work[Len(Running.work)])] >>
  /\ pos' = << Running.from[1], Running.from[2] + 1 >>
  /\ ptrs' = Running.saved

\* The program stops, in any activation; or a call goes wrong for good.
AStop == mode = "run" /\ mode' = "over"
ALose == mode = "run" /\ mode' = "lost"
ALost == mode = "lost" /\ mode' = "lost"

ANext == ALocal \/ ACall \/ AReturn \/ AStop \/ ALose \/ ALost

ASpec == AInit /\ [][ANext]_avars
=============================================================================
