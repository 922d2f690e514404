------------------------------ MODULE TextScan ------------------------------
(***************************************************************************)
(* What scanning a file means, with no blocks and no appended newline: the *)
(* tokens of the whole text in order, each at its line and column.  Of the *)
(* files scanned before, all that matters is an open comment.              *)
(***************************************************************************)
EXTENDS Lexis

CONSTANTS Files  \* the texts considered

VARIABLES
  file,     \* the text being scanned, empty between two
  at,       \* how many characters have been consumed
  tokens,   \* the tokens found
  comment,  \* whether a comment is being skipped
  outcome   \* "idle" between two texts, "scanning", "ok", "error" or "failed"

avars == <<file, at, tokens, comment, outcome>>

AInit ==
  /\ file = <<>> /\ at = 0 /\ tokens = <<>>
  /\ comment = FALSE /\ outcome = "idle"

AStart ==
  /\ outcome = "idle" /\ outcome' = "scanning"
  /\ file' \in Files
  /\ UNCHANGED <<at, tokens, comment>>

ANextFile ==
  /\ outcome = "ok" /\ outcome' = "idle"
  /\ file' = <<>> /\ at' = 0 /\ tokens' = <<>>
  /\ UNCHANGED comment

\* Nothing but whitespace lies between i and j.
Blank(i, j) == i <= j /\ \A k \in i + 1 .. j : file[k] \in Blanks

Place(i) == Move(Start, file, i)

\* Whitespace around a token goes with it.
AToken ==
  /\ outcome = "scanning" /\ ~comment
  /\ \E s \in at .. Len(file) :
       /\ Blank(at, s)
       /\ \E lexeme \in LexemeAt(From(file, s), TRUE) :
            /\ tokens' = Append(tokens, Token(lexeme, Place(s)))
            /\ \E e \in s + lexeme.length .. Len(file) :
                 Blank(s + lexeme.length, e) /\ at' = e
  /\ UNCHANGED <<file, comment, outcome>>

ABlanks ==
  /\ outcome = "scanning" /\ ~comment
  /\ \E e \in at + 1 .. Len(file) : Blank(at, e) /\ at' = e
  /\ UNCHANGED <<file, tokens, comment, outcome>>

\* Whitespace directly after `//` may be skipped first, a newline included.
AOpen ==
  /\ outcome = "scanning" /\ ~comment
  /\ \E s \in at .. Len(file) :
       /\ Blank(at, s) /\ CommentAt(From(file, s))
       /\ \E e \in s + 2 .. Len(file) : Blank(s + 2, e) /\ at' = e
  /\ comment' = TRUE
  /\ UNCHANGED <<file, tokens, outcome>>

\* A comment ends with its line, and may end with the file.
ASkip ==
  /\ outcome = "scanning" /\ comment
  /\ \/ at < Len(file) /\ at' = at + 1 /\ comment' = (file[at + 1] # Newline)
     \/ at = Len(file) /\ at' = at /\ comment' = FALSE
  /\ UNCHANGED <<file, tokens, outcome>>

AReject ==
  /\ outcome = "scanning" /\ ~comment
  /\ \E s \in at .. Len(file) - 1 :
       /\ Blank(at, s)
       /\ LexemeAt(From(file, s), TRUE) = {} /\ ~CommentAt(From(file, s))
  /\ outcome' = "error"
  /\ UNCHANGED <<file, at, tokens, comment>>

AFinish ==
  /\ outcome = "scanning" /\ Blank(at, Len(file))
  /\ outcome' = "ok" /\ at' = Len(file)
  /\ UNCHANGED <<file, tokens, comment>>

\* Reading may fail at any time.
AFail ==
  /\ outcome = "scanning" /\ outcome' = "failed"
  /\ UNCHANGED <<file, at, tokens, comment>>

ANext == \/ AStart \/ AToken \/ ABlanks \/ AOpen \/ ASkip
         \/ AReject \/ AFinish \/ AFail \/ ANextFile

ASpec == AInit /\ [][ANext]_avars
=============================================================================
