-------------------------------- MODULE Scan --------------------------------
(***************************************************************************)
(* `scan` and `scan_blk` of src/scan.c: a file is read block by block, the *)
(* characters of a block that may be the start of a longer token are moved *)
(* to the start of the next one, and a newline is appended to a file that  *)
(* ends without one.  `read` fills the block unless the file ends, as it   *)
(* does for a regular file.  `proc_file` of src/prog.c scans one file      *)
(* after another, each into a token array of its own.                      *)
(***************************************************************************)
EXTENDS Lexis

CONSTANTS
  BlockSize,   \* SCAN_BLOCK_SIZE
  TokenBlock,  \* TOKEN_BLOCK_SIZE
  Files        \* the files considered

ASSUME BlockSizeAssumption == BlockSize \in Nat /\ BlockSize >= MaxIdent
ASSUME FilesAssumption == Files \subseteq Seq(Chars)
ASSUME TokenBlockAssumption == TokenBlock \in Nat \ {0}

VARIABLES
  file,            \* the text of the file that is scanned
  unread,          \* what `read` has not delivered yet
  rest,            \* the block from `offset` on; between blocks, what is kept
  orig_len,        \* the length of the block before a newline is appended
  cur,             \* tokens->cur, the position of the next character
  tokens,          \* the tokens found, with their positions
  room,            \* tokens->len, the cells allocated for them
  inside_comment,  \* the static variable of scan_blk
  status           \* "idle" between two files, "read" or "scan" in the loop,
                   \* or how `scan` returned

vars ==
  <<file, unread, rest, orig_len, cur, tokens, room, inside_comment, status>>

-----------------------------------------------------------------------------
(* The files of a program, as `proc_file` goes through them. *)

\* `new_tokens` and the entry of `scan`.
StartFile ==
  /\ status = "idle" /\ status' = "read"
  /\ file' \in Files /\ unread' = file'
  /\ UNCHANGED <<rest, orig_len, cur, tokens, room, inside_comment>>

\* The file has been parsed and there may be another: only `inside_comment`
\* is left.
FinishFile ==
  /\ status = "ok" /\ status' = "idle"
  /\ file' = <<>> /\ unread' = <<>> /\ rest' = <<>> /\ orig_len' = 0
  /\ cur' = Start /\ tokens' = <<>> /\ room' = TokenBlock
  /\ UNCHANGED inside_comment

-----------------------------------------------------------------------------
(* The loop of `scan`. *)

\* Mutant: the newline is appended to a full block as well.
Terminated_Always(block) ==
  IF block # <<>> /\ Last(block) # Newline THEN Append(block, Newline) ELSE block

\* A last block that does not end with a newline is given one.
Terminated(block) ==
  IF block # <<>> /\ Len(block) < BlockSize /\ Last(block) # Newline
  THEN Append(block, Newline) ELSE block

ReadBlock ==
  /\ status = "read"
  /\ LET n     == Least(BlockSize - Len(rest), Len(unread))
         block == rest \o SubSeq(unread, 1, n)
     IN  /\ unread' = From(unread, n)
         /\ rest' = Terminated(block)
         /\ orig_len' = Len(block)
  /\ status' = "scan"
  /\ UNCHANGED <<file, cur, tokens, room, inside_comment>>

\* `open` or `read` fails.
ReadFails ==
  /\ status = "read"
  /\ status' = "failed"
  /\ UNCHANGED <<file, unread, rest, orig_len, cur, tokens, room, inside_comment>>

\* Mutant: half a block is taken to overlap.
Overlaps_Half(n) == 2 * n >= BlockSize /\ n < BlockSize

\* Whether the last n characters of a block overlap the first n without
\* being the same: AddressSanitizer, part of every build, stops at `memcpy`.
Overlaps(n) == 2 * n > BlockSize /\ n < BlockSize

\* `scan_blk` returns and leaves the text for the next block, if any.
LeaveBlock(text) ==
  /\ rest' = text
  /\ status' = IF Overlaps(Len(text)) THEN "abort"
               ELSE IF orig_len = BlockSize THEN "read" ELSE "ok"
  /\ UNCHANGED <<file, unread, orig_len, tokens, room, inside_comment>>

-----------------------------------------------------------------------------
(* The loop of `scan_blk`. *)

Scanning == status = "scan" /\ rest # <<>>

EndOfBlock ==
  /\ status = "scan" /\ rest = <<>>
  /\ LeaveBlock(<<>>) /\ UNCHANGED cur

\* Mutant: the end of the comment is looked for one character ahead.
SkipComment_Ahead ==
  /\ Scanning /\ inside_comment
  /\ rest' = Tail(rest)
  /\ cur' = Move(cur, rest, 1)
  /\ inside_comment' = ~(Len(rest) > 1 /\ rest[2] = Newline)
  /\ UNCHANGED <<file, unread, orig_len, tokens, room, status>>

SkipComment ==
  /\ Scanning /\ inside_comment
  /\ rest' = Tail(rest)
  /\ cur' = Move(cur, rest, 1)
  /\ inside_comment' = (Head(rest) # Newline)
  /\ UNCHANGED <<file, unread, orig_len, tokens, room, status>>

\* The block after `eat_ws`, and the position there.
Next_ws == Lead(rest, Blanks)
Text == From(rest, Next_ws)

Pos == Move(cur, rest, Next_ws)

\* n characters and the whitespace after them are consumed.
Consume(n) ==
  LET after == From(Text, n)
      m     == Lead(after, Blanks)
  IN  /\ rest' = From(after, m)
      /\ cur' = Move([Pos EXCEPT !.cl = @ + n], after, m)

MatchToken ==
  /\ Scanning /\ ~inside_comment
  /\ \E lexeme \in LexemeAt(Text, FALSE) :
       /\ room' = IF Len(tokens) >= room THEN room + TokenBlock ELSE room
       /\ tokens' = Append(tokens, Token(lexeme, Pos))
       /\ Consume(lexeme.length)
  /\ UNCHANGED <<file, unread, orig_len, inside_comment, status>>

\* The whitespace after `//` is consumed as it is after any other match, even
\* if the newline that should end the comment is part of it.
MatchComment ==
  /\ Scanning /\ ~inside_comment
  /\ CommentAt(Text)
  /\ inside_comment' = TRUE
  /\ Consume(2)
  /\ UNCHANGED <<file, unread, orig_len, tokens, room, status>>

\* Nothing matches: an error if what follows is delimited, otherwise it may
\* be the start of something (`num_trailing`).
NoMatch ==
  /\ Scanning /\ ~inside_comment
  /\ LexemeAt(Text, FALSE) = {} /\ ~CommentAt(Text)
  /\ cur' = Pos
  /\ \/ /\ \E i \in DOMAIN Text : Text[i] \in Blanks
        /\ status' = "error"
        /\ UNCHANGED <<file, unread, rest, orig_len, tokens, room, inside_comment>>
     \/ /\ \A i \in DOMAIN Text : Text[i] \notin Blanks
        /\ LeaveBlock(Text)

Init ==
  /\ file = <<>> /\ unread = <<>> /\ rest = <<>> /\ orig_len = 0
  /\ cur = Start /\ tokens = <<>> /\ room = TokenBlock
  /\ inside_comment = FALSE
  /\ status = "idle"

ScanFile == \/ ReadBlock \/ ReadFails \/ EndOfBlock
            \/ SkipComment \/ MatchToken \/ MatchComment \/ NoMatch

Next == StartFile \/ ScanFile \/ FinishFile

\* Once started a scan goes on; there may be no further file.
Spec == Init /\ [][Next]_vars /\ WF_vars(ScanFile)

-----------------------------------------------------------------------------
(* Properties. *)

Returned == status \in {"ok", "error", "failed"}

\* The type invariant: the characters in the block, the appended newline
\* included, never exceed the block, nor the tokens their cells.
TypeOK ==
  /\ file \in Files \cup {<<>>}
  /\ \E n \in 0 .. Len(file) : unread = From(file, n)
  /\ Len(rest) <= BlockSize /\ orig_len \in 0 .. BlockSize
  /\ Len(tokens) <= room
  /\ inside_comment \in BOOLEAN
  /\ status \in {"idle", "read", "scan", "abort", "ok", "error", "failed"}

\* How much of the file has been consumed, an appended newline not counted.
Appended == 0 < orig_len /\ orig_len < BlockSize /\ Last(file) # Newline
Consumed ==
  Least(Len(file),
        Len(file) - Len(unread) - Len(rest) + (IF Appended THEN 1 ELSE 0))

\* Where the blocks end makes no difference: the scanner finds the tokens of
\* the whole text, in their places, and rejects what the whole text rejects.
TextScan == INSTANCE TextScan
  WITH at <- Consumed, comment <- inside_comment,
       outcome <- IF Returned \/ status = "idle" THEN status ELSE "scanning"
ImplementsTextScan == TextScan!ASpec

\* Every file in which nothing between whitespace is longer than half a block
\* is scanned to the end or rejected.
ShortRuns ==
  \A i, j \in 1 .. Len(file) :
    (\A k \in i .. j : file[k] \notin Blanks) => 2 * (j - i + 1) <= BlockSize
ShortRunsEnd == (status = "read" /\ ShortRuns) ~> Returned

\* `inside_comment` is read again when the next file is scanned (scan.c:469):
\* a file that ends with a newline and in which no `//` is followed by nothing
\* but blanks on its line leaves no comment open, wherever its blocks end.
EmptyComment ==
  \E i \in 0 .. Len(file) :
    /\ CommentAt(From(file, i))
    /\ LET text == From(file, i + 2)
       IN  \E k \in 1 .. Lead(text, Blanks) : text[k] = Newline
CommentsEnd ==
  status = "ok" /\ file # <<>> /\ Last(file) = Newline /\ ~EmptyComment
    => ~inside_comment

\* "The comment is terminated by a newline" (scan.c): while a comment is being
\* skipped, no newline has been consumed since the `//` it started with.
CommentStaysOnLine ==
  (inside_comment /\ status = "scan") =>
    \E s \in 0 .. Consumed - 2 :
      /\ CommentAt(From(file, s))
      /\ \A k \in s + 3 .. Consumed : file[k] # Newline
=============================================================================
