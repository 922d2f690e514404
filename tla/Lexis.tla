------------------------------- MODULE Lexis -------------------------------
(***************************************************************************)
(* The tokens of the VM language, as the match functions of src/scan.c     *)
(* recognise them at the start of a text.  A text is a sequence of         *)
(* characters; numbers and identifiers are complete only when whitespace   *)
(* follows them, keywords always.                                          *)
(***************************************************************************)
EXTENDS Integers, Sequences, SequencesExt

CONSTANTS
  Chars,      \* what a file may be made of
  Keywords,   \* the literals of the match functions, no one a prefix of another
  Letters,    \* characters an identifier may start with
  Digits,     \* the decimal digits
  DigitValue(_),
  Newline, Slash,
  Blanks,     \* what isspace() accepts, Newline among it
  MaxDigits,  \* 5
  MaxUint,    \* 65535
  MaxIdent    \* MAX_IDENT_LEN

ASSUME AlphabetAssumption ==
  /\ Newline \in Blanks
  /\ Letters \cap Digits = {}
  /\ (Letters \cup Digits \cup {Slash}) \cap Blanks = {}
  /\ Slash \notin Letters \cup Digits
  /\ Letters \cup Digits \cup Blanks \cup {Slash} \subseteq Chars
ASSUME KeywordsAssumption ==
  /\ Keywords \subseteq Seq(Chars \ Blanks)
  /\ \A v, w \in Keywords : v # <<>> /\ (IsPrefix(v, w) => v = w)
ASSUME LimitsAssumption ==
  MaxDigits \in Nat \ {0} /\ MaxUint \in Nat /\ MaxIdent \in Nat \ {0}

From(text, n) == SubSeq(text, n + 1, Len(text))
Least(a, b) == IF a < b THEN a ELSE b

\* The number of characters of S that a text starts with.
Lead(text, S) ==
  CHOOSE n \in 0 .. Len(text) :
    /\ \A i \in 1 .. n : text[i] \in S
    /\ n < Len(text) => text[n + 1] \notin S

\* A position counts lines and columns from zero.
Start == [ln |-> 0, cl |-> 0]
\* The position after n characters of a text that is at pos.
Move(pos, text, n) ==
  LET newlines == {i \in 1 .. n : text[i] = Newline}
  IN  IF newlines = {} THEN [pos EXCEPT !.cl = @ + n]
      ELSE [ln |-> pos.ln + Cardinality(newlines), cl |-> n - Max(newlines)]

\* Mutant: a token may end where the block ends.
Delimited_AtBlockEnd(text, n, ends) ==
  n = Len(text) \/ text[n + 1] \in Blanks

\* The first n characters are followed by whitespace; `ends` says that the
\* text is the end of the input, which delimits as well.
Delimited(text, n, ends) ==
  IF n = Len(text) THEN ends ELSE text[n + 1] \in Blanks

\* A number above MaxUint is saturated.
Value(digits) ==
  LET val[n \in Nat] ==
        IF n = 0 THEN 0 ELSE 10 * val[n - 1] + DigitValue(digits[n])
  IN  Least(val[Len(digits)], MaxUint)

Lexeme(length, t, val) == [length |-> length, t |-> t, val |-> val]

KeywordAt(text) ==
  {Lexeme(Len(w), "keyword", w) : w \in {v \in Keywords : IsPrefix(v, text)}}

UintAt(text, ends) ==
  LET n == Least(Lead(text, Digits), MaxDigits)
  IN  IF n > 0 /\ Delimited(text, n, ends)
      THEN {Lexeme(n, "uint", <<Value(SubSeq(text, 1, n))>>)} ELSE {}

\* An identifier that is too long is cut off, and consumed as a whole.
IdentAt(text, ends) ==
  LET n == Lead(text, Letters \cup Digits)
  IN  IF text # <<>> /\ text[1] \in Letters /\ Delimited(text, n, ends)
      THEN {Lexeme(n, "ident", SubSeq(text, 1, Least(n, MaxIdent)))} ELSE {}

\* What the first match function that succeeds makes of a text, if any does:
\* keywords go before identifiers.
LexemeAt(text, ends) ==
  IF KeywordAt(text) # {} THEN KeywordAt(text)
  ELSE UintAt(text, ends) \cup IdentAt(text, ends)

CommentAt(text) == IsPrefix(<<Slash, Slash>>, text)

Token(lexeme, pos) == [t |-> lexeme.t, val |-> lexeme.val, pos |-> pos]
=============================================================================
