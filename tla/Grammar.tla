------------------------------ MODULE Grammar ------------------------------
(***************************************************************************)
(* The VM language over tokens: the statement forms that the functions of  *)
(* src/parse.c accept, and what a text means, stated for the whole text    *)
(* and not by reading it.  No operand is a keyword, so the keywords alone  *)
(* tell where the statements of a text begin.                              *)
(***************************************************************************)
EXTENDS Insts, FiniteSets

\* A token of src/scan.h: `val` is the value of a number or the name of an
\* identifier, and its own code for a keyword.
MemoryTokens == {"PUSH", "POP"}
GotoTokens == {"GOTO", "IF_GOTO"}
MapTokens == UnaryOps \cup BinaryOps \cup {"RET"}
DeclTokens == {"LABEL", "FUNC"}
InstTokens == MemoryTokens \cup GotoTokens \cup MapTokens \cup DeclTokens \cup {"CALL"}
TokenCodes == InstTokens \cup Segments \cup {"UINT", "IDENT"}

Keyword(t) == [t |-> t, val |-> t]
Uint(n) == [t |-> "UINT", val |-> n]
Ident(name) == [t |-> "IDENT", val |-> name]
Token == {Keyword(t) : t \in InstTokens \cup Segments}
           \cup {Uint(n) : n \in Word} \cup {Ident(name) : name \in Idents}

-----------------------------------------------------------------------------
(* The operands a statement has, by its keyword: sets of token codes. *)

Operands(t) ==
  CASE t \in MemoryTokens       -> << Segments, {"UINT"} >>
    [] t \in GotoTokens         -> << {"IDENT"} >>
    [] t = "LABEL"              -> << {"IDENT"} >>
    [] t \in {"FUNC", "CALL"}   -> << {"IDENT"}, {"UINT"} >>
    [] t \in MapTokens          -> <<>>

\* Where the statements of a text begin.
Starts(text) == {i \in DOMAIN text : text[i].t \in InstTokens}

\* The start of the statement before position k, if there is one.
Before(text, k) ==
  {i \in Starts(text) : i < k /\ \A j \in Starts(text) : j < k => j <= i}

\* Position k is a fault: the end of the text (k is just past it), or the next
\* statement, comes before the last operand, or what stands there is neither a
\* statement's start nor the operand that is due.
Due(text, i, k) ==
  IF k - i \in DOMAIN Operands(text[i].t) THEN Operands(text[i].t)[k - i] ELSE {}
StatementEnds(text, k) == k = Len(text) + 1 \/ k \in Starts(text)
Fault(text, k) ==
  IF StatementEnds(text, k)
  THEN \E i \in Before(text, k) : Due(text, i, k) # {}
  ELSE ~ \E i \in Before(text, k) : text[k].t \in Due(text, i, k)

Faults(text) == {k \in 1 .. Len(text) + 1 : Fault(text, k)}
WellFormed(text) == Faults(text) = {}

-----------------------------------------------------------------------------
(* What a well-formed text means. *)

InstStarts(text) == {i \in Starts(text) : text[i].t \notin DeclTokens}
DeclStarts(text) == Starts(text) \ InstStarts(text)

\* The number of instructions that begin before position k.
InstsBefore(text, k) == Cardinality({i \in InstStarts(text) : i < k})

InstAt(text, i) ==
  LET t == text[i].t
  IN  CASE t = "PUSH"      -> PushI(text[i + 1].t, text[i + 2].val)
        [] t = "POP"       -> PopI(text[i + 1].t, text[i + 2].val)
        [] t \in GotoTokens -> [Plain(t) EXCEPT !.ident = text[i + 1].val]
        [] t = "CALL"      -> CallI(text[i + 1].val, text[i + 2].val)
        [] t \in MapTokens -> Plain(t)

KeyAt(text, i) ==
  IF text[i].t = "FUNC" THEN Func(text[i + 1].val) ELSE Label(text[i + 1].val)

ValAt(text, i) ==
  At(InstsBefore(text, i), IF text[i].t = "FUNC" THEN text[i + 2].val ELSE 0)

\* No symbol is declared twice.
SingleDecls(text) ==
  \A i, j \in DeclStarts(text) : KeyAt(text, i) = KeyAt(text, j) => i = j

\* Instructions and symbols are those of the text: every declaration stands
\* for the address of the next instruction.
Means(text, insts, st) ==
  /\ Len(insts) = Cardinality(InstStarts(text))
  /\ \A i \in InstStarts(text) : insts[InstsBefore(text, i) + 1] = InstAt(text, i)
  /\ DOMAIN st = {KeyAt(text, i) : i \in DeclStarts(text)}
  /\ \A i \in DeclStarts(text) : st[KeyAt(text, i)] = ValAt(text, i)
=============================================================================
