------------------------------- MODULE MCParse -------------------------------
(* Every text of up to MaxTokens tokens over a small vocabulary, and every   *)
(* text of up to four of the pieces below, whole statements and broken ones. *)
EXTENDS Parse

CONSTANTS MaxTokens  \* bound: the length of a text of any tokens

MCIdents == {"", "a", "b"}

Vocabulary ==
  {Keyword(t) : t \in {"PUSH", "IF_GOTO", "ADD", "LABEL", "FUNC", "CALL", "LOC"}}
  \cup {Uint(1), Ident("a")}

Statements ==
  { << Keyword("RET") >>, << Keyword("POP"), Keyword("ARG"), Uint(2) >>,
    << Keyword("PUSH"), Keyword("CONST"), Uint(0) >>,
    << Keyword("GOTO"), Ident("b") >>, << Keyword("IF_GOTO"), Ident("a") >>,
    << Keyword("LABEL"), Ident("a") >>, << Keyword("LABEL"), Ident("b") >>,
    << Keyword("FUNC"), Ident("a"), Uint(0) >>,
    << Keyword("FUNC"), Ident("a"), Uint(2) >>,
    << Keyword("CALL"), Ident("b"), Uint(1) >> }
BrokenStatements ==
  { << Keyword("POP"), Keyword("ARG") >>, << Keyword("GOTO") >>,
    << Keyword("FUNC"), Ident("a") >>, << Keyword("CALL"), Ident("a") >>,
    << Keyword("NOT"), Uint(1) >>, << Keyword("LABEL"), Uint(1) >> }

Pieces == Statements \cup BrokenStatements \cup {<<>>}

MCTexts ==
  UNION {[1 .. n -> Vocabulary] : n \in 0 .. MaxTokens}
  \cup {p \o q \o r \o s : p, q, r, s \in Pieces}
=============================================================================
