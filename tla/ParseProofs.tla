---------------------------- MODULE ParseProofs ----------------------------
(***************************************************************************)
(* The parser, for every token sequence, block size and word size: what    *)
(* `parse` leaves behind is a file as the executor assumes it, and unless  *)
(* an error was printed it is what the text means; the first error is at   *)
(* the first fault; and a well-formed text without a symbol declared twice *)
(* is never refused.                                                       *)
(***************************************************************************)
EXTENDS Parse, FiniteSetTheorems, TLAPS

-----------------------------------------------------------------------------
(* Tokens. *)

LEMMA TokenTyped ==
  ASSUME NEW tok \in Token
  PROVE  /\ tok.t \in TokenCodes
         /\ tok.t = "UINT" => tok.val \in Word
         /\ tok.t = "IDENT" => tok.val \in Idents
<1>1. "UINT" \notin InstTokens \cup Segments /\ "IDENT" \notin InstTokens \cup Segments
  BY DEF InstTokens, Segments, MemoryTokens, GotoTokens, MapTokens, DeclTokens,
         UnaryOps, BinaryOps
<1>2. CASE tok \in {Keyword(t) : t \in InstTokens \cup Segments}
  BY <1>1, <1>2 DEF Keyword, TokenCodes
<1>3. CASE tok \in {Uint(n) : n \in Word}
  BY <1>3 DEF Uint, TokenCodes
<1>4. CASE tok \in {Ident(name) : name \in Idents}
  BY <1>4 DEF Ident, TokenCodes
<1> QED BY <1>2, <1>3, <1>4 DEF Token

\* What the stream shows is a token of the text, unless the text has ended.
LEMMA AheadTyped ==
  ASSUME TypeOK, NEW n \in 1 .. 3
  PROVE  /\ Ahead(n).t # "NONE" => idx + n <= Len(tokens)
         /\ Ahead(n).t = "UINT" => Ahead(n).val \in Word
         /\ Ahead(n).t = "IDENT" => Ahead(n).val \in Idents
<1>1. tokens \in Seq(Token) /\ Len(tokens) \in Nat /\ idx \in 0 .. Len(tokens)
  BY DEF TypeOK
<1>2. CASE idx + n <= Len(tokens)
  <2>1. Ahead(n) = tokens[idx + n] /\ tokens[idx + n] \in Token
    BY <1>1, <1>2 DEF Ahead
  <2> QED BY <1>2, <2>1, TokenTyped
<1>3. CASE ~(idx + n <= Len(tokens))
  BY <1>3 DEF Ahead, NoneToken
<1> QED BY <1>2, <1>3

-----------------------------------------------------------------------------
(* Instructions. *)

LEMMA SmallWord == 0 \in Word /\ Word \subseteq Nat
  BY WordModAssumption DEF Word

LEMMA PlainTyped ==
  ASSUME NEW op \in UserOps
  PROVE  Plain(op) \in Inst
  BY SmallWord, IdentsAssumption DEF Plain, Inst, Segments

LEMMA MemoryTyped ==
  ASSUME NEW op \in UserOps, NEW seg \in Segments, NEW offset \in Word
  PROVE  [Plain(op) EXCEPT !.seg = seg, !.offset = offset] \in Inst
  BY PlainTyped DEF Inst

LEMMA JumpTyped ==
  ASSUME NEW op \in UserOps, NEW name \in Idents
  PROVE  [Plain(op) EXCEPT !.ident = name] \in Inst
  BY PlainTyped DEF Inst

LEMMA CallTyped ==
  ASSUME NEW name \in Idents, NEW nargs \in Word
  PROVE  CallI(name, nargs) \in Inst
<1>1. Plain("CALL") \in Inst
  BY PlainTyped DEF UserOps
<1> QED BY <1>1 DEF CallI, Inst

LEMMA OpsAreTokens ==
  MemoryTokens \cup GotoTokens \cup MapTokens \cup {"CALL"} \subseteq UserOps
  BY DEF MemoryTokens, GotoTokens, MapTokens, UserOps, UnaryOps, BinaryOps

-----------------------------------------------------------------------------
(* How a step keeps the type invariant. *)

\* The instructions are typed, and every symbol is within them.
InstsTyped ==
  /\ insts \in Seq(Inst)
  /\ \A i \in DOMAIN insts : insts[i].op \in UserOps
SymbolsTyped ==
  /\ DOMAIN st \subseteq SymKey
  /\ \A key \in DOMAIN st :
       st[key] \in SymVal /\ st[key].inst_addr <= Len(insts)

LEMMA TypeParts ==
  TypeOK <=>
    /\ tokens \in Seq(Token)
    /\ idx \in 0 .. Len(tokens)
    /\ InstsTyped /\ SymbolsTyped
    /\ reported \in Seq(1 .. Len(tokens) + 1)
    /\ result \in {"parsing", "ok", "err", "abort"}
  BY DEF TypeOK, InstsTyped, SymbolsTyped, IsFile

\* The same of the next state, when the text stays.
LEMMA TypePartsNext ==
  ASSUME tokens' = tokens, tokens \in Seq(Token), idx' \in 0 .. Len(tokens),
         InstsTyped', SymbolsTyped', reported' \in Seq(1 .. Len(tokens) + 1),
         result' \in {"parsing", "ok", "err", "abort"}
  PROVE  TypeOK'
<1>1. IsFile([insts |-> insts, st |-> st])'
  BY DEF InstsTyped, SymbolsTyped, IsFile
<1> QED BY <1>1 DEF TypeOK, InstsTyped, SymbolsTyped

\* One more instruction leaves every symbol where it is.
LEMMA AppendKeepsTypes ==
  ASSUME InstsTyped, SymbolsTyped, NEW inst \in Inst, inst.op \in UserOps,
         insts' = Append(insts, inst), st' = st
  PROVE  InstsTyped' /\ SymbolsTyped'
<1>1. InstsTyped'
  BY DEF InstsTyped
<1>2. Len(insts') = Len(insts) + 1 /\ Len(insts) \in Nat
  BY DEF InstsTyped
<1>3. SymbolsTyped'
  BY <1>2 DEF SymbolsTyped, SymVal
<1> QED BY <1>1, <1>3

LEMMA ReportTyped ==
  ASSUME TypeOK, NEW n \in Nat, 1 <= n, idx + n <= Len(tokens) + 1
  PROVE  Append(reported, idx + n) \in Seq(1 .. Len(tokens) + 1)
<1>1. idx + n \in 1 .. Len(tokens) + 1
  BY DEF TypeOK
<1> QED BY <1>1 DEF TypeOK

LEMMA EmitInv ==
  ASSUME TypeOK, NEW inst \in Inst, inst.op \in UserOps, NEW n \in 1 .. 3,
         idx + n <= Len(tokens), Emit(inst, n),
         reported' \in Seq(1 .. Len(tokens) + 1)
  PROVE  TypeOK'
<1>1. InstsTyped' /\ SymbolsTyped'
  BY TypeParts, AppendKeepsTypes DEF Emit
<1>2. tokens \in Seq(Token) /\ idx' \in 0 .. Len(tokens)
  BY DEF TypeOK, Emit
<1>3. result' \in {"parsing", "ok", "err", "abort"} /\ tokens' = tokens
  BY DEF TypeOK, Emit
<1> QED BY <1>1, <1>2, <1>3, TypePartsNext

LEMMA RejectInv ==
  ASSUME TypeOK, NEW n \in 1 .. 3, idx + n <= Len(tokens) + 1, Reject(n),
         insts' = insts \/ insts' = Append(insts, Plain(Ahead(1).t)),
         Ahead(1).t \in UserOps \/ insts' = insts
  PROVE  TypeOK'
<1>1. InstsTyped' /\ SymbolsTyped'
  <2>1. CASE insts' = insts
    BY <2>1, TypeParts DEF Reject, InstsTyped, SymbolsTyped
  <2>2. CASE insts' = Append(insts, Plain(Ahead(1).t)) /\ Ahead(1).t \in UserOps
    <3>1. Plain(Ahead(1).t) \in Inst /\ Plain(Ahead(1).t).op \in UserOps
      BY <2>2, PlainTyped DEF Plain
    <3> QED BY <2>2, <3>1, TypeParts, AppendKeepsTypes DEF Reject
  <2> QED BY <2>1, <2>2
<1>2. reported' \in Seq(1 .. Len(tokens) + 1)
  BY ReportTyped DEF Reject, Report
<1>3. /\ tokens' = tokens /\ idx' = idx
      /\ result' \in {"parsing", "ok", "err", "abort"}
  BY DEF Reject
<1>4. tokens \in Seq(Token) /\ idx \in 0 .. Len(tokens)
  BY DEF TypeOK
<1> QED BY <1>1, <1>2, <1>3, <1>4, TypePartsNext

LEMMA DeclareInv ==
  ASSUME TypeOK, NEW key \in SymKey, NEW nlocals \in Word, NEW n \in 1 .. 3,
         NEW printed \in Seq(1 .. Len(tokens) + 1), idx + n <= Len(tokens),
         Declare(key, At(NextAddr, nlocals), n, printed)
  PROVE  TypeOK'
<1> DEFINE val == At(NextAddr, nlocals)
<1>1. val \in SymVal /\ val.inst_addr = Len(insts)
  BY DEF At, NextAddr, SymVal, TypeOK, IsFile
<1>2. InstsTyped' /\ insts' = insts /\ tokens' = tokens
  BY TypeParts DEF Declare, InstsTyped
<1> HIDE DEF val
<1>3. st' = st \/ st' = [k \in DOMAIN st \cup {key} |-> IF k = key THEN val ELSE st[k]]
  BY DEF Declare, Table!AInsertNew, Table!AInsertOld, val
<1>4. SymbolsTyped'
  <2>1. SymbolsTyped /\ Len(insts) <= Len(insts)
    BY TypeParts DEF TypeOK, IsFile
  <2>2. CASE st' = st
    BY <1>2, <2>1, <2>2 DEF SymbolsTyped
  <2>3. CASE st' = [k \in DOMAIN st \cup {key} |-> IF k = key THEN val ELSE st[k]]
    BY <1>1, <1>2, <2>1, <2>3 DEF SymbolsTyped
  <2> QED BY <1>3, <2>2, <2>3
<1>5. idx' \in 0 .. Len(tokens)
  BY <1>2 DEF Declare, TypeOK
<1>6. reported' \in Seq(1 .. Len(tokens) + 1)
  <2>1. Append(printed, idx + 1) \in Seq(1 .. Len(tokens) + 1)
    <3>1. idx + 1 \in 1 .. Len(tokens) + 1
      BY DEF TypeOK
    <3> QED BY <3>1
  <2> QED BY <2>1 DEF Declare
<1>7. result' \in {"parsing", "ok", "err", "abort"}
  BY DEF Declare, TypeOK
<1>8. tokens \in Seq(Token)
  BY DEF TypeOK
<1> QED BY <1>2, <1>4, <1>5, <1>6, <1>7, <1>8, TypePartsNext

-----------------------------------------------------------------------------
(* One lemma per action. *)

LEMMA ReadingFacts ==
  ASSUME TypeOK, NEW codes, Reading(codes)
  PROVE  /\ Ahead(1).t \in codes
         /\ idx + 1 <= Len(tokens) /\ idx + 2 <= Len(tokens) + 1
         /\ Ahead(2).t # "NONE" => idx + 2 <= Len(tokens) /\ idx + 3 <= Len(tokens) + 1
         /\ Ahead(3).t # "NONE" => idx + 3 <= Len(tokens)
         /\ reported \in Seq(1 .. Len(tokens) + 1)
<1>1. idx \in Nat /\ Len(tokens) \in Nat
  BY DEF TypeOK
<1>2. /\ Ahead(2).t # "NONE" => idx + 2 <= Len(tokens)
      /\ Ahead(3).t # "NONE" => idx + 3 <= Len(tokens)
  BY AheadTyped
<1> QED BY <1>1, <1>2 DEF Reading, TypeOK

LEMMA MapInstInv == ASSUME TypeOK, MapInst PROVE TypeOK'
<1>1. Ahead(1).t \in UserOps
  BY OpsAreTokens DEF MapInst, Reading
<1>2. idx + 1 <= Len(tokens) /\ reported' \in Seq(1 .. Len(tokens) + 1)
  BY ReadingFacts DEF MapInst
<1>3. Plain(Ahead(1).t) \in Inst /\ Plain(Ahead(1).t).op \in UserOps
  BY <1>1, PlainTyped DEF Plain
<1> QED BY <1>2, <1>3, EmitInv DEF MapInst

LEMMA MemoryInstInv == ASSUME TypeOK, MemoryInst PROVE TypeOK'
<1>1. Ahead(1).t \in UserOps /\ Reading(MemoryTokens)
  BY OpsAreTokens DEF MemoryInst, Reading
<1>2. CASE ~HasSegment /\ Abandon(2)
  BY <1>1, <1>2, ReadingFacts, RejectInv DEF Abandon
<1>3. ASSUME HasSegment PROVE Ahead(2).t # "NONE"
  BY <1>3 DEF HasSegment, Segments
<1>4. CASE HasSegment /\ Abandon(3)
  BY <1>1, <1>3, <1>4, ReadingFacts, RejectInv DEF Abandon
<1>5. CASE /\ HasSegment /\ Ahead(3).t = "UINT" /\ UNCHANGED reported
           /\ Emit([Plain(Ahead(1).t) EXCEPT !.seg = Ahead(2).t,
                                             !.offset = Ahead(3).val], 3)
  <2> DEFINE inst == [Plain(Ahead(1).t) EXCEPT !.seg = Ahead(2).t,
                                               !.offset = Ahead(3).val]
  <2>1. Ahead(2).t \in Segments /\ Ahead(3).val \in Word
    BY <1>5, AheadTyped DEF HasSegment
  <2>2. inst \in Inst
    BY <1>1, <2>1, MemoryTyped
  <2>3. inst.op \in UserOps
    BY <1>1 DEF Plain
  <2>4. idx + 3 <= Len(tokens) /\ reported' \in Seq(1 .. Len(tokens) + 1)
    BY <1>1, <1>5, ReadingFacts
  <2> HIDE DEF inst
  <2>5. Emit(inst, 3)
    BY <1>5 DEF inst
  <2> QED BY <2>2, <2>3, <2>4, <2>5, EmitInv
<1> QED BY <1>2, <1>4, <1>5 DEF MemoryInst

LEMMA GotoInstInv == ASSUME TypeOK, GotoInst PROVE TypeOK'
<1>1. Ahead(1).t \in UserOps /\ Reading(GotoTokens)
  BY OpsAreTokens DEF GotoInst, Reading
<1>2. CASE ~HasIdent /\ Abandon(2)
  BY <1>1, <1>2, ReadingFacts, RejectInv DEF Abandon
<1>3. CASE /\ HasIdent /\ UNCHANGED reported
           /\ Emit([Plain(Ahead(1).t) EXCEPT !.ident = Ahead(2).val], 2)
  <2> DEFINE inst == [Plain(Ahead(1).t) EXCEPT !.ident = Ahead(2).val]
  <2>1. Ahead(2).val \in Idents
    BY <1>3, AheadTyped DEF HasIdent
  <2>2. inst \in Inst
    BY <1>1, <2>1, JumpTyped
  <2>3. inst.op \in UserOps
    BY <1>1 DEF Plain
  <2>4. idx + 2 <= Len(tokens) /\ reported' \in Seq(1 .. Len(tokens) + 1)
    BY <1>1, <1>3, ReadingFacts DEF HasIdent
  <2> HIDE DEF inst
  <2>5. Emit(inst, 2)
    BY <1>3 DEF inst
  <2> QED BY <2>2, <2>3, <2>4, <2>5, EmitInv
<1> QED BY <1>2, <1>3 DEF GotoInst

LEMMA CallInstInv == ASSUME TypeOK, CallInst PROVE TypeOK'
<1>1. Ahead(1).t \in UserOps /\ Reading({"CALL"})
  BY OpsAreTokens DEF CallInst, Reading
<1>2. CASE ~HasIdent /\ Abandon(2)
  BY <1>1, <1>2, ReadingFacts, RejectInv DEF Abandon
<1>3. ASSUME HasIdent, NEW nargs \in Word, NEW n \in {2, 3},
             n = 3 => Ahead(3).t = "UINT",
             Emit(CallI(Ahead(2).val, nargs), n),
             reported' = reported \/ Report(3)
      PROVE  TypeOK'
  <2>1. Ahead(2).val \in Idents
    BY <1>3, AheadTyped DEF HasIdent
  <2>2. CallI(Ahead(2).val, nargs) \in Inst
    BY <1>3, <2>1, CallTyped
  <2>3. CallI(Ahead(2).val, nargs).op \in UserOps
    BY DEF CallI, Plain, UserOps
  <2>4. idx + n <= Len(tokens)
    BY <1>1, <1>3, ReadingFacts DEF HasIdent
  <2>5. reported' \in Seq(1 .. Len(tokens) + 1)
    <3>1. idx + 3 <= Len(tokens) + 1 /\ reported \in Seq(1 .. Len(tokens) + 1)
      BY <1>1, <1>3, ReadingFacts DEF HasIdent
    <3>2. Append(reported, idx + 3) \in Seq(1 .. Len(tokens) + 1)
      BY <3>1, ReportTyped
    <3> QED BY <1>3, <3>1, <3>2 DEF Report
  <2> QED BY <1>3, <2>2, <2>3, <2>4, <2>5, EmitInv
<1>4. CASE /\ HasIdent /\ Ahead(3).t = "UINT" /\ UNCHANGED reported
           /\ Emit(CallI(Ahead(2).val, Ahead(3).val), 3)
  BY <1>3, <1>4, AheadTyped
<1>5. CASE /\ HasIdent /\ Report(3)
           /\ \E nargs \in Leftover : Emit(CallI(Ahead(2).val, nargs), 2)
  <2>1. Leftover \subseteq Word
    BY SmallWord DEF Leftover
  <2> QED BY <1>3, <1>5, <2>1
<1> QED BY <1>2, <1>4, <1>5 DEF CallInst

LEMMA LabelMetaInv == ASSUME TypeOK, LabelMeta PROVE TypeOK'
<1>1. Reading({"LABEL"})
  BY DEF LabelMeta
<1>2. CASE ~HasIdent /\ Reject(2) /\ UNCHANGED insts
  BY <1>1, <1>2, ReadingFacts, RejectInv
<1>3. CASE HasIdent /\ Declare(Label(Ahead(2).val), At(NextAddr, 0), 2, reported)
  <2>1. Label(Ahead(2).val) \in SymKey
    BY <1>3, AheadTyped DEF HasIdent, SymKey
  <2>2. idx + 2 <= Len(tokens) /\ reported \in Seq(1 .. Len(tokens) + 1)
    BY <1>1, <1>3, ReadingFacts DEF HasIdent
  <2> QED BY <1>3, <2>1, <2>2, SmallWord, DeclareInv
<1> QED BY <1>2, <1>3 DEF LabelMeta

LEMMA FunctionInstInv == ASSUME TypeOK, FunctionInst PROVE TypeOK'
<1>1. Reading({"FUNC"})
  BY DEF FunctionInst
<1>2. CASE ~HasIdent /\ Reject(2) /\ UNCHANGED insts
  BY <1>1, <1>2, ReadingFacts, RejectInv
<1>3. ASSUME HasIdent PROVE Func(Ahead(2).val) \in SymKey
  BY <1>3, AheadTyped DEF HasIdent, SymKey
<1>4. CASE /\ HasIdent /\ Ahead(3).t = "UINT"
           /\ Declare(Func(Ahead(2).val), At(NextAddr, Ahead(3).val), 3, reported)
  <2>1. Ahead(3).val \in Word
    BY <1>4, AheadTyped
  <2>2. idx + 3 <= Len(tokens) /\ reported \in Seq(1 .. Len(tokens) + 1)
    BY <1>1, <1>4, ReadingFacts
  <2> QED BY <1>3, <1>4, <2>1, <2>2, DeclareInv
<1>5. CASE /\ HasIdent
           /\ Declare(Func(Ahead(2).val), At(NextAddr, 0), 2,
                      Append(reported, idx + 3))
  <2>1. idx + 2 <= Len(tokens) /\ idx + 3 <= Len(tokens) + 1
    BY <1>1, <1>5, ReadingFacts DEF HasIdent
  <2>2. Append(reported, idx + 3) \in Seq(1 .. Len(tokens) + 1)
    BY <2>1, ReportTyped
  <2> DEFINE printed == Append(reported, idx + 3)
  <2>3. printed \in Seq(1 .. Len(tokens) + 1)
    BY <2>2
  <2>4. Declare(Func(Ahead(2).val), At(NextAddr, 0), 2, printed)
    BY <1>5
  <2> HIDE DEF printed
  <2> QED BY <1>3, <1>5, <2>1, <2>3, <2>4, SmallWord, DeclareInv
<1> QED BY <1>2, <1>4, <1>5 DEF FunctionInst

LEMMA WrongStartInv == ASSUME TypeOK, WrongStart PROVE TypeOK'
<1>1. idx + 1 <= Len(tokens) + 1
  BY DEF WrongStart, Reading, TypeOK
<1>2. Reject(1) /\ insts' = insts
  BY DEF WrongStart
<1> QED BY <1>1, <1>2, RejectInv

LEMMA FinishInv == ASSUME TypeOK, Finish PROVE TypeOK'
<1>1. InstsTyped' /\ SymbolsTyped'
  BY TypeParts DEF Finish, InstsTyped, SymbolsTyped
<1> QED BY <1>1, TypePartsNext DEF Finish, TypeOK

-----------------------------------------------------------------------------

LEMMA InitTyped == ASSUME Init PROVE TypeOK
<1>1. tokens \in Seq(Token) /\ idx \in 0 .. Len(tokens)
  BY TextsAssumption DEF Init
<1>2. InstsTyped /\ SymbolsTyped
  BY DEF Init, InstsTyped, SymbolsTyped
<1>3. reported \in Seq(1 .. Len(tokens) + 1)
  BY DEF Init
<1> QED BY <1>1, <1>2, <1>3, TypeParts DEF Init

LEMMA NextTyped == ASSUME TypeOK, [Next]_vars PROVE TypeOK'
<1>1. CASE UNCHANGED vars
  <2>1. InstsTyped' /\ SymbolsTyped'
    BY <1>1, TypeParts DEF vars, InstsTyped, SymbolsTyped
  <2> QED BY <1>1, <2>1, TypePartsNext DEF vars, TypeOK
<1> QED BY <1>1, MapInstInv, MemoryInstInv, GotoInstInv, CallInstInv,
           LabelMetaInv, FunctionInstInv, WrongStartInv, FinishInv DEF Next

\* Whatever tokens a file is made of, valid or not, the instructions and the
\* symbols that `parse` builds from them form a file: every operand is a word
\* or a segment, no instruction is a builtin's, every symbol points at an
\* instruction or just past the last, and every error points at a token of
\* the text or just past its end.
THEOREM ParserTypeCorrect == Spec => []TypeOK
<1>1. Init => TypeOK
  BY InitTyped
<1>2. TypeOK /\ [Next]_vars => TypeOK'
  BY NextTyped
<1> QED BY <1>1, <1>2, PTL DEF Spec

-----------------------------------------------------------------------------
(* Statements.  What is said of a text is said of the part that has been   *)
(* read: up to position n.                                                 *)

FaultFree(text, n) == \A k \in 1 .. n : ~Fault(text, k)

\* The statement in which n lies still lacks an operand after n.
Unfinished(text, n) == \E i \in Before(text, n + 1) : Due(text, i, n + 1) # {}

SoundTo(text, n) == FaultFree(text, n) /\ ~Unfinished(text, n)

FirstFault(text, k) == k \in Faults(text) /\ \A j \in Faults(text) : k <= j

\* m operands stand after the keyword at s as they should.
HasOperands(text, s, m) ==
  /\ s + m <= Len(text)
  /\ \A j \in 1 .. m : /\ j \in DOMAIN Operands(text[s].t)
                       /\ text[s + j].t \in Operands(text[s].t)[j]

LEMMA CodesApart ==
  /\ "UINT" \notin InstTokens /\ "IDENT" \notin InstTokens
  /\ Segments \cap InstTokens = {}
  BY DEF InstTokens, Segments, MemoryTokens, GotoTokens, MapTokens, DeclTokens,
         UnaryOps, BinaryOps

LEMMA OperandsAre ==
  /\ \A t \in MemoryTokens : Operands(t) = << Segments, {"UINT"} >>
  /\ \A t \in GotoTokens : Operands(t) = << {"IDENT"} >>
  /\ Operands("LABEL") = << {"IDENT"} >>
  /\ \A t \in {"FUNC", "CALL"} : Operands(t) = << {"IDENT"}, {"UINT"} >>
  /\ \A t \in MapTokens : Operands(t) = <<>>
  BY DEF Operands, MemoryTokens, GotoTokens, MapTokens, UnaryOps, BinaryOps

\* No operand begins a statement, and every one due is something.
LEMMA OperandSets ==
  ASSUME NEW t \in InstTokens, NEW j \in DOMAIN Operands(t)
  PROVE  /\ Operands(t)[j] # {} /\ Operands(t)[j] \cap InstTokens = {}
         /\ "NONE" \notin Operands(t)[j]
<1>1. Segments # {} /\ "NONE" \notin Segments
  BY DEF Segments
<1>2. CASE t \in MemoryTokens
  <2>1. Operands(t) = << Segments, {"UINT"} >>
    BY <1>2, OperandsAre
  <2> QED BY <1>1, <2>1, CodesApart
<1>3. CASE t \in GotoTokens \cup {"LABEL"}
  <2>1. Operands(t) = << {"IDENT"} >>
    BY <1>3, OperandsAre
  <2> QED BY <2>1, CodesApart
<1>4. CASE t \in {"FUNC", "CALL"}
  <2>1. Operands(t) = << {"IDENT"}, {"UINT"} >>
    BY <1>4, OperandsAre
  <2> QED BY <2>1, CodesApart
<1>5. CASE t \in MapTokens
  <2>1. Operands(t) = <<>>
    BY <1>5, OperandsAre
  <2> QED BY <2>1
<1> QED BY <1>2, <1>3, <1>4, <1>5 DEF InstTokens, DeclTokens

\* Operands begin no statement, so the one they belong to is the last before.
LEMMA NoStartWithin ==
  ASSUME NEW text \in Seq(Token), NEW s \in Starts(text), NEW m \in Nat,
         HasOperands(text, s, m)
  PROVE  \A k \in s + 1 .. s + m + 1 : Before(text, k) = {s}
<1>1. s \in Nat /\ s >= 1 /\ Starts(text) \subseteq Nat /\ Len(text) \in Nat
  BY DEF Starts
<1>2. ASSUME NEW j \in 1 .. m PROVE s + j \notin Starts(text)
  <2>1. text[s + j].t \in Operands(text[s].t)[j] /\ j \in DOMAIN Operands(text[s].t)
    BY <1>2 DEF HasOperands
  <2>2. text[s].t \in InstTokens
    BY DEF Starts
  <2> QED BY <2>1, <2>2, OperandSets DEF Starts
<1>3. SUFFICES ASSUME NEW k \in s + 1 .. s + m + 1
               PROVE  Before(text, k) = {s}
  OBVIOUS
<1>4. ASSUME NEW i \in Starts(text), i < k, ~(i <= s)
      PROVE  FALSE
  <2>1. i - s \in 1 .. m /\ i = s + (i - s)
    BY <1>1, <1>4
  <2> QED BY <1>2, <1>4, <2>1
<1>5. \A i \in Starts(text) : i < k => i <= s
  BY <1>4
<1>6. s < k
  BY <1>1
<1>7. \A i \in Starts(text) : i <= s /\ s <= i => i = s
  BY <1>1
<1>8. s \in Before(text, k)
  BY <1>5, <1>6 DEF Before
<1>9. \A i \in Before(text, k) : i = s
  BY <1>5, <1>6, <1>7 DEF Before
<1> QED BY <1>8, <1>9

LEMMA OperandDue ==
  ASSUME NEW text, NEW s \in Nat, NEW j \in Nat
  PROVE  Due(text, s, s + j) =
           IF j \in DOMAIN Operands(text[s].t) THEN Operands(text[s].t)[j] ELSE {}
<1>1. s + j - s = j
  OBVIOUS
<1> QED BY <1>1 DEF Due

\* Where a statement may begin and does, nothing is wrong up to the operands
\* that stand as they should.
LEMMA ReadSoFar ==
  ASSUME NEW text \in Seq(Token), NEW n \in Nat, SoundTo(text, n),
         n + 1 \in Starts(text), NEW m \in Nat, HasOperands(text, n + 1, m)
  PROVE  FaultFree(text, n + 1 + m)
<1>1. ~Fault(text, n + 1)
  BY DEF SoundTo, Unfinished, Fault, StatementEnds
<1>2. ASSUME NEW j \in 1 .. m PROVE ~Fault(text, n + 1 + j)
  <2>1. Before(text, n + 1 + j) = {n + 1}
    <3>1. n + 1 + j \in n + 1 + 1 .. n + 1 + m + 1
      OBVIOUS
    <3> QED BY <3>1, NoStartWithin
  <2>2. /\ j \in DOMAIN Operands(text[n + 1].t)
        /\ text[n + 1 + j].t \in Operands(text[n + 1].t)[j]
        /\ n + 1 + m <= Len(text)
    BY DEF HasOperands
  <2>3. Due(text, n + 1, n + 1 + j) = Operands(text[n + 1].t)[j]
    <3>1. n + 1 \in Nat /\ j \in Nat
      OBVIOUS
    <3> QED BY <2>2, <3>1, OperandDue
  <2>4. text[n + 1].t \in InstTokens
    BY DEF Starts
  <2>5. ~StatementEnds(text, n + 1 + j)
    <3>1. n + 1 + j # Len(text) + 1
      BY <2>2
    <3>2. n + 1 + j \notin Starts(text)
      BY <2>2, <2>4, OperandSets DEF Starts
    <3> QED BY <3>1, <3>2 DEF StatementEnds
  <2> QED BY <2>1, <2>2, <2>3, <2>5 DEF Fault
<1>3. \A k \in 1 .. n + 1 + m : k \in 1 .. n \/ k = n + 1 \/ \E j \in 1 .. m : k = n + 1 + j
  <2> SUFFICES ASSUME NEW k \in 1 .. n + 1 + m, k > n + 1
               PROVE  \E j \in 1 .. m : k = n + 1 + j
    OBVIOUS
  <2>1. k - n - 1 \in 1 .. m /\ k = n + 1 + (k - n - 1)
    OBVIOUS
  <2> QED BY <2>1
<1> QED BY <1>1, <1>2, <1>3 DEF SoundTo, FaultFree

\* A statement with all its operands leaves the text sound.
LEMMA StatementComplete ==
  ASSUME NEW text \in Seq(Token), NEW n \in Nat, SoundTo(text, n),
         n + 1 \in Starts(text), NEW m \in Nat, HasOperands(text, n + 1, m),
         m + 1 \notin DOMAIN Operands(text[n + 1].t)
  PROVE  SoundTo(text, n + 1 + m)
<1>1. Before(text, n + 1 + m + 1) = {n + 1}
  <2>1. n + 1 + m + 1 \in n + 1 + 1 .. n + 1 + m + 1
    OBVIOUS
  <2> QED BY <2>1, NoStartWithin
<1>2. Due(text, n + 1, n + 1 + m + 1) = {}
  <2>1. Due(text, n + 1, n + 1 + (m + 1)) = {}
    <3>1. n + 1 \in Nat /\ m + 1 \in Nat
      OBVIOUS
    <3> QED BY <3>1, OperandDue
  <2>2. n + 1 + m + 1 = n + 1 + (m + 1)
    OBVIOUS
  <2> QED BY <2>1, <2>2
<1>3. ~Unfinished(text, n + 1 + m)
  BY <1>1, <1>2 DEF Unfinished
<1> QED BY <1>3, ReadSoFar DEF SoundTo

\* The first operand that does not stand as it should is the first fault.
LEMMA OperandMissing ==
  ASSUME NEW text \in Seq(Token), NEW n \in Nat, SoundTo(text, n),
         n + 1 \in Starts(text), NEW m \in Nat, HasOperands(text, n + 1, m),
         m + 1 \in DOMAIN Operands(text[n + 1].t),
         n + m + 2 <= Len(text) => text[n + m + 2].t \notin Operands(text[n + 1].t)[m + 1]
  PROVE  FirstFault(text, n + m + 2)
<1>1. Before(text, n + m + 2) = {n + 1}
  <2>1. n + m + 2 \in n + 1 + 1 .. n + 1 + m + 1
    OBVIOUS
  <2> QED BY <2>1, NoStartWithin
<1>2. Due(text, n + 1, n + m + 2) = Operands(text[n + 1].t)[m + 1]
  <2>1. Due(text, n + 1, n + 1 + (m + 1)) = Operands(text[n + 1].t)[m + 1]
    <3>1. n + 1 \in Nat /\ m + 1 \in Nat
      OBVIOUS
    <3> QED BY <3>1, OperandDue
  <2>2. n + 1 + (m + 1) = n + m + 2
    OBVIOUS
  <2> QED BY <2>1, <2>2
<1>3. Due(text, n + 1, n + m + 2) # {}
  BY <1>2, OperandSets DEF Starts
<1>4. n + m + 2 <= Len(text) + 1 /\ Len(text) \in Nat
  BY DEF HasOperands
<1>5. Fault(text, n + m + 2)
  <2>1. CASE StatementEnds(text, n + m + 2)
    BY <1>1, <1>3, <2>1 DEF Fault
  <2>2. CASE ~StatementEnds(text, n + m + 2)
    <3>1. n + m + 2 <= Len(text)
      BY <1>4, <2>2 DEF StatementEnds
    <3> QED BY <1>1, <1>2, <2>2, <3>1 DEF Fault
  <2> QED BY <2>1, <2>2
<1>6. FaultFree(text, n + m + 1)
  <2>1. n + 1 + m = n + m + 1
    OBVIOUS
  <2> QED BY <2>1, ReadSoFar
<1>7. \A j \in Faults(text) : n + m + 2 <= j
  BY <1>4, <1>6 DEF Faults, FaultFree
<1> QED BY <1>4, <1>5, <1>7 DEF FirstFault, Faults

\* So is a token that begins no statement where one should begin.
LEMMA NoStatement ==
  ASSUME NEW text \in Seq(Token), NEW n \in Nat, SoundTo(text, n), n < Len(text),
         n + 1 \notin Starts(text)
  PROVE  FirstFault(text, n + 1)
<1>1. ~StatementEnds(text, n + 1)
  BY DEF StatementEnds
<1>2. Fault(text, n + 1)
  BY <1>1 DEF SoundTo, Unfinished, Fault
<1>3. \A j \in Faults(text) : n + 1 <= j
  BY DEF SoundTo, FaultFree, Faults
<1> QED BY <1>2, <1>3 DEF FirstFault, Faults

-----------------------------------------------------------------------------
(* The meaning of the part that has been read. *)

MeansTo(text, n, is, table) ==
  /\ Len(is) = InstsBefore(text, n + 1)
  /\ \A i \in InstStarts(text) :
       i <= n => is[InstsBefore(text, i) + 1] = InstAt(text, i)
  /\ DOMAIN table = {KeyAt(text, i) : i \in {j \in DeclStarts(text) : j <= n}}
  /\ \A i \in DeclStarts(text) : i <= n => table[KeyAt(text, i)] = ValAt(text, i)

LEMMA StartsBelowFinite ==
  ASSUME NEW text \in Seq(Token), NEW k \in Nat
  PROVE  /\ IsFiniteSet({i \in InstStarts(text) : i < k})
         /\ InstsBefore(text, k) \in Nat
<1>1. {i \in InstStarts(text) : i < k} \subseteq 1 .. Len(text) /\ Len(text) \in Nat
  BY DEF InstStarts, Starts
<1>2. IsFiniteSet(1 .. Len(text))
  BY <1>1, FS_Interval
<1> QED BY <1>1, <1>2, FS_Subset, FS_CardinalityType DEF InstsBefore

\* An instruction that begins before k is counted there.
LEMMA CountedBefore ==
  ASSUME NEW text \in Seq(Token), NEW k \in Nat, NEW i \in InstStarts(text), i < k
  PROVE  InstsBefore(text, i) + 1 \in 1 .. InstsBefore(text, k)
<1> DEFINE A == {j \in InstStarts(text) : j < i}
           B == {j \in InstStarts(text) : j < k}
<1>1. i \in Nat /\ InstStarts(text) \subseteq Nat
  BY DEF InstStarts, Starts
<1>2. IsFiniteSet(A) /\ IsFiniteSet(B) /\ Cardinality(A) \in Nat /\ Cardinality(B) \in Nat
  BY <1>1, StartsBelowFinite DEF InstsBefore
<1>3. i \notin A /\ A \cup {i} \subseteq B
  BY <1>1
<1>4. Cardinality(A \cup {i}) = Cardinality(A) + 1
  BY <1>2, <1>3, FS_AddElement
<1>5. Cardinality(A \cup {i}) <= Cardinality(B)
  BY <1>2, <1>3, FS_Subset
<1>6. InstsBefore(text, i) = Cardinality(A) /\ InstsBefore(text, k) = Cardinality(B)
  BY DEF InstsBefore
<1> HIDE DEF A, B
<1> QED BY <1>2, <1>4, <1>5, <1>6

\* The statement that has been read is the only one that begins there.
LEMMA OneMoreStart ==
  ASSUME NEW text \in Seq(Token), NEW n \in Nat, n + 1 \in Starts(text),
         NEW m \in Nat, HasOperands(text, n + 1, m)
  PROVE  \A i \in Starts(text) : i <= n + 1 + m <=> i <= n \/ i = n + 1
<1>1. n + 1 \in Before(text, n + 1 + m + 1)
  <2>1. n + 1 + m + 1 \in n + 1 + 1 .. n + 1 + m + 1
    OBVIOUS
  <2> QED BY <2>1, NoStartWithin
<1>2. \A i \in Starts(text) : i < n + 1 + m + 1 => i <= n + 1
  BY <1>1 DEF Before
<1>3. Starts(text) \subseteq Nat
  BY DEF Starts
<1> QED BY <1>2, <1>3

LEMMA OneMoreCounted ==
  ASSUME NEW text \in Seq(Token), NEW n \in Nat, n + 1 \in Starts(text),
         NEW m \in Nat, HasOperands(text, n + 1, m)
  PROVE  InstsBefore(text, n + 1 + m + 1) =
           InstsBefore(text, n + 1) + (IF n + 1 \in InstStarts(text) THEN 1 ELSE 0)
<1> DEFINE A == {i \in InstStarts(text) : i < n + 1}
           B == {i \in InstStarts(text) : i < n + 1 + m + 1}
<1>1. InstStarts(text) \subseteq Starts(text) /\ Starts(text) \subseteq Nat
  BY DEF InstStarts, Starts
<1>2. \A i \in InstStarts(text) : i < n + 1 + m + 1 <=> i < n + 1 \/ i = n + 1
  <2>1. \A i \in Starts(text) : i <= n + 1 + m <=> i <= n \/ i = n + 1
    BY OneMoreStart
  <2>2. \A i \in Nat : /\ i < n + 1 + m + 1 <=> i <= n + 1 + m
                       /\ i < n + 1 <=> i <= n
    OBVIOUS
  <2> QED BY <1>1, <2>1, <2>2
<1>3. IsFiniteSet(A) /\ Cardinality(A) \in Nat /\ n + 1 \notin A
  <2>1. n + 1 \in Nat /\ ~(n + 1 < n + 1)
    OBVIOUS
  <2>2. IsFiniteSet(A)
    BY <2>1, StartsBelowFinite
  <2> QED BY <2>1, <2>2, FS_CardinalityType
<1>4. InstsBefore(text, n + 1) = Cardinality(A)
  BY DEF InstsBefore
<1>5. InstsBefore(text, n + 1 + m + 1) = Cardinality(B)
  BY DEF InstsBefore
<1>6. CASE n + 1 \in InstStarts(text)
  <2>1. B = A \cup {n + 1}
    BY <1>2, <1>6
  <2> HIDE DEF A, B
  <2>2. Cardinality(B) = Cardinality(A) + 1
    BY <1>3, <2>1, FS_AddElement
  <2> QED BY <1>4, <1>5, <1>6, <2>2
<1>7. CASE n + 1 \notin InstStarts(text)
  <2>1. B = A
    BY <1>2, <1>7
  <2> HIDE DEF A, B
  <2> QED BY <1>3, <1>4, <1>5, <1>7, <2>1
<1> QED BY <1>6, <1>7

LEMMA InstMeans ==
  ASSUME NEW text \in Seq(Token), NEW n \in Nat, n + 1 \in InstStarts(text),
         NEW m \in Nat, HasOperands(text, n + 1, m),
         NEW is \in Seq(Inst), NEW table, MeansTo(text, n, is, table),
         NEW inst, inst = InstAt(text, n + 1)
  PROVE  MeansTo(text, n + 1 + m, Append(is, inst), table)
<1> DEFINE js == Append(is, inst)
<1>1. n + 1 \in Starts(text) /\ n + 1 \notin DeclStarts(text)
  BY DEF InstStarts, DeclStarts
<1>2. Len(js) = Len(is) + 1 /\ Len(is) \in Nat /\ js[Len(is) + 1] = inst
      /\ \A i \in 1 .. Len(is) : js[i] = is[i]
  OBVIOUS
<1>3. Len(is) = InstsBefore(text, n + 1)
  BY DEF MeansTo
<1>4. Len(js) = InstsBefore(text, n + 1 + m + 1)
  BY <1>1, <1>2, <1>3, OneMoreCounted
<1>5. ASSUME NEW i \in InstStarts(text), i <= n + 1 + m
      PROVE  js[InstsBefore(text, i) + 1] = InstAt(text, i)
  <2>1. i \in Starts(text) /\ i \in Nat
    BY DEF InstStarts, Starts
  <2>2. i <= n \/ i = n + 1
    BY <1>1, <1>5, <2>1, OneMoreStart
  <2>3. CASE i <= n
    <3>1. InstsBefore(text, i) + 1 \in 1 .. Len(is)
      BY <1>3, <2>1, <2>3, CountedBefore
    <3> QED BY <1>2, <2>3, <3>1 DEF MeansTo
  <2>4. CASE i = n + 1
    BY <1>2, <1>3, <2>4
  <2> QED BY <2>2, <2>3, <2>4
<1>6. \A i \in DeclStarts(text) : i <= n + 1 + m <=> i <= n
  <2>1. \A i \in DeclStarts(text) : i \in Starts(text) /\ i \in Nat
    BY DEF DeclStarts, Starts
  <2> QED BY <1>1, <2>1, OneMoreStart
<1> HIDE DEF js
<1>7. DOMAIN table = {KeyAt(text, i) : i \in {j \in DeclStarts(text) : j <= n + 1 + m}}
  <2>1. {j \in DeclStarts(text) : j <= n + 1 + m} = {j \in DeclStarts(text) : j <= n}
    BY <1>6
  <2> QED BY <2>1 DEF MeansTo
<1>8. MeansTo(text, n + 1 + m, js, table)
  BY <1>4, <1>5, <1>6, <1>7 DEF MeansTo
<1> QED BY <1>8 DEF js

\* `after` is the table with one more symbol, or the same if it had it.
Entered(table, key, val, after) ==
  /\ DOMAIN after = DOMAIN table \cup {key}
  /\ \A k \in DOMAIN table : after[k] = table[k]
  /\ after[key] = val

LEMMA DeclMeans ==
  ASSUME NEW text \in Seq(Token), NEW n \in Nat, n + 1 \in DeclStarts(text),
         NEW m \in Nat, HasOperands(text, n + 1, m),
         NEW is \in Seq(Inst), NEW table, MeansTo(text, n, is, table),
         NEW after, Entered(table, KeyAt(text, n + 1), ValAt(text, n + 1), after)
  PROVE  MeansTo(text, n + 1 + m, is, after)
<1>1. n + 1 \in Starts(text) /\ n + 1 \notin InstStarts(text)
  BY DEF InstStarts, DeclStarts
<1>2. Len(is) = InstsBefore(text, n + 1 + m + 1)
  <2>1. InstsBefore(text, n + 1) \in Nat
    <3>1. n + 1 \in Nat
      OBVIOUS
    <3> QED BY <3>1, StartsBelowFinite
  <2> QED BY <1>1, <2>1, OneMoreCounted DEF MeansTo
<1>3. \A i \in InstStarts(text) : i <= n + 1 + m => i <= n
  <2>1. \A i \in InstStarts(text) : i \in Starts(text)
    BY DEF InstStarts
  <2> QED BY <1>1, <2>1, OneMoreStart
<1>4. \A i \in DeclStarts(text) : i <= n + 1 + m <=> i <= n \/ i = n + 1
  <2>1. \A i \in DeclStarts(text) : i \in Starts(text)
    BY DEF DeclStarts
  <2> QED BY <1>1, <2>1, OneMoreStart
<1>5. DOMAIN after = {KeyAt(text, i) : i \in {j \in DeclStarts(text) : j <= n + 1 + m}}
  <2>1. {j \in DeclStarts(text) : j <= n + 1 + m}
          = {j \in DeclStarts(text) : j <= n} \cup {n + 1}
    BY <1>4
  <2> QED BY <2>1 DEF MeansTo, Entered
<1>6. ASSUME NEW i \in DeclStarts(text), i <= n + 1 + m
      PROVE  after[KeyAt(text, i)] = ValAt(text, i)
  <2>1. CASE i <= n
    <3>1. KeyAt(text, i) \in DOMAIN table /\ table[KeyAt(text, i)] = ValAt(text, i)
      BY <2>1 DEF MeansTo, Entered
    <3> QED BY <3>1 DEF Entered
  <2>2. CASE i = n + 1
    BY <2>2 DEF Entered
  <2> QED BY <1>4, <1>6, <2>1, <2>2
<1>7. \A i \in InstStarts(text) :
        i <= n + 1 + m => is[InstsBefore(text, i) + 1] = InstAt(text, i)
  BY <1>3 DEF MeansTo
<1> QED BY <1>2, <1>5, <1>6, <1>7 DEF MeansTo

-----------------------------------------------------------------------------
(* What the parser knows of the part it has read. *)

\* A symbol was defined twice, before anything is wrong with the statements.
Twice == answer = <<"EXISTS">> /\ \A k \in Faults(tokens) : reported[1] < k

Parsed ==
  /\ reported = <<>> =>
       /\ result # "err"
       /\ result # "abort" => SoundTo(tokens, idx) /\ MeansTo(tokens, idx, insts, st)
       /\ result = "ok" => idx = Len(tokens)
  /\ reported # <<>> /\ result # "abort" =>
       FirstFault(tokens, reported[1]) \/ (result = "err" /\ Twice)

\* The same while the parser runs and has found no error.
Unreported ==
  /\ TypeOK /\ reported = <<>> /\ result = "parsing"
  /\ SoundTo(tokens, idx) /\ MeansTo(tokens, idx, insts, st)

\* m operands stand ahead as they should.
GoodOperands(m) ==
  \A j \in 1 .. m : /\ j \in DOMAIN Operands(Ahead(1).t)
                    /\ Ahead(j + 1).t \in Operands(Ahead(1).t)[j]

LEMMA OperandsAhead ==
  ASSUME TypeOK, NEW codes \in SUBSET InstTokens, Reading(codes),
         NEW m \in 0 .. 2, GoodOperands(m)
  PROVE  /\ Ahead(1) = tokens[idx + 1] /\ Ahead(1).t \in codes
         /\ idx + 1 \in Starts(tokens)
         /\ HasOperands(tokens, idx + 1, m)
         /\ \A j \in 1 .. m : Ahead(j + 1) = tokens[idx + 1 + j]
<1>1. tokens \in Seq(Token) /\ idx \in Nat /\ Len(tokens) \in Nat /\ idx < Len(tokens)
  BY DEF TypeOK, Reading
<1>2. Ahead(1) = tokens[idx + 1] /\ Ahead(1).t \in codes
  BY <1>1 DEF Ahead, Reading
<1>3. idx + 1 \in Starts(tokens)
  BY <1>1, <1>2 DEF Starts
<1>4. ASSUME NEW j \in 1 .. m
      PROVE  Ahead(j + 1) = tokens[idx + 1 + j] /\ idx + 1 + j <= Len(tokens)
  <2>1. Ahead(j + 1).t # "NONE"
    BY <1>2, OperandSets DEF GoodOperands
  <2>2. idx + (j + 1) <= Len(tokens)
    BY <2>1 DEF Ahead, NoneToken
  <2>3. idx + (j + 1) = idx + 1 + j
    BY <1>1
  <2> QED BY <2>2, <2>3 DEF Ahead
<1>5. idx + 1 + m <= Len(tokens)
  <2>1. CASE m = 0
    BY <1>1, <2>1
  <2>2. CASE m # 0
    BY <1>4, <2>2
  <2> QED BY <2>1, <2>2
<1> QED BY <1>2, <1>3, <1>4, <1>5 DEF HasOperands, GoodOperands

\* The operand that is reported is the first fault.
LEMMA BadOperand ==
  ASSUME Unreported, NEW codes \in SUBSET InstTokens, Reading(codes),
         NEW m \in 0 .. 1, GoodOperands(m), m + 1 \in DOMAIN Operands(Ahead(1).t),
         Ahead(m + 2).t \notin Operands(Ahead(1).t)[m + 1]
  PROVE  FirstFault(tokens, idx + m + 2)
<1>1. /\ Ahead(1) = tokens[idx + 1] /\ idx + 1 \in Starts(tokens)
      /\ HasOperands(tokens, idx + 1, m)
  BY OperandsAhead DEF Unreported
<1>2. tokens \in Seq(Token) /\ idx \in Nat /\ SoundTo(tokens, idx)
  BY DEF Unreported, TypeOK
<1>3. idx + (m + 2) = idx + m + 2
  BY <1>2
<1>4. idx + m + 2 <= Len(tokens) =>
        tokens[idx + m + 2].t \notin Operands(tokens[idx + 1].t)[m + 1]
  BY <1>1, <1>3 DEF Ahead
<1> QED BY <1>1, <1>2, <1>4, OperandMissing

LEMMA FaultReported ==
  ASSUME Unreported, NEW k \in Nat, FirstFault(tokens, k), tokens' = tokens,
         reported' = Append(reported, k)
  PROVE  Parsed'
<1>1. reported' # <<>> /\ reported'[1] = k
  BY DEF Unreported
<1> QED BY <1>1 DEF Parsed, FirstFault

LEMMA RejectParsed ==
  ASSUME Unreported, NEW codes \in SUBSET InstTokens, Reading(codes),
         NEW m \in 0 .. 1, GoodOperands(m), m + 1 \in DOMAIN Operands(Ahead(1).t),
         Ahead(m + 2).t \notin Operands(Ahead(1).t)[m + 1],
         tokens' = tokens, Report(m + 2)
  PROVE  Parsed'
<1>1. FirstFault(tokens, idx + m + 2) /\ idx \in Nat
  BY BadOperand DEF Unreported, TypeOK
<1>2. idx + (m + 2) = idx + m + 2 /\ idx + m + 2 \in Nat
  BY <1>1
<1>3. reported' = Append(reported, idx + m + 2)
  BY <1>2 DEF Report
<1> QED BY <1>1, <1>2, <1>3, FaultReported

LEMMA EmitParsed ==
  ASSUME Unreported, NEW codes \in SUBSET (InstTokens \ DeclTokens), Reading(codes),
         NEW m \in 0 .. 2, GoodOperands(m), m + 1 \notin DOMAIN Operands(Ahead(1).t),
         NEW inst, inst = InstAt(tokens, idx + 1),
         Emit(inst, m + 1), reported' = reported
  PROVE  Parsed'
<1>1. /\ Ahead(1) = tokens[idx + 1] /\ idx + 1 \in Starts(tokens)
      /\ HasOperands(tokens, idx + 1, m) /\ Ahead(1).t \in codes
  BY OperandsAhead DEF Unreported
<1>2. /\ tokens \in Seq(Token) /\ idx \in Nat /\ SoundTo(tokens, idx)
      /\ MeansTo(tokens, idx, insts, st) /\ insts \in Seq(Inst)
  BY DEF Unreported, TypeOK, IsFile
<1>3. idx + 1 \in InstStarts(tokens)
  BY <1>1 DEF InstStarts
<1>4. SoundTo(tokens, idx + 1 + m)
  BY <1>1, <1>2, StatementComplete
<1>5. MeansTo(tokens, idx + 1 + m, Append(insts, inst), st)
  BY <1>1, <1>2, <1>3, InstMeans
<1>6. /\ tokens' = tokens /\ idx' = idx + 1 + m /\ insts' = Append(insts, inst)
      /\ st' = st /\ reported' = <<>> /\ result' = "parsing"
  BY <1>2 DEF Emit, Unreported
<1> QED BY <1>4, <1>5, <1>6 DEF Parsed

LEMMA DeclareParsed ==
  ASSUME Unreported, NEW codes \in SUBSET DeclTokens, Reading(codes),
         NEW m \in 0 .. 2, GoodOperands(m), m + 1 \notin DOMAIN Operands(Ahead(1).t),
         NEW key, key = KeyAt(tokens, idx + 1),
         NEW val, val = ValAt(tokens, idx + 1),
         Declare(key, val, m + 1, reported)
  PROVE  Parsed'
<1>1. codes \in SUBSET InstTokens
  BY DEF InstTokens
<1>2. /\ Ahead(1) = tokens[idx + 1] /\ idx + 1 \in Starts(tokens)
      /\ HasOperands(tokens, idx + 1, m) /\ Ahead(1).t \in codes
  BY <1>1, OperandsAhead DEF Unreported
<1>3. /\ tokens \in Seq(Token) /\ idx \in Nat /\ SoundTo(tokens, idx)
      /\ MeansTo(tokens, idx, insts, st) /\ insts \in Seq(Inst)
      /\ reported = <<>> /\ result = "parsing"
  BY DEF Unreported, TypeOK, IsFile
<1>4. tokens' = tokens /\ insts' = insts /\ idx' = idx + 1 + m
  BY <1>3 DEF Declare
<1>5. CASE answer' = <<"EXISTS">>
  <2>1. HasOperands(tokens, idx + 1, 0)
    BY <1>2, <1>3 DEF HasOperands, Starts
  <2>2. FaultFree(tokens, idx + 1 + 0)
    BY <1>2, <1>3, <2>1, ReadSoFar
  <2>3. \A k \in Faults(tokens) : idx + 1 < k
    BY <1>3, <2>2 DEF FaultFree, Faults
  <2>4. reported' = <<idx + 1>> /\ result' = "err"
    BY <1>3, <1>5 DEF Declare
  <2>5. reported' # <<>> /\ reported'[1] = idx + 1
    BY <2>4
  <2> QED BY <1>4, <1>5, <2>3, <2>4, <2>5 DEF Parsed, Twice
<1>6. CASE answer' = <<"abort">>
  <2>1. reported' = <<>> /\ result' = "abort"
    BY <1>3, <1>6 DEF Declare
  <2> QED BY <2>1 DEF Parsed
<1>7. CASE answer' = <<"OK">>
  <2>1. reported' = <<>> /\ result' = "parsing"
    BY <1>3, <1>7 DEF Declare
  <2>2. Entered(st, key, val, st')
    <3>1. CASE Table!AInsertNew(key, val)
      BY <3>1 DEF Table!AInsertNew, Entered
    <3>2. CASE Table!AInsertOld(key, val)
      <4>1. key \in DOMAIN st /\ st' = st /\ st[key] = val
        BY <1>7, <3>2 DEF Table!AInsertOld
      <4> QED BY <4>1 DEF Entered
    <3> QED BY <3>1, <3>2 DEF Declare
  <2>3. idx + 1 \in DeclStarts(tokens)
    BY <1>2 DEF DeclStarts, InstStarts
  <2>4. MeansTo(tokens, idx + 1 + m, insts, st')
    BY <1>2, <1>3, <2>2, <2>3, DeclMeans
  <2>5. SoundTo(tokens, idx + 1 + m)
    BY <1>2, <1>3, StatementComplete
  <2> QED BY <1>4, <2>1, <2>4, <2>5 DEF Parsed
<1>8. answer' \in {<<"OK">>, <<"abort">>, <<"EXISTS">>}
  BY DEF Declare, Table!AInsertNew, Table!AInsertOld
<1> QED BY <1>5, <1>6, <1>7, <1>8

\* A declaration that follows an error already printed adds nothing before it.
LEMMA DeclareReported ==
  ASSUME Unreported, NEW k \in Nat, FirstFault(tokens, k), NEW key, NEW val, NEW n,
         Declare(key, val, n, Append(reported, k))
  PROVE  Parsed'
<1>1. reported = <<>> /\ tokens' = tokens
  BY DEF Unreported, Declare
<1>2. reported' = <<k>> \/ reported' = <<k, idx + 1>>
  BY <1>1 DEF Declare
<1>3. reported' # <<>> /\ reported'[1] = k
  BY <1>2
<1> QED BY <1>1, <1>3 DEF Parsed, FirstFault

-----------------------------------------------------------------------------
(* One lemma per action. *)

LEMMA InstAtIs ==
  ASSUME NEW text, NEW i, NEW t, t = text[i].t
  PROVE  /\ t = "PUSH" => InstAt(text, i) = PushI(text[i + 1].t, text[i + 2].val)
         /\ t = "POP" => InstAt(text, i) = PopI(text[i + 1].t, text[i + 2].val)
         /\ t \in GotoTokens =>
              InstAt(text, i) = [Plain(t) EXCEPT !.ident = text[i + 1].val]
         /\ t = "CALL" => InstAt(text, i) = CallI(text[i + 1].val, text[i + 2].val)
         /\ t \in MapTokens => InstAt(text, i) = Plain(t)
<1>1. /\ t = "PUSH" => t \notin GotoTokens \cup MapTokens
      /\ t = "POP" => t \notin GotoTokens \cup MapTokens
      /\ t = "CALL" => t \notin GotoTokens \cup MapTokens
      /\ t \in GotoTokens => t \notin MapTokens \cup {"PUSH", "POP", "CALL"}
      /\ t \in MapTokens => t \notin {"PUSH", "POP", "CALL"}
  BY DEF GotoTokens, MapTokens, UnaryOps, BinaryOps
<1>2. CASE t = "PUSH"
  BY <1>1, <1>2 DEF InstAt
<1>3. CASE t = "POP"
  BY <1>1, <1>3 DEF InstAt
<1>4. CASE t = "CALL"
  BY <1>1, <1>4 DEF InstAt
<1>5. CASE t \in GotoTokens
  BY <1>1, <1>5 DEF InstAt
<1>6. CASE t \in MapTokens
  BY <1>1, <1>6 DEF InstAt
<1> QED BY <1>1, <1>2, <1>3, <1>4, <1>5, <1>6

LEMMA MapInstParsed == ASSUME Unreported, MapInst PROVE Parsed'
<1>1. /\ Reading(MapTokens) /\ MapTokens \in SUBSET (InstTokens \ DeclTokens)
      /\ MapTokens \in SUBSET InstTokens
  BY DEF MapInst, InstTokens, DeclTokens, MapTokens, UnaryOps, BinaryOps
<1>2. GoodOperands(0)
  BY DEF GoodOperands
<1>3. Ahead(1) = tokens[idx + 1] /\ Ahead(1).t \in MapTokens
  BY <1>1, <1>2, OperandsAhead DEF Unreported
<1>4. 0 + 1 \notin DOMAIN Operands(Ahead(1).t)
  BY <1>3, OperandsAre
<1>5. Plain(Ahead(1).t) = InstAt(tokens, idx + 1)
  BY <1>3, InstAtIs
<1>6. Emit(Plain(Ahead(1).t), 0 + 1) /\ reported' = reported
  BY DEF MapInst
<1> QED BY <1>1, <1>2, <1>4, <1>5, <1>6, EmitParsed

LEMMA MemoryInstParsed == ASSUME Unreported, MemoryInst PROVE Parsed'
<1>1. /\ Reading(MemoryTokens) /\ MemoryTokens \in SUBSET (InstTokens \ DeclTokens)
      /\ MemoryTokens \in SUBSET InstTokens
  BY DEF MemoryInst, InstTokens, DeclTokens, MemoryTokens
<1>2. GoodOperands(0)
  BY DEF GoodOperands
<1>3. Ahead(1) = tokens[idx + 1] /\ Ahead(1).t \in MemoryTokens
  BY <1>1, <1>2, OperandsAhead DEF Unreported
<1>4. Operands(Ahead(1).t) = << Segments, {"UINT"} >>
  BY <1>3, OperandsAre
<1>5. CASE ~HasSegment /\ Abandon(2)
  <2>1. Ahead(0 + 2).t \notin Operands(Ahead(1).t)[0 + 1]
    BY <1>4, <1>5 DEF HasSegment
  <2>2. Report(0 + 2) /\ tokens' = tokens
    BY <1>5 DEF Abandon, Reject
  <2> QED BY <1>1, <1>2, <1>4, <2>1, <2>2, RejectParsed
<1>6. ASSUME HasSegment PROVE GoodOperands(1)
  BY <1>4, <1>6 DEF GoodOperands, HasSegment
<1>7. CASE HasSegment /\ Ahead(3).t # "UINT" /\ Abandon(3)
  <2>1. Ahead(1 + 2).t \notin Operands(Ahead(1).t)[1 + 1]
    BY <1>4, <1>7
  <2>2. Report(1 + 2) /\ tokens' = tokens
    BY <1>7 DEF Abandon, Reject
  <2> QED BY <1>1, <1>4, <1>6, <1>7, <2>1, <2>2, RejectParsed
<1>8. CASE /\ HasSegment /\ Ahead(3).t = "UINT" /\ UNCHANGED reported
           /\ Emit([Plain(Ahead(1).t) EXCEPT !.seg = Ahead(2).t,
                                             !.offset = Ahead(3).val], 3)
  <2> DEFINE inst == [Plain(Ahead(1).t) EXCEPT !.seg = Ahead(2).t,
                                               !.offset = Ahead(3).val]
  <2>1. GoodOperands(2)
    BY <1>4, <1>8 DEF GoodOperands, HasSegment
  <2>2. \A j \in 1 .. 2 : Ahead(j + 1) = tokens[idx + 1 + j]
    BY <1>1, <2>1, OperandsAhead DEF Unreported
  <2>3. Ahead(2) = tokens[idx + 1 + 1] /\ Ahead(3) = tokens[idx + 1 + 2]
    BY <2>2
  <2>4. inst = InstAt(tokens, idx + 1)
    <3>1. CASE Ahead(1).t = "PUSH"
      <4>1. InstAt(tokens, idx + 1) = PushI(Ahead(2).t, Ahead(3).val)
        BY <1>3, <2>3, <3>1, InstAtIs
      <4> QED BY <3>1, <4>1 DEF PushI
    <3>2. CASE Ahead(1).t = "POP"
      <4>1. InstAt(tokens, idx + 1) = PopI(Ahead(2).t, Ahead(3).val)
        BY <1>3, <2>3, <3>2, InstAtIs
      <4> QED BY <3>2, <4>1 DEF PopI
    <3> QED BY <1>3, <3>1, <3>2 DEF MemoryTokens
  <2>5. 2 + 1 \notin DOMAIN Operands(Ahead(1).t)
    BY <1>4
  <2>6. Emit(inst, 2 + 1) /\ reported' = reported
    BY <1>8
  <2> HIDE DEF inst
  <2> QED BY <1>1, <2>1, <2>4, <2>5, <2>6, EmitParsed
<1> QED BY <1>5, <1>7, <1>8 DEF MemoryInst

LEMMA GotoInstParsed == ASSUME Unreported, GotoInst PROVE Parsed'
<1>1. /\ Reading(GotoTokens) /\ GotoTokens \in SUBSET (InstTokens \ DeclTokens)
      /\ GotoTokens \in SUBSET InstTokens
  BY DEF GotoInst, InstTokens, DeclTokens, GotoTokens
<1>2. GoodOperands(0)
  BY DEF GoodOperands
<1>3. Ahead(1) = tokens[idx + 1] /\ Ahead(1).t \in GotoTokens
  BY <1>1, <1>2, OperandsAhead DEF Unreported
<1>4. Operands(Ahead(1).t) = << {"IDENT"} >>
  BY <1>3, OperandsAre
<1>5. CASE ~HasIdent /\ Abandon(2)
  <2>1. Ahead(0 + 2).t \notin Operands(Ahead(1).t)[0 + 1]
    BY <1>4, <1>5 DEF HasIdent
  <2>2. Report(0 + 2) /\ tokens' = tokens
    BY <1>5 DEF Abandon, Reject
  <2> QED BY <1>1, <1>2, <1>4, <2>1, <2>2, RejectParsed
<1>6. CASE /\ HasIdent /\ UNCHANGED reported
           /\ Emit([Plain(Ahead(1).t) EXCEPT !.ident = Ahead(2).val], 2)
  <2> DEFINE inst == [Plain(Ahead(1).t) EXCEPT !.ident = Ahead(2).val]
  <2>1. GoodOperands(1)
    BY <1>4, <1>6 DEF GoodOperands, HasIdent
  <2>2. \A j \in 1 .. 1 : Ahead(j + 1) = tokens[idx + 1 + j]
    BY <1>1, <2>1, OperandsAhead DEF Unreported
  <2>3. Ahead(2) = tokens[idx + 1 + 1]
    BY <2>2
  <2>4. inst = InstAt(tokens, idx + 1)
    BY <1>3, <2>3, InstAtIs
  <2>5. 1 + 1 \notin DOMAIN Operands(Ahead(1).t)
    BY <1>4
  <2>6. Emit(inst, 1 + 1) /\ reported' = reported
    BY <1>6
  <2> HIDE DEF inst
  <2> QED BY <1>1, <2>1, <2>4, <2>5, <2>6, EmitParsed
<1> QED BY <1>5, <1>6 DEF GotoInst

LEMMA CallInstParsed == ASSUME Unreported, CallInst PROVE Parsed'
<1>1. /\ Reading({"CALL"}) /\ {"CALL"} \in SUBSET (InstTokens \ DeclTokens)
      /\ {"CALL"} \in SUBSET InstTokens
  BY DEF CallInst, InstTokens, DeclTokens
<1>2. GoodOperands(0)
  BY DEF GoodOperands
<1>3. Ahead(1) = tokens[idx + 1] /\ Ahead(1).t = "CALL"
  BY <1>1, <1>2, OperandsAhead DEF Unreported
<1>4. Operands(Ahead(1).t) = << {"IDENT"}, {"UINT"} >>
  BY <1>3, OperandsAre
<1>5. CASE ~HasIdent /\ Abandon(2)
  <2>1. Ahead(0 + 2).t \notin Operands(Ahead(1).t)[0 + 1]
    BY <1>4, <1>5 DEF HasIdent
  <2>2. Report(0 + 2) /\ tokens' = tokens
    BY <1>5 DEF Abandon, Reject
  <2> QED BY <1>1, <1>2, <1>4, <2>1, <2>2, RejectParsed
<1>6. CASE /\ HasIdent /\ Ahead(3).t = "UINT" /\ UNCHANGED reported
           /\ Emit(CallI(Ahead(2).val, Ahead(3).val), 3)
  <2> DEFINE inst == CallI(Ahead(2).val, Ahead(3).val)
  <2>1. GoodOperands(2)
    BY <1>4, <1>6 DEF GoodOperands, HasIdent
  <2>2. \A j \in 1 .. 2 : Ahead(j + 1) = tokens[idx + 1 + j]
    BY <1>1, <2>1, OperandsAhead DEF Unreported
  <2>3. Ahead(2) = tokens[idx + 1 + 1] /\ Ahead(3) = tokens[idx + 1 + 2]
    BY <2>2
  <2>4. inst = InstAt(tokens, idx + 1)
    BY <1>3, <2>3, InstAtIs
  <2>5. 2 + 1 \notin DOMAIN Operands(Ahead(1).t)
    BY <1>4
  <2>6. Emit(inst, 2 + 1) /\ reported' = reported
    BY <1>6
  <2> HIDE DEF inst
  <2> QED BY <1>1, <2>1, <2>4, <2>5, <2>6, EmitParsed
<1>7. CASE /\ HasIdent /\ Ahead(3).t # "UINT" /\ Report(3)
           /\ \E nargs \in Leftover : Emit(CallI(Ahead(2).val, nargs), 2)
  <2>1. GoodOperands(1)
    BY <1>4, <1>7 DEF GoodOperands, HasIdent
  <2>2. Ahead(1 + 2).t \notin Operands(Ahead(1).t)[1 + 1]
    BY <1>4, <1>7
  <2>3. Report(1 + 2) /\ tokens' = tokens
    BY <1>7 DEF Emit
  <2> QED BY <1>1, <1>4, <2>1, <2>2, <2>3, RejectParsed
<1> QED BY <1>5, <1>6, <1>7 DEF CallInst

LEMMA LabelMetaParsed == ASSUME Unreported, LabelMeta PROVE Parsed'
<1>1. /\ Reading({"LABEL"}) /\ {"LABEL"} \in SUBSET DeclTokens
      /\ {"LABEL"} \in SUBSET InstTokens
  BY DEF LabelMeta, InstTokens, DeclTokens
<1>2. GoodOperands(0)
  BY DEF GoodOperands
<1>3. Ahead(1) = tokens[idx + 1] /\ Ahead(1).t = "LABEL"
  BY <1>1, <1>2, OperandsAhead DEF Unreported
<1>4. Operands(Ahead(1).t) = << {"IDENT"} >>
  BY <1>3, OperandsAre
<1>5. CASE ~HasIdent /\ Reject(2)
  <2>1. Ahead(0 + 2).t \notin Operands(Ahead(1).t)[0 + 1]
    BY <1>4, <1>5 DEF HasIdent
  <2>2. Report(0 + 2) /\ tokens' = tokens
    BY <1>5 DEF Reject
  <2> QED BY <1>1, <1>2, <1>4, <2>1, <2>2, RejectParsed
<1>6. CASE HasIdent /\ Declare(Label(Ahead(2).val), At(NextAddr, 0), 2, reported)
  <2>1. GoodOperands(1)
    BY <1>4, <1>6 DEF GoodOperands, HasIdent
  <2>2. \A j \in 1 .. 1 : Ahead(j + 1) = tokens[idx + 1 + j]
    BY <1>1, <2>1, OperandsAhead DEF Unreported
  <2>3. Label(Ahead(2).val) = KeyAt(tokens, idx + 1)
    BY <1>3, <2>2 DEF KeyAt
  <2>4. At(NextAddr, 0) = ValAt(tokens, idx + 1)
    BY <1>3 DEF ValAt, NextAddr, Unreported, MeansTo
  <2>5. 1 + 1 \notin DOMAIN Operands(Ahead(1).t)
    BY <1>4
  <2>6. Declare(Label(Ahead(2).val), At(NextAddr, 0), 1 + 1, reported)
    BY <1>6
  <2> QED BY <1>1, <2>1, <2>3, <2>4, <2>5, <2>6, DeclareParsed
<1> QED BY <1>5, <1>6 DEF LabelMeta

LEMMA FunctionInstParsed == ASSUME Unreported, FunctionInst PROVE Parsed'
<1>1. /\ Reading({"FUNC"}) /\ {"FUNC"} \in SUBSET DeclTokens
      /\ {"FUNC"} \in SUBSET InstTokens
  BY DEF FunctionInst, InstTokens, DeclTokens
<1>2. GoodOperands(0)
  BY DEF GoodOperands
<1>3. Ahead(1) = tokens[idx + 1] /\ Ahead(1).t = "FUNC"
  BY <1>1, <1>2, OperandsAhead DEF Unreported
<1>4. Operands(Ahead(1).t) = << {"IDENT"}, {"UINT"} >>
  BY <1>3, OperandsAre
<1>5. CASE ~HasIdent /\ Reject(2)
  <2>1. Ahead(0 + 2).t \notin Operands(Ahead(1).t)[0 + 1]
    BY <1>4, <1>5 DEF HasIdent
  <2>2. Report(0 + 2) /\ tokens' = tokens
    BY <1>5 DEF Reject
  <2> QED BY <1>1, <1>2, <1>4, <2>1, <2>2, RejectParsed
<1>6. CASE /\ HasIdent /\ Ahead(3).t = "UINT"
           /\ Declare(Func(Ahead(2).val), At(NextAddr, Ahead(3).val), 3, reported)
  <2>1. GoodOperands(2)
    BY <1>4, <1>6 DEF GoodOperands, HasIdent
  <2>2. \A j \in 1 .. 2 : Ahead(j + 1) = tokens[idx + 1 + j]
    BY <1>1, <2>1, OperandsAhead DEF Unreported
  <2>3. Ahead(2) = tokens[idx + 1 + 1] /\ Ahead(3) = tokens[idx + 1 + 2]
    BY <2>2
  <2>4. Func(Ahead(2).val) = KeyAt(tokens, idx + 1)
    BY <1>3, <2>3 DEF KeyAt
  <2>5. At(NextAddr, Ahead(3).val) = ValAt(tokens, idx + 1)
    BY <1>3, <2>3 DEF ValAt, NextAddr, Unreported, MeansTo
  <2>6. 2 + 1 \notin DOMAIN Operands(Ahead(1).t)
    BY <1>4
  <2>7. Declare(Func(Ahead(2).val), At(NextAddr, Ahead(3).val), 2 + 1, reported)
    BY <1>6
  <2> QED BY <1>1, <2>1, <2>4, <2>5, <2>6, <2>7, DeclareParsed
<1>7. CASE /\ HasIdent /\ Ahead(3).t # "UINT"
           /\ Declare(Func(Ahead(2).val), At(NextAddr, 0), 2,
                      Append(reported, idx + 3))
  <2>1. GoodOperands(1)
    BY <1>4, <1>7 DEF GoodOperands, HasIdent
  <2>2. Ahead(1 + 2).t \notin Operands(Ahead(1).t)[1 + 1]
    BY <1>4, <1>7
  <2>3. FirstFault(tokens, idx + 1 + 2)
    BY <1>1, <1>4, <2>1, <2>2, BadOperand
  <2>4. idx + 1 + 2 = idx + 3 /\ idx + 3 \in Nat
    BY DEF Unreported, TypeOK
  <2> QED BY <1>7, <2>3, <2>4, DeclareReported
<1> QED BY <1>5, <1>6, <1>7 DEF FunctionInst

LEMMA WrongStartParsed == ASSUME Unreported, WrongStart PROVE Parsed'
<1>1. /\ tokens \in Seq(Token) /\ idx \in Nat /\ Len(tokens) \in Nat
      /\ SoundTo(tokens, idx) /\ idx < Len(tokens)
  BY DEF Unreported, TypeOK, WrongStart, Reading
<1>2. idx + 1 \notin Starts(tokens)
  BY <1>1 DEF WrongStart, Reading, Ahead, Starts
<1>3. FirstFault(tokens, idx + 1)
  BY <1>1, <1>2, NoStatement
<1>4. tokens' = tokens /\ reported' = Append(reported, idx + 1)
  BY DEF WrongStart, Reject, Report
<1> QED BY <1>1, <1>3, <1>4, FaultReported

LEMMA FinishParsed == ASSUME Unreported, Finish PROVE Parsed'
<1>1. idx = Len(tokens)
  BY DEF Unreported, TypeOK, Finish
<1> QED BY <1>1 DEF Unreported, Finish, Parsed

\* What follows an error is reported after it.
LEMMA ReportedParsed ==
  ASSUME TypeOK, Parsed, reported # <<>>, Next
  PROVE  Parsed'
<1>1. result = "parsing" /\ tokens' = tokens
  BY DEF Next, MapInst, MemoryInst, GotoInst, CallInst, LabelMeta, FunctionInst,
         WrongStart, Finish, Reading, Emit, Abandon, Reject, Declare
<1>2. FirstFault(tokens, reported[1])
  BY <1>1 DEF Parsed
<1>3. reported \in Seq(Nat)
  BY DEF TypeOK
<1>4. \/ reported' = reported
      \/ \E k \in Nat : reported' = Append(reported, k)
      \/ \E k, l \in Nat : reported' = Append(Append(reported, k), l)
  <2>1. idx + 1 \in Nat /\ idx + 2 \in Nat /\ idx + 3 \in Nat
    BY DEF TypeOK
  <2>2. ASSUME NEW n \in 1 .. 3, Report(n) PROVE \E k \in Nat : reported' = Append(reported, k)
    BY <2>1, <2>2 DEF Report
  <2>3. ASSUME NEW key, NEW val, NEW n, Declare(key, val, n, reported)
        PROVE  reported' = reported \/ \E k \in Nat : reported' = Append(reported, k)
    BY <2>1, <2>3 DEF Declare
  <2>4. ASSUME NEW key, NEW val, NEW n, Declare(key, val, n, Append(reported, idx + 3))
        PROVE  \/ \E k \in Nat : reported' = Append(reported, k)
               \/ \E k, l \in Nat : reported' = Append(Append(reported, k), l)
    BY <2>1, <2>4 DEF Declare
  <2>5. MapInst \/ Finish => reported' = reported
    BY DEF MapInst, Finish
  <2>6. MemoryInst \/ GotoInst \/ CallInst \/ WrongStart =>
          reported' = reported \/ \E n \in 1 .. 3 : Report(n)
    BY DEF MemoryInst, GotoInst, CallInst, WrongStart, Abandon, Reject
  <2>7. CASE LabelMeta
    BY <2>2, <2>3, <2>7 DEF LabelMeta, Reject
  <2>8. CASE FunctionInst
    <3>1. \/ Report(2)
          \/ \E key, val, n : Declare(key, val, n, reported)
          \/ \E key, val, n : Declare(key, val, n, Append(reported, idx + 3))
      BY <2>8 DEF FunctionInst, Reject
    <3> QED BY <2>2, <2>3, <2>4, <3>1
  <2> QED BY <2>2, <2>5, <2>6, <2>7, <2>8 DEF Next
<1>5. reported' # <<>> /\ reported'[1] = reported[1]
  BY <1>3, <1>4
<1> QED BY <1>1, <1>2, <1>5 DEF Parsed, FirstFault

LEMMA NextParsed == ASSUME TypeOK, Parsed, [Next]_vars PROVE Parsed'
<1>1. CASE UNCHANGED vars
  BY <1>1 DEF vars, Parsed, Twice
<1>2. CASE Next /\ reported # <<>>
  BY <1>2, ReportedParsed
<1>3. CASE Next /\ reported = <<>>
  <2>1. result = "parsing"
    BY <1>3 DEF Next, MapInst, MemoryInst, GotoInst, CallInst, LabelMeta,
                FunctionInst, WrongStart, Finish, Reading
  <2>2. Unreported
    BY <1>3, <2>1 DEF Parsed, Unreported
  <2> QED BY <1>3, <2>2, MapInstParsed, MemoryInstParsed, GotoInstParsed,
             CallInstParsed, LabelMetaParsed, FunctionInstParsed,
             WrongStartParsed, FinishParsed DEF Next
<1> QED BY <1>1, <1>2, <1>3

\* Nothing has been read, and nothing is wrong with it.
LEMMA InitParsed == ASSUME Init PROVE Parsed
<1>1. tokens \in Seq(Token) /\ idx = 0 /\ insts = <<>> /\ reported = <<>>
  BY TextsAssumption DEF Init
<1>2. Starts(tokens) \subseteq Nat \ {0}
  BY <1>1 DEF Starts
<1>3. SoundTo(tokens, 0)
  <2>1. Before(tokens, 0 + 1) = {}
    BY <1>2 DEF Before
  <2> QED BY <2>1 DEF SoundTo, FaultFree, Unfinished
<1>4. MeansTo(tokens, 0, insts, st)
  <2>1. InstStarts(tokens) \subseteq Nat \ {0} /\ DeclStarts(tokens) \subseteq Nat \ {0}
    BY <1>2 DEF InstStarts, DeclStarts
  <2>2. {i \in InstStarts(tokens) : i < 0 + 1} = {}
    BY <2>1
  <2>3. InstsBefore(tokens, 0 + 1) = 0
    BY <2>2, FS_EmptySet DEF InstsBefore
  <2>4. {j \in DeclStarts(tokens) : j <= 0} = {} /\ {j \in InstStarts(tokens) : j <= 0} = {}
    BY <2>1
  <2>5. Len(insts) = 0 /\ DOMAIN st = {}
    BY <1>1 DEF Init
  <2> QED BY <2>1, <2>3, <2>4, <2>5 DEF MeansTo
<1> QED BY <1>1, <1>3, <1>4 DEF Init, Parsed

-----------------------------------------------------------------------------

\* At the end of a text in which nothing was wrong, nothing is.
LEMMA EndSound ==
  ASSUME TypeOK, Parsed, result = "ok", reported = <<>>
  PROVE  /\ WellFormed(tokens) /\ Means(tokens, insts, st)
<1>1. /\ tokens \in Seq(Token) /\ Len(tokens) \in Nat
      /\ SoundTo(tokens, Len(tokens)) /\ MeansTo(tokens, Len(tokens), insts, st)
  BY DEF TypeOK, Parsed
<1>2. ~Fault(tokens, Len(tokens) + 1)
  BY <1>1 DEF SoundTo, Unfinished, Fault, StatementEnds
<1>3. WellFormed(tokens)
  BY <1>1, <1>2 DEF SoundTo, FaultFree, Faults, WellFormed
<1>4. Starts(tokens) \subseteq 1 .. Len(tokens)
  BY <1>1 DEF Starts
<1>5. /\ \A i \in InstStarts(tokens) : i <= Len(tokens) /\ i < Len(tokens) + 1
      /\ \A i \in DeclStarts(tokens) : i <= Len(tokens)
  BY <1>1, <1>4 DEF InstStarts, DeclStarts
<1>6. {i \in InstStarts(tokens) : i < Len(tokens) + 1} = InstStarts(tokens)
  BY <1>5
<1>7. {i \in DeclStarts(tokens) : i <= Len(tokens)} = DeclStarts(tokens)
  BY <1>5
<1>8. Means(tokens, insts, st)
  BY <1>1, <1>5, <1>6, <1>7 DEF MeansTo, Means, InstsBefore
<1> QED BY <1>3, <1>8

LEMMA ParsedInv == Spec => [](TypeOK /\ Parsed)
<1>1. Init => TypeOK /\ Parsed
  BY InitTyped, InitParsed
<1>2. TypeOK /\ Parsed /\ [Next]_vars => (TypeOK /\ Parsed)'
  BY NextTyped, NextParsed
<1> QED BY <1>1, <1>2, PTL DEF Spec

\* A text that is parsed without an error is made of statements, and the
\* instructions and symbols that `parse` leaves are what these say, each
\* in its place and none besides: for every text, however long.
THEOREM ParserFaithful == Spec => []ParsedFaithfully
<1>1. TypeOK /\ Parsed => ParsedFaithfully
  BY EndSound DEF ParsedFaithfully
<1> QED BY <1>1, ParsedInv, PTL

\* The first error that `parse` prints points at the first token that cannot
\* stand where it does, unless a symbol was defined twice before it; no text
\* with such a token goes unreported.
THEOREM ErrorsPointAtFaults == Spec => []ErrorAtFault
<1>1. ASSUME TypeOK, Parsed, result \in {"ok", "err"}, Faults(tokens) # {}
      PROVE  /\ reported # <<>>
             /\ FirstFault(tokens, reported[1]) \/ Twice
  <2>1. reported # <<>>
    BY <1>1, EndSound DEF Parsed, WellFormed
  <2> QED BY <1>1, <2>1 DEF Parsed
<1>2. ASSUME TypeOK, Twice PROVE reported[1] \notin Faults(tokens) \/ reported = <<>>
  <2>1. \A k \in Faults(tokens) : ~(k < k)
    BY DEF Faults
  <2> QED BY <1>2, <2>1 DEF Twice
<1>3. TypeOK /\ Parsed => ErrorAtFault
  BY <1>1, <1>2 DEF ErrorAtFault, FirstFault, Twice
<1> QED BY <1>3, ParsedInv, PTL
-----------------------------------------------------------------------------
(* A text without faults that declares no symbol twice. *)

Valid == WellFormed(tokens) /\ SingleDecls(tokens)

Accepted ==
  /\ result \in {"parsing", "ok"} => answer # <<"EXISTS">>
  /\ Valid => result \in {"parsing", "ok"} /\ reported = <<>>

\* The symbols entered so far are those of earlier declarations.
LEMMA DeclareAccepted ==
  ASSUME Unreported, SingleDecls(tokens), idx + 1 \in DeclStarts(tokens),
         NEW key, key = KeyAt(tokens, idx + 1), NEW val, NEW n,
         Declare(key, val, n, reported)
  PROVE  result' = "parsing" /\ reported' = <<>> /\ answer' = <<"OK">>
<1>1. idx \in Nat /\ reported = <<>> /\ result = "parsing"
  BY DEF Unreported, TypeOK
<1>2. DOMAIN st = {KeyAt(tokens, i) : i \in {j \in DeclStarts(tokens) : j <= idx}}
  BY DEF Unreported, MeansTo
<1>3. key \notin DOMAIN st
  <2>1. ASSUME NEW i \in DeclStarts(tokens), i <= idx PROVE KeyAt(tokens, i) # key
    BY <1>1, <2>1 DEF SingleDecls
  <2> QED BY <1>2, <2>1
<1>4. answer' = <<"OK">>
  BY <1>3 DEF Declare, Table!AInsertNew, Table!AInsertOld
<1> QED BY <1>1, <1>4 DEF Declare

LEMMA LabelMetaAccepted ==
  ASSUME Unreported, Valid, LabelMeta, HasIdent
  PROVE  result' = "parsing" /\ reported' = <<>>
<1>1. Reading({"LABEL"}) /\ {"LABEL"} \in SUBSET InstTokens
  BY DEF LabelMeta, InstTokens, DeclTokens
<1>2. GoodOperands(0)
  BY DEF GoodOperands
<1>3. Ahead(1) = tokens[idx + 1] /\ Ahead(1).t = "LABEL" /\ idx + 1 \in Starts(tokens)
  BY <1>1, <1>2, OperandsAhead DEF Unreported
<1>4. HasIdent /\ Declare(Label(Ahead(2).val), At(NextAddr, 0), 2, reported)
  BY DEF LabelMeta, Reject
<1>5. GoodOperands(1)
  BY <1>3, <1>4, OperandsAre DEF GoodOperands, HasIdent
<1>6. Label(Ahead(2).val) = KeyAt(tokens, idx + 1)
  <2>1. \A j \in 1 .. 1 : Ahead(j + 1) = tokens[idx + 1 + j]
    BY <1>1, <1>5, OperandsAhead DEF Unreported
  <2> QED BY <1>3, <2>1 DEF KeyAt
<1>7. idx + 1 \in DeclStarts(tokens)
  BY <1>3 DEF DeclStarts, InstStarts, DeclTokens
<1> QED BY <1>4, <1>6, <1>7, DeclareAccepted DEF Valid

LEMMA FunctionInstAccepted ==
  ASSUME Unreported, Valid, FunctionInst, HasIdent
  PROVE  result' = "parsing" /\ reported' = <<>>
<1>1. Reading({"FUNC"}) /\ {"FUNC"} \in SUBSET InstTokens
  BY DEF FunctionInst, InstTokens, DeclTokens
<1>2. GoodOperands(0)
  BY DEF GoodOperands
<1>3. Ahead(1) = tokens[idx + 1] /\ Ahead(1).t = "FUNC" /\ idx + 1 \in Starts(tokens)
  BY <1>1, <1>2, OperandsAhead DEF Unreported
<1>4. Operands(Ahead(1).t) = << {"IDENT"}, {"UINT"} >>
  BY <1>3, OperandsAre
<1>5. GoodOperands(1) /\ HasIdent
  BY <1>4 DEF GoodOperands, HasIdent, FunctionInst, Reject
<1>6. Func(Ahead(2).val) = KeyAt(tokens, idx + 1)
  <2>1. \A j \in 1 .. 1 : Ahead(j + 1) = tokens[idx + 1 + j]
    BY <1>1, <1>5, OperandsAhead DEF Unreported
  <2> QED BY <1>3, <2>1 DEF KeyAt
<1>7. idx + 1 \in DeclStarts(tokens)
  BY <1>3 DEF DeclStarts, InstStarts, DeclTokens
<1>8. Ahead(3).t = "UINT"
  <2> SUFFICES ASSUME Ahead(3).t # "UINT" PROVE FALSE
    OBVIOUS
  <2>1. Ahead(1 + 2).t \notin Operands(Ahead(1).t)[1 + 1]
    BY <1>4
  <2>2. FirstFault(tokens, idx + 1 + 2)
    BY <1>1, <1>4, <1>5, <2>1, BadOperand
  <2> QED BY <2>2 DEF FirstFault, Valid, WellFormed
<1>9. Declare(Func(Ahead(2).val), At(NextAddr, Ahead(3).val), 3, reported)
  BY <1>5, <1>8 DEF FunctionInst
<1> QED BY <1>6, <1>7, <1>9, DeclareAccepted DEF Valid

LEMMA NextAccepted ==
  ASSUME TypeOK, Parsed, Accepted, [Next]_vars
  PROVE  Accepted'
<1>1. CASE UNCHANGED vars
  BY <1>1 DEF vars, Accepted, Valid
<1> SUFFICES ASSUME Next PROVE Accepted'
  BY <1>1
<1>2. tokens' = tokens /\ result = "parsing"
  BY DEF Next, MapInst, MemoryInst, GotoInst, CallInst, LabelMeta, FunctionInst,
         WrongStart, Finish, Reading, Emit, Abandon, Reject, Declare
<1>3. Parsed' /\ TypeOK'
  BY NextParsed, NextTyped
<1>4. result' \in {"parsing", "ok"} => answer' # <<"EXISTS">>
  BY <1>2 DEF Accepted, Next, MapInst, MemoryInst, GotoInst, CallInst, LabelMeta,
         FunctionInst, WrongStart, Finish, Emit, Abandon, Reject, Declare
<1>5. ASSUME Valid PROVE result' \in {"parsing", "ok"} /\ reported' = <<>>
  <2>1. Unreported
    BY <1>2, <1>5 DEF Accepted, Unreported, Parsed
  <2>2. /\ (LabelMeta /\ HasIdent => result' = "parsing" /\ reported' = <<>>)
        /\ (FunctionInst /\ HasIdent => result' = "parsing" /\ reported' = <<>>)
    BY <1>5, <2>1, LabelMetaAccepted, FunctionInstAccepted
  <2>3. CASE /\ ~(LabelMeta /\ HasIdent) /\ ~(FunctionInst /\ HasIdent)
    <3>1. answer' = answer /\ result' # "abort"
      BY <1>2, <2>3 DEF Next, MapInst, MemoryInst, GotoInst, CallInst, LabelMeta,
             FunctionInst, WrongStart, Finish, Emit, Abandon, Reject
    <3>2. answer # <<"EXISTS">>
      BY <1>2 DEF Accepted
    <3>3. \A k : ~FirstFault(tokens', k)
      BY <1>2, <1>5 DEF FirstFault, Valid, WellFormed
    <3>4. reported' = <<>>
      BY <1>3, <3>1, <3>2, <3>3 DEF Parsed, Twice
    <3> QED BY <1>3, <3>1, <3>4 DEF Parsed, TypeOK
  <2> QED BY <2>2, <2>3
<1> QED BY <1>2, <1>4, <1>5 DEF Accepted, Valid

\* A text without faults in which no symbol is declared twice is never
\* rejected, and nothing is reported of it: what is left to show for it to be
\* parsed is that `parse` comes to an end.
THEOREM ValidTextsAccepted ==
  Spec => [](WellFormed(tokens) /\ SingleDecls(tokens) =>
               result \in {"parsing", "ok"} /\ reported = <<>>)
<1>1. Init => Accepted
  BY DEF Init, Accepted
<1>2. TypeOK /\ Parsed /\ Accepted /\ [Next]_vars => Accepted'
  BY NextAccepted
<1>3. Spec => []Accepted
  BY <1>1, <1>2, ParsedInv, PTL DEF Spec
<1>4. Accepted => (WellFormed(tokens) /\ SingleDecls(tokens) =>
                     result \in {"parsing", "ok"} /\ reported = <<>>)
  BY DEF Accepted, Valid
<1> QED BY <1>3, <1>4, PTL

-----------------------------------------------------------------------------
(* That `parse` ends: with fairness left to TLC, this is what makes it so. *)

\* An iteration of the loop is made only while parsing, and consumes a token or is
\* the last one.
TokenConsumed ==
  /\ result = "parsing" /\ UNCHANGED tokens
  /\ idx < idx' \/ result' # "parsing"

LEMMA NextConsumes == ASSUME TypeOK, Next PROVE TokenConsumed
<1> USE DEF TokenConsumed
<1>1. idx \in Nat
  BY DEF TypeOK
<1>2. ASSUME NEW inst, NEW n \in {1, 2, 3}, Emit(inst, n), result = "parsing"
      PROVE  TokenConsumed
  BY <1>1, <1>2 DEF Emit
<1>3. ASSUME NEW n, Reject(n), result = "parsing" PROVE TokenConsumed
  BY <1>3 DEF Reject
<1>4. ASSUME NEW key, NEW val, NEW n \in {1, 2, 3}, NEW printed,
             Declare(key, val, n, printed), result = "parsing"
      PROVE  TokenConsumed
  BY <1>1, <1>4 DEF Declare
<1>5. CASE MapInst
  BY <1>2, <1>5 DEF MapInst, Reading
<1>6. CASE MemoryInst
  BY <1>2, <1>3, <1>6 DEF MemoryInst, Reading, Abandon
<1>7. CASE GotoInst
  BY <1>2, <1>3, <1>7 DEF GotoInst, Reading, Abandon
<1>8. CASE CallInst
  BY <1>2, <1>3, <1>8 DEF CallInst, Reading, Abandon
<1>9. CASE LabelMeta
  BY <1>3, <1>4, <1>9 DEF LabelMeta, Reading
<1>10. CASE FunctionInst
  BY <1>3, <1>4, <1>10 DEF FunctionInst, Reading
<1>11. CASE WrongStart
  BY <1>3, <1>11 DEF WrongStart, Reading
<1>12. CASE Finish
  BY <1>12 DEF Finish
<1> QED BY <1>5, <1>6, <1>7, <1>8, <1>9, <1>10, <1>11, <1>12 DEF Next

\* Whatever the text, valid or not, every iteration of the loop of `parse` moves on
\* in it and never past its end, or ends the parse; so there are at most as many
\* iterations as tokens, and one more.
THEOREM ParserMovesOn == Spec => [][TokenConsumed /\ idx' \in 0 .. Len(tokens)]_vars
<1>1. ASSUME TypeOK, Next PROVE TokenConsumed /\ idx' \in 0 .. Len(tokens)
  <2>1. TypeOK'
    BY <1>1, NextTyped
  <2> QED BY <1>1, <2>1, NextConsumes DEF TypeOK, TokenConsumed
<1> QED BY <1>1, ParserTypeCorrect, PTL DEF Spec
=============================================================================
