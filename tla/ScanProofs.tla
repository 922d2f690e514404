----------------------------- MODULE ScanProofs -----------------------------
(***************************************************************************)
(* The scanner, for every file, every alphabet and every block size that   *)
(* holds an identifier.  Neither its buffer nor its token array is         *)
(* overrun, comments end with their lines, and reading the file block by   *)
(* block finds the tokens of the whole text, each in its place: the        *)
(* scanner implements TextScan.  The invariant says where the block is in  *)
(* the text, and the lemmas before it what a block that shows the start of *)
(* a text, and holds whitespace, has in common with all of the text.       *)
(***************************************************************************)
EXTENDS Scan, TLAPS, FiniteSetTheorems, FunctionTheorems, SequenceTheorems,
        WellFoundedInduction

-----------------------------------------------------------------------------
(* Induction over the numbers, as the existence of least ones. *)

\* A set of numbers that is not empty has a least one.
LEMMA LeastNumber ==
  ASSUME NEW T, T \subseteq Nat, T # {}
  PROVE  \E n \in T : \A m \in T : n <= m
<1> DEFINE R == OpToRel(<, Nat)
<1>1. \A x, y \in Nat : y < x => <<y, x>> \in R
  BY DEF OpToRel
<1>2. IsWellFoundedOn(R, Nat)
  BY NatLessThanWellFounded
<1> HIDE DEF R
<1>3. PICK n \in T : \A m \in T : ~ (<<m, n>> \in R)
  BY <1>2, WFMin
<1>4. \A m \in T : ~ (m < n)
  BY <1>1, <1>3
<1> QED BY <1>3, <1>4

\* `Max` of a set of numbers below a bound is its greatest.
LEMMA GreatestNumber ==
  ASSUME NEW n \in Nat, NEW S, S \subseteq 1 .. n, S # {}
  PROVE  /\ Max(S) \in S /\ \A i \in S : i <= Max(S)
         /\ \A m \in S : (\A i \in S : i <= m) => Max(S) = m
<1> DEFINE T == {n - i : i \in S}
<1>1. T \subseteq Nat /\ T # {}
  <2>1. \A i \in S : i \in 1 .. n /\ n - i \in Nat
    OBVIOUS
  <2> QED BY <2>1
<1>2. PICK d \in T : \A e \in T : d <= e
  <2> HIDE DEF T
  <2> QED BY <1>1, LeastNumber
<1>3. PICK m \in S : d = n - m
  BY <1>2
<1>4. \A i \in S : i <= m
  <2> TAKE i \in S
  <2>1. n - m <= n - i
    BY <1>2, <1>3
  <2>2. m \in 1 .. n /\ i \in 1 .. n
    BY <1>3
  <2> QED BY <2>1, <2>2
<1>5. \A i, j \in S : i <= j /\ j <= i => i = j
  OBVIOUS
<1>6. \E x \in S : \A y \in S : x >= y
  BY <1>3, <1>4
<1>7. Max(S) \in S /\ \A y \in S : Max(S) >= y
  BY <1>6 DEF Max
<1>8. \A i \in S : i <= Max(S)
  <2>1. \A i, j \in S : i >= j <=> j <= i
    OBVIOUS
  <2> QED BY <1>7, <2>1
<1> QED BY <1>5, <1>7, <1>8

-----------------------------------------------------------------------------
(* Pieces of a text. *)

\* The characters of the rest of a text.
LEMMA FromFacts ==
  ASSUME NEW text \in Seq(Chars), NEW n \in 0 .. Len(text)
  PROVE  /\ From(text, n) \in Seq(Chars)
         /\ Len(From(text, n)) = Len(text) - n
         /\ \A i \in 1 .. Len(text) - n : From(text, n)[i] = text[n + i]
  BY DEF From

\* `eat_while`: the length exists, and what is skipped ends where it must.
LEMMA LeadFacts ==
  ASSUME NEW text \in Seq(Chars), NEW S
  PROVE  /\ Lead(text, S) \in 0 .. Len(text)
         /\ \A i \in 1 .. Lead(text, S) : text[i] \in S
         /\ Lead(text, S) < Len(text) => text[Lead(text, S) + 1] \notin S
<1> DEFINE T == {n \in 0 .. Len(text) : n < Len(text) => text[n + 1] \notin S}
<1>1. Len(text) \in Nat
  OBVIOUS
<1>2. Len(text) \in T /\ T \subseteq Nat
  BY <1>1
<1>3. PICK n \in T : \A m \in T : n <= m
  BY <1>2, LeastNumber
<1>4. ASSUME NEW i \in 1 .. n PROVE text[i] \in S
  <2>1. i - 1 \in 0 .. Len(text) /\ ~(n <= i - 1) /\ i - 1 + 1 = i
    BY <1>1, <1>3, <1>4
  <2>2. i - 1 \notin T
    BY <1>3, <2>1
  <2> QED BY <2>1, <2>2
<1>5. /\ n \in 0 .. Len(text) /\ \A i \in 1 .. n : text[i] \in S
      /\ n < Len(text) => text[n + 1] \notin S
  BY <1>3, <1>4
<1> QED BY <1>5 DEF Lead

\* ... and is the only one with that property.
LEMMA LeadIs ==
  ASSUME NEW text \in Seq(Chars), NEW S, NEW n \in 0 .. Len(text),
         \A i \in 1 .. n : text[i] \in S,
         n < Len(text) => text[n + 1] \notin S
  PROVE  Lead(text, S) = n
<1>1. Len(text) \in Nat
  OBVIOUS
<1>2. PICK m \in 0 .. Len(text) : m = Lead(text, S)
  BY LeadFacts
<1>3. /\ \A i \in 1 .. m : text[i] \in S
      /\ m < Len(text) => text[m + 1] \notin S
  BY <1>2, LeadFacts
<1>4. ~(m < n)
  <2> SUFFICES ASSUME m < n PROVE FALSE
    OBVIOUS
  <2>1. m + 1 \in 1 .. n /\ m < Len(text)
    BY <1>1, <1>2
  <2> QED BY <1>3, <2>1
<1>5. ~(n < m)
  <2> SUFFICES ASSUME n < m PROVE FALSE
    OBVIOUS
  <2>1. n + 1 \in 1 .. m /\ n < Len(text)
    BY <1>1, <1>2
  <2> QED BY <1>3, <2>1
<1>6. \A a, b \in Nat : ~(a < b) /\ ~(b < a) => a = b
  OBVIOUS
<1>7. n \in Nat /\ m \in Nat
  BY <1>1
<1> QED BY <1>2, <1>4, <1>5, <1>6, <1>7

-----------------------------------------------------------------------------
(* Positions. *)

Newlines(text, n) == {i \in 1 .. n : text[i] = Newline}
Places == [ln : Nat, cl : Nat]

LEMMA NewlinesFacts ==
  ASSUME NEW text, NEW n \in Nat
  PROVE  /\ IsFiniteSet(Newlines(text, n)) /\ Cardinality(Newlines(text, n)) \in Nat
         /\ Newlines(text, n) \subseteq 1 .. n
<1>1. IsFiniteSet(1 .. n)
  BY FS_Interval, 1 \in Int, n \in Int
<1>2. Newlines(text, n) \in SUBSET (1 .. n)
  BY DEF Newlines
<1> QED BY <1>1, <1>2, FS_Subset, FS_CardinalityType

\* A position after n characters, with and without a newline among them.
LEMMA MoveIs ==
  ASSUME NEW pos \in Places, NEW text, NEW n \in Nat
  PROVE  /\ Move(pos, text, n) \in Places
         /\ Newlines(text, n) = {} =>
              /\ Move(pos, text, n).ln = pos.ln
              /\ Move(pos, text, n).cl = pos.cl + n
         /\ Newlines(text, n) # {} =>
              /\ Move(pos, text, n).ln = pos.ln + Cardinality(Newlines(text, n))
              /\ Move(pos, text, n).cl = n - Max(Newlines(text, n))
<1>1. Cardinality(Newlines(text, n)) \in Nat /\ Newlines(text, n) \subseteq 1 .. n
  BY NewlinesFacts
<1>2. Newlines(text, n) # {} => Max(Newlines(text, n)) \in 1 .. n
  BY <1>1, GreatestNumber
<1>3. Move(pos, text, n) =
        IF Newlines(text, n) = {} THEN [pos EXCEPT !.cl = @ + n]
        ELSE [ln |-> pos.ln + Cardinality(Newlines(text, n)),
              cl |-> n - Max(Newlines(text, n))]
  BY DEF Move, Newlines
<1> QED BY <1>1, <1>2, <1>3 DEF Places

\* On one line only the column moves.
LEMMA MoveOnLine ==
  ASSUME NEW pos \in Places, NEW text, NEW n \in Nat,
         \A i \in 1 .. n : text[i] # Newline
  PROVE  Move(pos, text, n) = [pos EXCEPT !.cl = @ + n]
<1>1. {i \in 1 .. n : text[i] = Newline} = {}
  OBVIOUS
<1> QED BY <1>1 DEF Move

LEMMA SamePlace ==
  ASSUME NEW p \in Places, NEW q \in Places, p.ln = q.ln, p.cl = q.cl
  PROVE  p = q
  BY DEF Places

LEMMA ShiftedCardinality ==
  ASSUME NEW S, S \subseteq Nat, IsFiniteSet(S), NEW a \in Nat
  PROVE  /\ IsFiniteSet({a + i : i \in S})
         /\ Cardinality({a + i : i \in S}) = Cardinality(S)
<1> DEFINE T == {a + i : i \in S}
           f == [i \in S |-> a + i]
<1>1. f \in Injection(S, T)
  BY DEF Injection, IsInjective
<1>2. f \in Surjection(S, T)
  BY DEF Surjection
<1>3. ExistsBijection(S, T)
  BY <1>1, <1>2 DEF ExistsBijection, Bijection
<1> QED BY <1>3, FS_Bijection

\* A text that agrees on the characters passed leads to the same place.
LEMMA MoveSame ==
  ASSUME NEW pos, NEW t, NEW u, NEW n \in Nat,
         \A i \in 1 .. n : t[i] = u[i]
  PROVE  Move(pos, t, n) = Move(pos, u, n)
<1>1. {i \in 1 .. n : t[i] = Newline} = {i \in 1 .. n : u[i] = Newline}
  OBVIOUS
<1> QED BY <1>1 DEF Move

\* Moving in two steps.
LEMMA MoveMore ==
  ASSUME NEW pos \in Places, NEW t, NEW u, NEW a \in Nat, NEW b \in Nat,
         \A i \in 1 .. b : u[i] = t[a + i],
         NEW c, c = a + b
  PROVE  Move(Move(pos, t, a), u, b) = Move(pos, t, c)
<1>1. c \in Nat /\ c = a + b
  OBVIOUS
<1> DEFINE N1 == Newlines(t, a)
           N2 == Newlines(u, b)
           N3 == Newlines(t, c)
           S2 == {a + i : i \in N2}
           p1 == Move(pos, t, a)
           p2 == Move(p1, u, b)
           p3 == Move(pos, t, c)
<1>2. /\ N1 \subseteq 1 .. a /\ IsFiniteSet(N1) /\ Cardinality(N1) \in Nat
      /\ N2 \subseteq 1 .. b /\ IsFiniteSet(N2) /\ Cardinality(N2) \in Nat
      /\ N3 \subseteq 1 .. c
  BY <1>1, NewlinesFacts
<1>3. N3 = N1 \cup S2 /\ N1 \cap S2 = {}
  <2>1. ASSUME NEW j \in N3 PROVE j \in N1 \cup S2
    <3>1. j \in 1 .. c /\ t[j] = Newline
      BY DEF Newlines
    <3>2. CASE j <= a
      <4>1. j \in 1 .. a
        BY <3>1, <3>2
      <4> QED BY <3>1, <4>1 DEF Newlines
    <3>3. CASE j > a
      <4>1. j - a \in 1 .. b /\ a + (j - a) = j
        BY <1>1, <3>1, <3>3
      <4>2. j - a \in N2
        BY <3>1, <4>1 DEF Newlines
      <4> QED BY <4>1, <4>2
    <3> QED BY <3>1, <3>2, <3>3
  <2>2. ASSUME NEW j \in N1 PROVE j \in N3
    BY <1>1 DEF Newlines
  <2>3. ASSUME NEW i \in N2 PROVE a + i \in N3
    BY <1>1 DEF Newlines
  <2>4. ASSUME NEW i \in N2 PROVE a + i \notin N1
    BY DEF Newlines
  <2> HIDE DEF N1, N2, N3
  <2> QED BY <2>1, <2>2, <2>3, <2>4
<1>4. IsFiniteSet(S2) /\ Cardinality(S2) = Cardinality(N2)
  <2>1. N2 \subseteq Nat
    BY <1>2
  <2> HIDE DEF N2
  <2> QED BY <1>2, <2>1, ShiftedCardinality
<1>5. Cardinality(N3) = Cardinality(N1) + Cardinality(N2)
  <2>1. Cardinality(N1 \cap S2) = 0
    BY <1>3, FS_EmptySet
  <2>2. Cardinality(N1 \cup S2) = Cardinality(N1) + Cardinality(S2) - Cardinality(N1 \cap S2)
    <3> HIDE DEF N1, S2
    <3> QED BY <1>2, <1>4, FS_Union
  <2> HIDE DEF N1, N2, N3, S2
  <2> QED BY <1>2, <1>3, <1>4, <2>1, <2>2
<1>6. /\ p1 \in Places
      /\ N1 = {} => p1.ln = pos.ln /\ p1.cl = pos.cl + a
      /\ N1 # {} => p1.ln = pos.ln + Cardinality(N1) /\ p1.cl = a - Max(N1)
  BY MoveIs
<1>7. /\ p2 \in Places
      /\ N2 = {} => p2.ln = p1.ln /\ p2.cl = p1.cl + b
      /\ N2 # {} => p2.ln = p1.ln + Cardinality(N2) /\ p2.cl = b - Max(N2)
  <2> HIDE DEF p1
  <2> QED BY <1>6, MoveIs
<1>8. /\ p3 \in Places
      /\ N3 = {} => p3.ln = pos.ln /\ p3.cl = pos.cl + c
      /\ N3 # {} => p3.ln = pos.ln + Cardinality(N3) /\ p3.cl = c - Max(N3)
  BY MoveIs
<1>9. pos.ln \in Nat /\ pos.cl \in Nat
  BY DEF Places
<1>10. N1 = {} => Cardinality(N1) = 0
  BY FS_EmptySet
<1>11. N2 = {} => N3 = N1
  BY <1>3
<1>12. N2 # {} => N3 # {} /\ Max(N3) = a + Max(N2) /\ Max(N2) \in 1 .. b
  <2> SUFFICES ASSUME N2 # {} PROVE N3 # {} /\ Max(N3) = a + Max(N2) /\ Max(N2) \in 1 .. b
    OBVIOUS
  <2> HIDE DEF N1, N2, N3
  <2>1. Max(N2) \in N2 /\ \A i \in N2 : i <= Max(N2)
    BY <1>2, GreatestNumber
  <2>2. Max(N2) \in 1 .. b
    BY <1>2, <2>1
  <2>3. a + Max(N2) \in N3
    BY <1>3, <2>1
  <2>4. \A j \in N3 : j <= a + Max(N2)
    <3> TAKE j \in N3
    <3>1. CASE j \in N1
      BY <1>2, <2>2, <3>1
    <3>2. CASE j \in S2
      <4>1. PICK i \in N2 : j = a + i
        BY <3>2
      <4>2. i <= Max(N2) /\ i \in 1 .. b
        BY <1>2, <2>1, <4>1
      <4> QED BY <2>2, <4>1, <4>2
    <3> QED BY <1>3, <3>1, <3>2
  <2>5. Max(N3) = a + Max(N2)
    BY <1>1, <1>2, <2>3, <2>4, GreatestNumber
  <2> QED BY <2>2, <2>3, <2>5
<1>13. N1 # {} => Max(N1) \in 1 .. a
  <2> HIDE DEF N1
  <2> QED BY <1>2, GreatestNumber
<1> HIDE DEF N1, N2, N3, p1, p2, p3
<1>14. CASE N2 = {}
  <2>1. p2.ln = p3.ln /\ p2.cl = p3.cl
    BY <1>1, <1>5, <1>6, <1>7, <1>8, <1>9, <1>11, <1>13, <1>14
  <2> QED BY <1>7, <1>8, <2>1, <1>1, SamePlace DEF p1, p2, p3
<1>15. CASE N2 # {}
  <2>1. p2.ln = p3.ln
    BY <1>2, <1>5, <1>6, <1>7, <1>8, <1>9, <1>10, <1>12, <1>15
  <2>2. p2.cl = p3.cl
    BY <1>1, <1>7, <1>8, <1>12, <1>15
  <2> QED BY <1>7, <1>8, <2>1, <2>2, <1>1, SamePlace DEF p1, p2, p3
<1> QED BY <1>14, <1>15
-----------------------------------------------------------------------------
(* What a lexeme is, and what it needs of the text. *)

LEMMA FromTwice ==
  ASSUME NEW text \in Seq(Chars), NEW n \in 0 .. Len(text),
         NEW m \in 0 .. Len(text) - n
  PROVE  From(From(text, n), m) = From(text, n + m)
<1> DEFINE u == From(text, n)
           v == From(u, m)
           w == From(text, n + m)
<1>1. Len(text) \in Nat /\ n + m \in 0 .. Len(text)
  OBVIOUS
<1>2. /\ u \in Seq(Chars) /\ Len(u) = Len(text) - n
      /\ \A i \in 1 .. Len(text) - n : u[i] = text[n + i]
  BY FromFacts
<1>3. /\ w \in Seq(Chars) /\ Len(w) = Len(text) - (n + m)
      /\ \A i \in 1 .. Len(text) - (n + m) : w[i] = text[n + m + i]
  BY <1>1, FromFacts
<1> HIDE DEF u, w
<1>4. m \in 0 .. Len(u)
  BY <1>2
<1>5. /\ v \in Seq(Chars) /\ Len(v) = Len(u) - m
      /\ \A i \in 1 .. Len(u) - m : v[i] = u[m + i]
  BY <1>2, <1>4, FromFacts
<1> HIDE DEF v
<1>6. Len(v) = Len(w)
  BY <1>1, <1>2, <1>3, <1>5
<1>7. ASSUME NEW i \in 1 .. Len(v) PROVE v[i] = w[i]
  <2>1. m + i \in 1 .. Len(text) - n /\ n + (m + i) = n + m + i
        /\ i \in 1 .. Len(u) - m /\ i \in 1 .. Len(text) - (n + m)
    BY <1>1, <1>2, <1>5, <1>7
  <2> QED BY <1>2, <1>3, <1>5, <2>1
<1>8. v = w
  BY <1>3, <1>5, <1>6, <1>7, SeqEqual
<1> QED BY <1>8 DEF v, w, u

\* What the assumptions on the alphabet say of the classes of characters.
LEMMA Alphabet ==
  /\ Newline \in Blanks /\ Slash \notin Blanks /\ Newline \in Chars
  /\ Digits \cap Blanks = {} /\ (Letters \cup Digits) \cap Blanks = {}
  /\ Letters \cap Blanks = {}
  /\ <<Slash, Slash>> \in Seq(Chars \ Blanks) /\ Len(<<Slash, Slash>>) = 2
  /\ \A w \in Keywords : /\ w \in Seq(Chars \ Blanks) /\ w # <<>>
                         /\ Len(w) \in Nat \ {0}
<1>1. Slash \in Chars \ Blanks
  BY AlphabetAssumption
<1>2. \A w \in Keywords : w \in Seq(Chars \ Blanks) /\ w # <<>>
  BY KeywordsAssumption
<1>3. \A w \in Keywords : Len(w) \in Nat \ {0}
  BY <1>2
<1> QED BY <1>1, <1>2, <1>3, AlphabetAssumption

\* A literal without whitespace is a prefix, character by character.
LEMMA PrefixMeans ==
  ASSUME NEW w \in Seq(Chars \ Blanks), NEW text \in Seq(Chars)
  PROVE  IsPrefix(w, text) <=> /\ Len(w) <= Len(text)
                               /\ \A i \in 1 .. Len(w) : w[i] = text[i]
<1>1. Len(w) \in Nat /\ Len(text) \in Nat
  OBVIOUS
<1>2. SubSeq(w, 1, Len(w)) = w
  OBVIOUS
<1>3. ASSUME Len(w) <= Len(text)
      PROVE  /\ SubSeq(text, 1, Len(w)) \in Seq(Chars)
             /\ Len(SubSeq(text, 1, Len(w))) = Len(w)
             /\ \A i \in 1 .. Len(w) : SubSeq(text, 1, Len(w))[i] = text[i]
  BY <1>1, <1>3
<1>4. w \in Seq(Chars)
  OBVIOUS
<1>5. ASSUME Len(w) <= Len(text)
      PROVE  w = SubSeq(text, 1, Len(w)) <=> \A i \in 1 .. Len(w) : w[i] = text[i]
  <2>1. ASSUME \A i \in 1 .. Len(w) : w[i] = text[i]
        PROVE  w = SubSeq(text, 1, Len(w))
    BY <1>3, <1>4, <1>5, <2>1, SeqEqual
  <2> QED BY <1>3, <1>5, <2>1
<1> QED BY <1>2, <1>5 DEF IsPrefix

Delims(text, n) == n < Len(text) /\ text[n + 1] \in Blanks

\* The end of a text delimits only where it is the end of the input.
LEMMA DelimitedInside ==
  ASSUME NEW text \in Seq(Chars), NEW n \in 0 .. Len(text)
  PROVE  /\ Delimited(text, n, FALSE) <=> Delims(text, n)
         /\ Delimited(text, n, TRUE) <=> n = Len(text) \/ Delims(text, n)
<1>1. Len(text) \in Nat /\ n \in Nat
  OBVIOUS
<1>2. n # Len(text) <=> n < Len(text)
  BY <1>1
<1> QED BY <1>2 DEF Delimited, Delims

LEMMA LeastFacts ==
  ASSUME NEW a \in Nat, NEW b \in Nat
  PROVE  Least(a, b) \in Nat /\ Least(a, b) <= a /\ Least(a, b) <= b
         /\ Least(a, b) \in {a, b}
  BY DEF Least

\* A lexeme is not empty, is all there, and contains no whitespace.
LEMMA LexemeShape ==
  ASSUME NEW text \in Seq(Chars), NEW ends \in BOOLEAN,
         NEW lexeme \in LexemeAt(text, ends)
  PROVE  /\ lexeme.length \in 1 .. Len(text)
         /\ \A i \in 1 .. lexeme.length : text[i] \notin Blanks
<1>1. Len(text) \in Nat
  OBVIOUS
<1>2. CASE lexeme \in KeywordAt(text)
  <2>1. PICK w \in Keywords : IsPrefix(w, text) /\ lexeme = Lexeme(Len(w), "keyword", w)
    BY <1>2 DEF KeywordAt
  <2>2. w \in Seq(Chars \ Blanks) /\ Len(w) \in Nat \ {0} /\ lexeme.length = Len(w)
    BY <2>1, Alphabet DEF Lexeme
  <2>3. \A i \in 1 .. Len(w) : w[i] \notin Blanks
    BY <2>2
  <2> QED BY <1>1, <2>1, <2>2, <2>3, PrefixMeans
<1>3. CASE lexeme \in UintAt(text, ends)
  <2> DEFINE n == Least(Lead(text, Digits), MaxDigits)
  <2>1. n > 0 /\ lexeme = Lexeme(n, "uint", <<Value(SubSeq(text, 1, n))>>)
    BY <1>3 DEF UintAt
  <2>2. Lead(text, Digits) \in 0 .. Len(text)
        /\ \A i \in 1 .. Lead(text, Digits) : text[i] \in Digits
    BY LeadFacts
  <2>3. n \in Nat /\ n <= Lead(text, Digits)
    <3>1. Lead(text, Digits) \in Nat /\ MaxDigits \in Nat
      BY <1>1, <2>2, LimitsAssumption
    <3> QED BY <3>1, LeastFacts
  <2>4. lexeme.length = n
    BY <2>1 DEF Lexeme
  <2> HIDE DEF n
  <2>5. n \in 1 .. Len(text) /\ \A i \in 1 .. n : i \in 1 .. Lead(text, Digits)
    BY <1>1, <2>1, <2>2, <2>3
  <2> QED BY <2>2, <2>4, <2>5, Alphabet
<1>4. CASE lexeme \in IdentAt(text, ends)
  <2> DEFINE n == Lead(text, Letters \cup Digits)
  <2>1. /\ text # <<>> /\ text[1] \in Letters
        /\ lexeme = Lexeme(n, "ident", SubSeq(text, 1, Least(n, MaxIdent)))
    BY <1>4 DEF IdentAt
  <2>2. /\ n \in 0 .. Len(text)
        /\ \A i \in 1 .. n : text[i] \in Letters \cup Digits
        /\ n < Len(text) => text[n + 1] \notin Letters \cup Digits
    BY LeadFacts
  <2>3. lexeme.length = n
    BY <2>1 DEF Lexeme
  <2> HIDE DEF n
  <2>4. n # 0
    <3>1. Len(text) > 0
      BY <2>1
    <3>2. 0 + 1 = 1 /\ 0 < Len(text)
      BY <1>1, <3>1
    <3> QED BY <2>1, <2>2, <3>2
  <2> QED BY <1>1, <2>2, <2>3, <2>4, Alphabet
<1> QED BY <1>2, <1>3, <1>4 DEF LexemeAt

\* The block u shows the text v: what it lacks at the end is in later blocks,
\* what it has more is the newline that was appended.
Shows(u, v) ==
  /\ Len(u) <= Len(v) + 1
  /\ \A i \in 1 .. Len(u) : i <= Len(v) => u[i] = v[i]
  /\ Len(u) = Len(v) + 1 => u[Len(u)] \in Blanks

\* A literal in the block is one in the text; where the block has whitespace,
\* also the other way round, as then the block ends after it.
LEMMA PrefixKept ==
  ASSUME NEW u \in Seq(Chars), NEW v \in Seq(Chars), Shows(u, v),
         NEW w \in Seq(Chars \ Blanks)
  PROVE  /\ IsPrefix(w, u) => IsPrefix(w, v)
         /\ (\E j \in 1 .. Len(u) : u[j] \in Blanks) /\ IsPrefix(w, v) => IsPrefix(w, u)
<1>1. Len(u) \in Nat /\ Len(v) \in Nat /\ Len(w) \in Nat
  OBVIOUS
<1>2. \A i \in 1 .. Len(w) : w[i] \notin Blanks
  OBVIOUS
<1>3. ASSUME IsPrefix(w, u) PROVE IsPrefix(w, v)
  <2>1. Len(w) <= Len(u) /\ \A i \in 1 .. Len(w) : w[i] = u[i]
    BY <1>3, PrefixMeans
  <2>2. Len(w) <= Len(v)
    <3> SUFFICES ASSUME ~(Len(w) <= Len(v)) PROVE FALSE
      OBVIOUS
    <3>1. Len(u) = Len(v) + 1 /\ Len(w) = Len(u) /\ Len(u) \in 1 .. Len(w)
      BY <1>1, <2>1 DEF Shows
    <3> QED BY <1>2, <2>1, <3>1 DEF Shows
  <2>3. \A i \in 1 .. Len(w) : w[i] = v[i]
    BY <1>1, <2>1, <2>2 DEF Shows
  <2> QED BY <2>2, <2>3, PrefixMeans
<1>4. ASSUME NEW j \in 1 .. Len(u), u[j] \in Blanks, IsPrefix(w, v)
      PROVE  IsPrefix(w, u)
  <2>1. Len(w) <= Len(v) /\ \A i \in 1 .. Len(w) : w[i] = v[i]
    BY <1>4, PrefixMeans
  <2>2. Len(w) <= Len(u)
    <3> SUFFICES ASSUME ~(Len(w) <= Len(u)) PROVE FALSE
      OBVIOUS
    <3>1. j \in 1 .. Len(w) /\ j <= Len(v)
      BY <1>1, <2>1
    <3> QED BY <1>2, <1>4, <2>1, <3>1 DEF Shows
  <2>3. \A i \in 1 .. Len(w) : w[i] = u[i]
    BY <1>1, <2>1, <2>2 DEF Shows
  <2> QED BY <2>2, <2>3, PrefixMeans
<1> QED BY <1>3, <1>4

\* A keyword seen in the block is the one in the text: none is a prefix of another.
LEMMA OneKeyword ==
  ASSUME NEW u \in Seq(Chars), NEW v \in Seq(Chars), Shows(u, v), KeywordAt(u) # {}
  PROVE  KeywordAt(v) = KeywordAt(u)
<1>1. PICK w \in Keywords : IsPrefix(w, u)
  BY DEF KeywordAt
<1>2. IsPrefix(w, v)
  BY <1>1, PrefixKept, Alphabet
<1>3. ASSUME NEW x \in Keywords, IsPrefix(x, v) PROVE x = w
  <2>1. /\ w \in Seq(Chars \ Blanks) /\ x \in Seq(Chars \ Blanks)
        /\ w \in Seq(Chars) /\ x \in Seq(Chars)
    BY Alphabet
  <2>2. /\ Len(w) <= Len(v) /\ \A i \in 1 .. Len(w) : w[i] = v[i]
        /\ Len(x) <= Len(v) /\ \A i \in 1 .. Len(x) : x[i] = v[i]
    BY <1>2, <1>3, <2>1, PrefixMeans
  <2>3. Len(w) \in Nat /\ Len(x) \in Nat
    BY Alphabet
  <2>4. CASE Len(w) <= Len(x)
    <3>1. \A i \in 1 .. Len(w) : w[i] = x[i]
      BY <2>2, <2>3, <2>4
    <3>2. IsPrefix(w, x)
      BY <2>1, <2>4, <3>1, PrefixMeans
    <3> QED BY <3>2, KeywordsAssumption
  <2>5. CASE Len(x) <= Len(w)
    <3>1. \A i \in 1 .. Len(x) : x[i] = w[i]
      BY <2>2, <2>3, <2>5
    <3>2. IsPrefix(x, w)
      BY <2>1, <2>5, <3>1, PrefixMeans
    <3> QED BY <3>2, KeywordsAssumption
  <2> QED BY <2>3, <2>4, <2>5
<1>4. \A x \in Keywords : IsPrefix(x, u) <=> x = w
  <2>1. \A x \in Keywords : IsPrefix(x, u) => IsPrefix(x, v)
    BY PrefixKept, Alphabet
  <2> QED BY <1>1, <1>3, <2>1
<1>5. \A x \in Keywords : IsPrefix(x, u) <=> IsPrefix(x, v)
  BY <1>2, <1>3, <1>4
<1>6. {x \in Keywords : IsPrefix(x, u)} = {x \in Keywords : IsPrefix(x, v)}
  BY <1>5
<1> QED BY <1>6 DEF KeywordAt

\* As far as the first whitespace, the block and the text start alike.
LEMMA LeadKept ==
  ASSUME NEW u \in Seq(Chars), NEW v \in Seq(Chars), Shows(u, v),
         NEW S, S \cap Blanks = {},
         NEW j \in 1 .. Len(u), u[j] \in Blanks
  PROVE  /\ Lead(v, S) = Lead(u, S) /\ Lead(u, S) \in Nat
         /\ Lead(u, S) < Len(u) /\ Lead(u, S) <= Len(v)
<1>1. Len(u) \in Nat /\ Len(v) \in Nat
  OBVIOUS
<1>2. PICK l \in 0 .. Len(u) : l = Lead(u, S)
  BY LeadFacts
<1>3. (\A i \in 1 .. l : u[i] \in S) /\ (l < Len(u) => u[l + 1] \notin S)
  BY <1>2, LeadFacts
<1>4. l < j
  <2> SUFFICES ASSUME ~(l < j) PROVE FALSE
    OBVIOUS
  <2>1. j \in 1 .. l
    BY <1>1, <1>2
  <2> QED BY <1>3, <2>1
<1>5. l \in 0 .. Len(v) /\ l < Len(u) /\ l \in Nat
  BY <1>1, <1>2, <1>4 DEF Shows
<1>6. \A i \in 1 .. l : v[i] \in S
  BY <1>1, <1>3, <1>5 DEF Shows
<1>7. l < Len(v) => v[l + 1] \notin S
  BY <1>1, <1>3, <1>5 DEF Shows
<1>8. Lead(v, S) = l
  BY <1>5, <1>6, <1>7, LeadIs
<1> QED BY <1>2, <1>5, <1>8

\* Before the end of the block, whitespace follows in both or in neither.
LEMMA DelimiterKept ==
  ASSUME NEW u \in Seq(Chars), NEW v \in Seq(Chars), Shows(u, v),
         NEW n \in Nat, n < Len(u), n <= Len(v)
  PROVE  /\ Delimited(v, n, TRUE) <=> Delimited(u, n, FALSE)
         /\ SubSeq(v, 1, n) = SubSeq(u, 1, n)
<1>1. Len(u) \in Nat /\ Len(v) \in Nat /\ n \in 0 .. Len(u) /\ n \in 0 .. Len(v)
  OBVIOUS
<1>2. Delimited(v, n, TRUE) <=> n = Len(v) \/ Delims(v, n)
  BY <1>1, DelimitedInside
<1>3. Delimited(u, n, FALSE) <=> Delims(u, n)
  BY <1>1, DelimitedInside
<1>4. ASSUME n = Len(v)
      PROVE  Delimited(v, n, TRUE) <=> Delimited(u, n, FALSE)
  <2>1. Len(u) = Len(v) + 1 /\ Len(u) = n + 1
    BY <1>1, <1>4 DEF Shows
  <2>2. Delims(u, n)
    BY <1>1, <2>1 DEF Shows, Delims
  <2> QED BY <1>2, <1>3, <1>4, <2>2
<1>5. ASSUME n < Len(v)
      PROVE  Delimited(v, n, TRUE) <=> Delimited(u, n, FALSE)
  <2>1. n + 1 \in 1 .. Len(u) /\ n + 1 <= Len(v)
    BY <1>1, <1>5
  <2>2. u[n + 1] = v[n + 1]
    BY <2>1 DEF Shows
  <2>3. Delims(u, n) <=> Delims(v, n)
    BY <1>5, <2>2 DEF Delims
  <2>4. n # Len(v)
    BY <1>1, <1>5
  <2> QED BY <1>2, <1>3, <2>3, <2>4
<1>6. SubSeq(v, 1, n) = SubSeq(u, 1, n)
  <2>1. \A i \in 1 .. n : u[i] = v[i]
    BY <1>1 DEF Shows
  <2>2. /\ SubSeq(u, 1, n) \in Seq(Chars) /\ Len(SubSeq(u, 1, n)) = n
        /\ \A i \in 1 .. n : SubSeq(u, 1, n)[i] = u[i]
    BY <1>1
  <2>3. /\ SubSeq(v, 1, n) \in Seq(Chars) /\ Len(SubSeq(v, 1, n)) = n
        /\ \A i \in 1 .. n : SubSeq(v, 1, n)[i] = v[i]
    BY <1>1
  <2> QED BY <2>1, <2>2, <2>3, SeqEqual
<1>7. n = Len(v) \/ n < Len(v)
  BY <1>1
<1> QED BY <1>4, <1>5, <1>6, <1>7

\* With whitespace in the block, it has the lexemes of the text.
LEMMA SameLexemes ==
  ASSUME NEW u \in Seq(Chars), NEW v \in Seq(Chars), Shows(u, v),
         NEW j \in 1 .. Len(u), u[j] \in Blanks
  PROVE  LexemeAt(v, TRUE) = LexemeAt(u, FALSE)
<1>1. Len(u) \in Nat /\ Len(v) \in Nat
  OBVIOUS
<1>2. KeywordAt(v) = KeywordAt(u)
  <2>1. \A x \in Keywords : IsPrefix(x, u) <=> IsPrefix(x, v)
    BY PrefixKept, Alphabet
  <2>2. {x \in Keywords : IsPrefix(x, u)} = {x \in Keywords : IsPrefix(x, v)}
    BY <2>1
  <2> QED BY <2>2 DEF KeywordAt
<1>3. UintAt(v, TRUE) = UintAt(u, FALSE)
  <2>1. PICK l \in Nat : /\ l = Lead(u, Digits) /\ l = Lead(v, Digits)
                         /\ l < Len(u) /\ l <= Len(v)
    BY LeadKept, Alphabet
  <2>2. PICK n \in Nat : n = Least(l, MaxDigits) /\ n <= l
    BY LeastFacts, LimitsAssumption
  <2>3. n < Len(u) /\ n <= Len(v)
    BY <1>1, <2>1, <2>2
  <2>4. /\ Delimited(v, n, TRUE) <=> Delimited(u, n, FALSE)
        /\ SubSeq(v, 1, n) = SubSeq(u, 1, n)
    BY <2>3, DelimiterKept
  <2> QED BY <2>1, <2>2, <2>4 DEF UintAt
<1>4. IdentAt(v, TRUE) = IdentAt(u, FALSE)
  <2>1. PICK n \in Nat : /\ n = Lead(u, Letters \cup Digits)
                         /\ n = Lead(v, Letters \cup Digits)
                         /\ n < Len(u) /\ n <= Len(v)
    BY LeadKept, Alphabet
  <2>2. Delimited(v, n, TRUE) <=> Delimited(u, n, FALSE)
    BY <2>1, DelimiterKept
  <2>3. PICK k \in Nat : k = Least(n, MaxIdent) /\ k <= n
    BY LeastFacts, LimitsAssumption
  <2>4. k < Len(u) /\ k <= Len(v)
    BY <1>1, <2>1, <2>3
  <2>5. SubSeq(v, 1, k) = SubSeq(u, 1, k)
    BY <2>4, DelimiterKept
  <2>6. v # <<>> /\ v[1] \in Letters <=> u # <<>> /\ u[1] \in Letters
    <3>1. u # <<>> /\ (v = <<>> <=> Len(v) = 0)
      BY <1>1
    <3>2. CASE v = <<>>
      <4>1. Len(u) = 1 /\ u[Len(u)] \in Blanks
        BY <1>1, <3>2 DEF Shows
      <4> QED BY <3>2, <4>1, Alphabet
    <3>3. CASE v # <<>>
      <4>1. 1 \in 1 .. Len(u) /\ 1 <= Len(v)
        BY <1>1, <3>1, <3>3
      <4> QED BY <3>1, <3>3, <4>1 DEF Shows
    <3> QED BY <3>2, <3>3
  <2> QED BY <2>1, <2>2, <2>3, <2>5, <2>6 DEF IdentAt
<1> QED BY <1>2, <1>3, <1>4 DEF LexemeAt

\* Without whitespace in the block too, a lexeme of the block is one of the text.
LEMMA LexemeKept ==
  ASSUME NEW u \in Seq(Chars), NEW v \in Seq(Chars), Shows(u, v),
         NEW lexeme \in LexemeAt(u, FALSE)
  PROVE  lexeme \in LexemeAt(v, TRUE)
<1>1. CASE KeywordAt(u) # {}
  BY <1>1, OneKeyword DEF LexemeAt
<1>2. CASE KeywordAt(u) = {}
  <2>1. PICK n \in 0 .. Len(u) : Delimited(u, n, FALSE)
    <3>1. CASE lexeme \in UintAt(u, FALSE)
      <4> DEFINE n == Least(Lead(u, Digits), MaxDigits)
      <4>1. Delimited(u, n, FALSE)
        BY <3>1 DEF UintAt
      <4>2. Lead(u, Digits) \in 0 .. Len(u) /\ Len(u) \in Nat
        BY LeadFacts
      <4>3. n \in Nat /\ n <= Lead(u, Digits)
        <5>1. Lead(u, Digits) \in Nat /\ MaxDigits \in Nat
          BY <4>2, LimitsAssumption
        <5> QED BY <5>1, LeastFacts
      <4> HIDE DEF n
      <4>4. n \in 0 .. Len(u)
        BY <4>2, <4>3
      <4> QED BY <4>1, <4>4
    <3>2. CASE lexeme \in IdentAt(u, FALSE)
      <4>1. Delimited(u, Lead(u, Letters \cup Digits), FALSE)
        BY <3>2 DEF IdentAt
      <4> QED BY <4>1, LeadFacts
    <3> QED BY <1>2, <3>1, <3>2 DEF LexemeAt
  <2>2. n + 1 \in 1 .. Len(u) /\ u[n + 1] \in Blanks
    <3>1. Delims(u, n)
      BY <2>1, DelimitedInside
    <3>2. Len(u) \in Nat
      OBVIOUS
    <3> QED BY <3>1, <3>2 DEF Delims
  <2> QED BY <2>2, SameLexemes
<1> QED BY <1>1, <1>2
-----------------------------------------------------------------------------
(* The invariant: where the block is in the text. *)

Lexemes == UNION {LexemeAt(text, FALSE) : text \in Seq(Chars)}
Found == {Token(lexeme, pos) : lexeme \in Lexemes, pos \in Places}

Typed ==
  /\ file \in Files \cup {<<>>} /\ file \in Seq(Chars)
  /\ unread \in Seq(Chars) /\ rest \in Seq(Chars)
  /\ orig_len \in 0 .. BlockSize /\ Len(rest) <= BlockSize
  /\ tokens \in Seq(Found) /\ room \in Nat /\ Len(tokens) <= room
  /\ inside_comment \in BOOLEAN
  /\ status \in {"idle", "read", "scan", "abort", "ok", "error", "failed"}

\* The file with the newline that was appended to it, and how many of its
\* characters have been consumed, that newline counted.
Whole == IF Appended THEN Append(file, Newline) ELSE file
Raw == Len(Whole) - Len(unread) - Len(rest)

\* The block is the next part of the file, and the rest is still to be read.
Window ==
  /\ Len(unread) <= Len(file) /\ unread = From(file, Len(file) - Len(unread))
  /\ Raw \in Nat
  /\ \A i \in 1 .. Len(rest) : rest[i] = Whole[Raw + i]

Here == cur = Move(Start, Whole, Raw)

\* How far the loop of `scan` is.
Stage ==
  /\ Appended => unread = <<>>
  /\ status = "idle" =>
       file = <<>> /\ unread = <<>> /\ rest = <<>> /\ orig_len = 0 /\ tokens = <<>>
  /\ status = "read" => orig_len = BlockSize \/ (orig_len = 0 /\ rest = <<>>)
  /\ status = "scan" /\ orig_len < BlockSize =>
       unread = <<>> /\ (rest # <<>> => Last(rest) = Newline)
  /\ status = "ok" => unread = <<>> /\ rest = <<>>
  /\ status \in {"idle", "read", "scan"} => Here

\* A comment is open only as long as its line is.
OpenOnLine ==
  file # <<>> /\ Last(file) = Newline /\ ~EmptyComment /\ inside_comment
    /\ Consumed > 0 => file[Consumed] # Newline

SInv == Typed /\ Window /\ Stage /\ OpenOnLine

\* The lengths are numbers.
LEMMA Lengths ==
  ASSUME Typed
  PROVE  /\ Len(file) \in Nat /\ Len(unread) \in Nat /\ Len(rest) \in Nat
         /\ BlockSize \in Nat \ {0} /\ orig_len \in Nat
  BY BlockSizeAssumption, LimitsAssumption DEF Typed

\* The characters of the file with the newline that was appended.
LEMMA WholeFacts ==
  ASSUME Typed
  PROVE  /\ Whole \in Seq(Chars)
         /\ Len(Whole) = Len(file) + (IF Appended THEN 1 ELSE 0)
         /\ \A i \in 1 .. Len(file) : Whole[i] = file[i]
         /\ Appended => Whole[Len(file) + 1] = Newline
<1>1. file \in Seq(Chars) /\ Newline \in Chars
  BY Alphabet DEF Typed
<1>2. /\ Append(file, Newline) \in Seq(Chars)
      /\ Len(Append(file, Newline)) = Len(file) + 1
      /\ \A i \in 1 .. Len(file) : Append(file, Newline)[i] = file[i]
      /\ Append(file, Newline)[Len(file) + 1] = Newline
  BY <1>1
<1> QED BY <1>1, <1>2, Lengths DEF Whole

\* `Consumed` does not count the appended newline.
LEMMA ConsumedIs == ASSUME Typed PROVE Consumed = Least(Len(file), Raw)
<1>1. Raw = Len(file) - Len(unread) - Len(rest) + (IF Appended THEN 1 ELSE 0)
  BY Lengths, WholeFacts DEF Raw
<1> QED BY <1>1 DEF Consumed

LEMMA StartPlace == Start \in Places
  BY DEF Start, Places

\* The first k characters of the block are consumed.
LEMMA BlockShrinks ==
  ASSUME Typed, Window, NEW k \in 0 .. Len(rest),
         rest' = From(rest, k), UNCHANGED <<file, unread, orig_len>>
  PROVE  /\ Appended' = Appended /\ Whole' = Whole /\ Raw' = Raw + k /\ Window'
         /\ rest' \in Seq(Chars) /\ Len(rest') = Len(rest) - k
         /\ \A i \in 1 .. Len(rest') : rest'[i] = rest[k + i]
         /\ rest' # <<>> => rest # <<>> /\ Last(rest') = Last(rest)
         /\ Consumed' = Least(Len(file), Raw + k)
<1>1. Appended' = Appended /\ Whole' = Whole
  BY DEF Appended, Whole
<1>2. /\ rest' \in Seq(Chars) /\ Len(rest') = Len(rest) - k
      /\ \A i \in 1 .. Len(rest) - k : rest'[i] = rest[k + i]
  BY FromFacts DEF Typed
<1>3. Len(Whole) \in Nat /\ Len(unread) \in Nat /\ Len(rest) \in Nat /\ Raw \in Nat
  BY Lengths, WholeFacts DEF Window
<1>4. Raw' = Raw + k
  BY <1>1, <1>2, <1>3 DEF Raw
<1>5. \A i \in 1 .. Len(rest') : rest'[i] = Whole[Raw + k + i]
  <2> TAKE i \in 1 .. Len(rest')
  <2>1. i \in 1 .. Len(rest) - k /\ k + i \in 1 .. Len(rest) /\ Raw + (k + i) = Raw + k + i
    BY <1>2, <1>3
  <2> QED BY <1>2, <2>1 DEF Window
<1>6. Window'
  BY <1>1, <1>3, <1>4, <1>5 DEF Window
<1>7. rest' # <<>> => rest # <<>> /\ Last(rest') = Last(rest)
  <2>1. ASSUME rest' # <<>> PROVE Len(rest) - k \in 1 .. Len(rest) - k
    BY <1>2, <1>3, <2>1
  <2>2. ASSUME rest' # <<>> PROVE rest'[Len(rest')] = rest[k + (Len(rest) - k)]
    BY <1>2, <2>1, <2>2
  <2>3. k + (Len(rest) - k) = Len(rest)
    BY <1>3
  <2>4. rest = <<>> => Len(rest) = 0
    OBVIOUS
  <2> QED BY <1>3, <2>1, <2>2, <2>3, <2>4 DEF Last
<1>8. Consumed' = Least(Len(file), Raw + k)
  <2>1. Raw = Len(file) - Len(unread) - Len(rest) + (IF Appended THEN 1 ELSE 0)
    BY Lengths, WholeFacts DEF Raw
  <2>2. PICK a \in Nat : a = IF Appended THEN 1 ELSE 0
    OBVIOUS
  <2>3. Len(file) - Len(unread) - Len(rest') + a = Raw + k
    <3>1. Raw = Len(file) - Len(unread) - Len(rest) + a
      BY <2>1, <2>2
    <3>2. k \in Nat /\ Len(file) \in Nat /\ Len(rest') = Len(rest) - k
      BY <1>2, <1>3, Lengths
    <3> QED BY <1>3, <3>1, <3>2
  <2> QED BY <1>1, <2>2, <2>3 DEF Consumed
<1> QED BY <1>1, <1>2, <1>4, <1>6, <1>7, <1>8

\* Moving through the block is moving through the file.
LEMMA MoveInBlock ==
  ASSUME Typed, Window, NEW k \in 0 .. Len(rest)
  PROVE  /\ Move(Start, Whole, Raw) \in Places
         /\ Move(Move(Start, Whole, Raw), rest, k) = Move(Start, Whole, Raw + k)
<1>1. Raw \in Nat /\ k \in Nat /\ Len(rest) \in Nat
  BY Lengths DEF Window
<1>2. \A i \in 1 .. k : rest[i] = Whole[Raw + i]
  BY <1>1 DEF Window
<1> QED BY <1>1, <1>2, MoveMore, MoveIs, StartPlace

\* The block after the whitespace shows the text there.
LEMMA TextFacts ==
  ASSUME Typed, Window, Appended => unread = <<>>
  PROVE  /\ Next_ws \in 0 .. Len(rest) /\ Raw \in Nat
         /\ Text \in Seq(Chars) /\ Len(Text) = Len(rest) - Next_ws
         /\ \A i \in 1 .. Len(Text) :
              Text[i] = rest[Next_ws + i] /\ Text[i] = Whole[Raw + Next_ws + i]
         /\ \A i \in 1 .. Next_ws : Whole[Raw + i] \in Blanks
         /\ Text # <<>> => /\ Text[1] \notin Blanks
                           /\ Raw + Next_ws < Len(file)
                           /\ Shows(Text, From(file, Raw + Next_ws))
<1>1. rest \in Seq(Chars) /\ Len(rest) \in Nat /\ Raw \in Nat /\ Len(file) \in Nat
      /\ Len(unread) \in Nat
  BY Lengths DEF Typed, Window
<1>2. PICK w \in 0 .. Len(rest) : w = Next_ws
  BY <1>1, LeadFacts DEF Next_ws
<1>3. /\ \A i \in 1 .. w : rest[i] \in Blanks
      /\ w < Len(rest) => rest[w + 1] \notin Blanks
  BY <1>1, <1>2, LeadFacts DEF Next_ws
<1>4. /\ Text \in Seq(Chars) /\ Len(Text) = Len(rest) - w
      /\ \A i \in 1 .. Len(rest) - w : Text[i] = rest[w + i]
  BY <1>1, <1>2, FromFacts DEF Text
<1>5. ASSUME NEW i \in 1 .. Len(Text) PROVE Text[i] = Whole[Raw + w + i]
  <2>1. w + i \in 1 .. Len(rest) /\ Raw + (w + i) = Raw + w + i
    BY <1>1, <1>2, <1>4
  <2> QED BY <1>4, <1>5, <2>1 DEF Window
<1>6. \A i \in 1 .. w : Whole[Raw + i] \in Blanks
  <2> TAKE i \in 1 .. w
  <2>1. i \in 1 .. Len(rest) /\ rest[i] \in Blanks
    BY <1>1, <1>2, <1>3
  <2> QED BY <2>1 DEF Window
<1>7. Len(Whole) = Raw + Len(rest) + Len(unread) /\ Len(Whole) \in Nat
  BY <1>1, WholeFacts DEF Raw
<1>8. ASSUME Text # <<>>
      PROVE  /\ Text[1] \notin Blanks /\ Raw + w < Len(file)
             /\ Shows(Text, From(file, Raw + w))
  <2>1. Len(Text) # 0
    BY <1>4, <1>8
  <2>2. 1 \in 1 .. Len(Text) /\ w < Len(rest)
    BY <1>1, <1>2, <1>4, <2>1
  <2>3. Text[1] \notin Blanks /\ Whole[Raw + w + 1] \notin Blanks
    BY <1>3, <1>4, <1>5, <2>2
  <2>4. Raw + w + 1 <= Len(Whole)
    BY <1>1, <1>2, <1>7, <2>2
  <2>5. Raw + w + 1 # Len(file) + 1 \/ ~Appended
    BY <2>3, Alphabet, WholeFacts
  <2>6. Raw + w < Len(file)
    BY <1>1, <1>2, <2>4, <2>5, WholeFacts
  <2>7. PICK s \in 0 .. Len(file) : s = Raw + w
    BY <1>1, <1>2, <2>6
  <2> DEFINE v == From(file, s)
  <2>8. /\ v \in Seq(Chars) /\ Len(v) = Len(file) - s
        /\ \A i \in 1 .. Len(file) - s : v[i] = file[s + i]
    BY FromFacts DEF Typed
  <2> HIDE DEF v
  <2>9. CASE ~Appended
    <3>1. Len(Text) <= Len(v)
      BY <1>1, <1>2, <1>4, <1>7, <2>7, <2>8, <2>9, WholeFacts
    <3>2. \A i \in 1 .. Len(Text) : Text[i] = v[i]
      <4> TAKE i \in 1 .. Len(Text)
      <4>1. i \in 1 .. Len(file) - s /\ s + i \in 1 .. Len(file)
        BY <1>1, <1>4, <2>7, <2>8, <3>1
      <4> QED BY <1>5, <2>7, <2>8, <4>1, WholeFacts
    <3> QED BY <1>1, <1>4, <2>3, <2>6, <2>7, <2>8, <3>1, <3>2 DEF Shows, v
  <2>10. CASE Appended
    <3>1. Len(unread) = 0
      BY <2>10
    <3>2. Len(Text) = Len(v) + 1
      BY <1>1, <1>2, <1>4, <1>7, <2>7, <2>8, <2>10, <3>1, WholeFacts
    <3>3. \A i \in 1 .. Len(v) : Text[i] = v[i]
      <4> TAKE i \in 1 .. Len(v)
      <4>1. i \in 1 .. Len(file) - s /\ s + i \in 1 .. Len(file) /\ i \in 1 .. Len(Text)
        BY <1>1, <2>7, <2>8, <3>2
      <4> QED BY <1>5, <2>7, <2>8, <4>1, WholeFacts
    <3>4. Text[Len(Text)] = Newline
      <4>1. s + Len(Text) = Len(file) + 1 /\ Len(Text) \in 1 .. Len(Text)
        BY <1>1, <2>2, <2>7, <2>8, <3>2
      <4> QED BY <1>5, <2>7, <2>10, <4>1, WholeFacts
    <3>5. \A i \in 1 .. Len(Text) : i <= Len(v) => i \in 1 .. Len(v)
      BY <1>1, <2>7, <2>8
    <3> QED BY <1>1, <2>3, <2>6, <2>7, <2>8, <3>2, <3>3, <3>4, <3>5, Alphabet
            DEF Shows, v
  <2> QED BY <2>9, <2>10
<1> QED BY <1>1, <1>2, <1>4, <1>5, <1>6, <1>8

\* A match consumes the whitespace before it, itself, and the whitespace after.
LEMMA MatchMeans ==
  ASSUME Typed, Window, Appended => unread = <<>>, Here,
         NEW n \in 1 .. Len(Text), \A i \in 1 .. n : Text[i] \notin Blanks,
         Consume(n), UNCHANGED <<file, unread, orig_len>>,
         NEW s, s = Raw + Next_ws
  PROVE  /\ Consumed = Raw /\ s \in Consumed .. Len(file)
         /\ \A k \in Consumed + 1 .. s : file[k] \in Blanks
         /\ Shows(Text, From(file, s))
         /\ Pos = Move(Start, file, s) /\ Pos \in Places
         /\ s + n <= Len(file) /\ Consumed' \in s + n .. Len(file)
         /\ \A k \in s + n + 1 .. Consumed' : file[k] \in Blanks
         /\ \E k \in 0 .. Len(rest) : rest' = From(rest, k)
         /\ Here'
<1>1. /\ rest \in Seq(Chars) /\ Len(rest) \in Nat /\ Raw \in Nat /\ Len(file) \in Nat
      /\ Len(Text) \in Nat /\ n \in Nat
  BY Lengths, TextFacts DEF Typed, Window
<1>2. PICK w \in 0 .. Len(rest) : w = Next_ws
  BY TextFacts
<1>3. /\ Text \in Seq(Chars) /\ Len(Text) = Len(rest) - w
      /\ \A i \in 1 .. Len(Text) : Text[i] = rest[w + i] /\ Text[i] = Whole[Raw + w + i]
      /\ \A i \in 1 .. w : Whole[Raw + i] \in Blanks
  BY <1>2, TextFacts
<1>4. Text # <<>>
  BY <1>1
<1>5. s \in Nat /\ s < Len(file) /\ s = Raw + w /\ Shows(Text, From(file, s))
  BY <1>1, <1>2, <1>4, TextFacts
<1>size. /\ Len(rest) \in Nat /\ Raw \in Nat /\ Len(Text) \in Nat /\ s \in Nat
         /\ n \in Nat /\ n <= Len(Text) /\ w \in Nat /\ w <= Len(rest)
         /\ Len(Text) = Len(rest) - w /\ s = Raw + w
  BY <1>1, <1>2, <1>3, <1>5
<1>6. Consumed = Raw
  BY <1>1, <1>2, <1>5, ConsumedIs DEF Least
<1>7. \A i \in 1 .. Len(file) : Whole[i] = file[i]
  BY WholeFacts
<1>8. \A k \in Consumed + 1 .. s : file[k] \in Blanks
  <2> TAKE k \in Consumed + 1 .. s
  <2>1. k - Raw \in 1 .. w /\ Raw + (k - Raw) = k /\ k \in 1 .. Len(file)
    BY <1>1, <1>2, <1>5, <1>6
  <2> QED BY <1>3, <1>7, <2>1
<1>9. Pos = Move(Start, Whole, s) /\ Pos = Move(Start, file, s) /\ Pos \in Places
  <2>1. Pos = Move(Start, Whole, s)
    BY <1>2, <1>5, MoveInBlock DEF Pos, Here
  <2>2. \A i \in 1 .. s : Whole[i] = file[i]
    BY <1>1, <1>5, <1>7
  <2> QED BY <1>5, <2>1, <2>2, MoveSame, MoveIs, StartPlace
<1>10. s + n <= Len(file)
  <2>1. n \in 1 .. Len(Text) /\ Text[n] \notin Blanks
    BY <1>1
  <2>2. Whole[s + n] \notin Blanks
    BY <1>3, <1>5, <2>1
  <2>3. s + n # Len(file) + 1 \/ ~Appended
    BY <2>2, Alphabet, WholeFacts
  <2>4. s + n <= Len(Whole)
    <3>1. Len(Whole) = Raw + Len(rest) + Len(unread) /\ Len(unread) \in Nat
      BY <1>1, Lengths, WholeFacts DEF Raw
    <3> QED BY ONLY <1>size, <3>1
  <2>5. /\ s + n \in Nat
        /\ Len(Whole) = Len(file) \/ (Appended /\ Len(Whole) = Len(file) + 1)
    BY <1>1, <1>5, WholeFacts
  <2> QED BY <1>1, <2>3, <2>4, <2>5
<1> DEFINE after == From(Text, n)
<1>11. /\ after \in Seq(Chars) /\ Len(after) = Len(Text) - n
       /\ \A i \in 1 .. Len(Text) - n : after[i] = Text[n + i]
  <2>1. n \in 0 .. Len(Text)
    BY <1>1
  <2> QED BY <1>3, <2>1, FromFacts
<1>12. PICK m \in 0 .. Len(after) : m = Lead(after, Blanks)
  BY <1>11, LeadFacts
<1>13. \A i \in 1 .. m : after[i] \in Blanks
  BY <1>11, <1>12, LeadFacts
<1>14. rest' = From(after, m) /\ cur' = Move([Pos EXCEPT !.cl = @ + n], after, m)
  BY <1>12 DEF Consume
<1> HIDE DEF after
<1>more. m \in Nat /\ m <= Len(after) /\ Len(after) = Len(Text) - n
  BY <1>1, <1>11, <1>12
<1>15. PICK k \in 0 .. Len(rest) : k = w + n + m
  BY ONLY <1>size, <1>more
<1>16. rest' = From(rest, k)
  <2>1. after = From(rest, w + n)
    <3>1. n \in 0 .. Len(rest) - w
      BY ONLY <1>size
    <3>2. Text = From(rest, w)
      BY <1>2 DEF Text
    <3> QED BY <1>1, <1>2, <3>1, <3>2, FromTwice DEF after
  <2>2. w + n \in 0 .. Len(rest) /\ m \in 0 .. Len(rest) - (w + n)
    BY ONLY <1>size, <1>more
  <2> QED BY <1>1, <1>14, <1>15, <2>1, <2>2, FromTwice
<1>17. /\ Whole' = Whole /\ Raw' = Raw + k
       /\ Consumed' = Least(Len(file), Raw + k)
  BY <1>16, BlockShrinks
<1>18. Raw + k = s + n + m /\ m \in Nat
  BY ONLY <1>size, <1>more, <1>15
<1>19. ASSUME NEW i \in 1 .. m PROVE after[i] = Whole[s + n + i]
  <2>1. i \in 1 .. Len(Text) - n /\ n + i \in 1 .. Len(Text) /\ s + (n + i) = s + n + i
    <3>1. i \in Nat /\ 1 <= i /\ i <= m
      BY <1>more
    <3>2. PICK l \in Nat : l = Len(Text)
      BY <1>size
    <3>3. n \in Nat /\ m \in Nat /\ m <= l - n
      BY <1>size, <1>more, <3>2
    <3>4. i \in 1 .. l - n /\ n + i \in 1 .. l
      BY ONLY <3>1, <3>2, <3>3
    <3>5. s + (n + i) = s + n + i
      BY ONLY <1>size, <3>1
    <3> QED BY <3>2, <3>4, <3>5
  <2> QED BY <1>3, <1>5, <1>11, <2>1
<1>20. PICK d \in Nat : d = s + n
  BY ONLY <1>size
<1>21. PICK e \in d .. Len(file) : e = Consumed' /\ e <= d + m
  <2>1. PICK f \in Nat : f = Raw + k /\ f = d + m
    <3>1. Raw + k = d + m
      BY <1>18, <1>20
    <3> QED BY <1>1, <3>1
  <2>2. Consumed' = Least(Len(file), f) /\ d <= Len(file)
    BY <1>10, <1>17, <1>20, <2>1
  <2>3. Least(Len(file), f) \in d .. Len(file) /\ Least(Len(file), f) <= d + m
    <3>1. /\ Len(file) \in Nat /\ f \in Nat /\ d \in Nat /\ f = d + m
          /\ m \in Nat /\ d <= Len(file)
      BY <1>1, <1>18, <1>20, <2>1, <2>2
    <3> QED BY ONLY <3>1 DEF Least
  <2> QED BY <2>2, <2>3
<1>22. \A j \in d + 1 .. e : file[j] \in Blanks
  <2> TAKE j \in d + 1 .. e
  <2>1. j - d \in 1 .. m /\ d + (j - d) = j /\ j \in 1 .. Len(file)
    <3>1. e \in Nat /\ e <= Len(file) /\ Len(file) \in Nat
      BY <1>1, <1>20
    <3>2. j \in Nat /\ d + 1 <= j /\ j <= e /\ d \in Nat
      BY <1>20, <3>1
    <3>3. e <= d + m /\ m \in Nat
      BY <1>18, <1>21
    <3> QED BY ONLY <3>1, <3>2, <3>3
  <2>2. after[j - d] = Whole[d + (j - d)]
    BY <1>19, <1>20, <2>1
  <2> QED BY <1>7, <1>13, <2>1, <2>2
<1>23. Here'
  <2>1. Move(Pos, Text, n) = [Pos EXCEPT !.cl = @ + n]
    <3>1. \A i \in 1 .. n : Text[i] # Newline
      BY Alphabet
    <3> QED BY <1>1, <1>9, <3>1, MoveOnLine
  <2>2. \A i \in 1 .. n : Text[i] = Whole[s + i]
    <3> TAKE i \in 1 .. n
    <3>1. i \in 1 .. Len(Text) /\ s = Raw + w
      BY <1>1, <1>5
    <3>2. Text[i] = Whole[Raw + w + i]
      BY <1>3, <3>1
    <3> QED BY <3>1, <3>2
  <2>3. Move(Pos, Text, n) = Move(Start, Whole, s + n)
    <3>1. Pos = Move(Start, Whole, s) /\ s \in Nat
      BY <1>5, <1>9
    <3>2. \A c : c = s + n => Move(Move(Start, Whole, s), Text, n) = Move(Start, Whole, c)
      <4>1. n \in Nat
        BY <1>1
      <4> QED BY ONLY <2>2, <3>1, <4>1, MoveMore, StartPlace
    <3> QED BY <3>1, <3>2
  <2>5. \A i \in 1 .. m : after[i] = Whole[d + i]
    BY <1>19, <1>20
  <2>4. PICK f \in Nat : f = d + m
    BY <1>18
  <2>6. Move(Move(Start, Whole, d), after, m) = Move(Start, Whole, f)
    <3>1. m \in Nat /\ d \in Nat /\ f \in Nat
      BY <1>18, <1>20, <2>4
    <3>2. ASSUME NEW a, NEW b, NEW c, a \in Nat, b \in Nat, c = a + b,
                 \A i \in 1 .. b : after[i] = Whole[a + i]
          PROVE  Move(Move(Start, Whole, a), after, b) = Move(Start, Whole, c)
      BY ONLY <3>2, MoveMore, StartPlace
    <3> QED BY <2>4, <2>5, <3>1, <3>2
  <2>7. cur' = Move(Start, Whole, f)
    BY <1>14, <1>20, <2>1, <2>3, <2>6
  <2>8. Raw' = f
    BY <1>17, <1>18, <1>20, <2>4
  <2> QED BY <1>17, <2>7, <2>8 DEF Here
<1>24. /\ Consumed' \in s + n .. Len(file)
       /\ \A j \in s + n + 1 .. Consumed' : file[j] \in Blanks
  BY <1>20, <1>21, <1>22
<1>25. s \in Consumed .. Len(file)
  BY <1>1, <1>2, <1>5, <1>6
<1> QED BY <1>5, <1>6, <1>8, <1>9, <1>10, <1>15, <1>16, <1>23, <1>24, <1>25
-----------------------------------------------------------------------------
(* Every step keeps the invariant. *)

LEMMA FromStart ==
  ASSUME NEW text \in Seq(Chars)
  PROVE  From(text, 0) = text /\ From(text, Len(text)) = <<>>
<1>1. Len(text) \in Nat
  OBVIOUS
<1>2. /\ From(text, 0) \in Seq(Chars) /\ Len(From(text, 0)) = Len(text)
      /\ \A i \in 1 .. Len(text) : From(text, 0)[i] = text[i]
  BY <1>1, FromFacts
<1>3. From(text, 0) = text
  BY <1>2, SeqEqual
<1>4. Len(From(text, Len(text))) = 0 /\ From(text, Len(text)) \in Seq(Chars)
  BY <1>1, FromFacts
<1> QED BY <1>3, <1>4

LEMMA TailFrom ==
  ASSUME NEW text \in Seq(Chars), text # <<>>
  PROVE  Tail(text) = From(text, 1) /\ Len(text) \in Nat \ {0} /\ Head(text) = text[1]
<1>1. Len(text) \in Nat \ {0} /\ Head(text) = text[1]
  OBVIOUS
<1>2. /\ From(text, 1) \in Seq(Chars) /\ Len(From(text, 1)) = Len(text) - 1
      /\ \A i \in 1 .. Len(text) - 1 : From(text, 1)[i] = text[1 + i]
  <2>1. 1 \in 0 .. Len(text)
    BY <1>1
  <2> QED BY <2>1, FromFacts
<1>3. /\ Tail(text) \in Seq(Chars) /\ Len(Tail(text)) = Len(text) - 1
      /\ \A i \in 1 .. Len(text) - 1 : Tail(text)[i] = text[i + 1]
  BY <1>1
<1>4. \A i \in 1 .. Len(text) - 1 : text[1 + i] = text[i + 1]
  BY <1>1
<1> QED BY <1>1, <1>2, <1>3, <1>4, SeqEqual

LEMMA NotMoved == ASSUME NEW text PROVE Move(Start, text, 0) = Start
<1>1. \A i \in 1 .. 0 : text[i] # Newline
  OBVIOUS
<1>2. Move(Start, text, 0) = [Start EXCEPT !.cl = @ + 0]
  BY <1>1, StartPlace, MoveOnLine
<1> QED BY <1>2 DEF Start

LEMMA NoText ==
  /\ <<>> \in Seq(Chars) /\ <<>> \in Seq(Found) /\ Len(<<>>) = 0
  /\ From(<<>>, 0) = <<>>
<1>1. <<>> \in Seq(Chars) /\ <<>> \in Seq(Found) /\ Len(<<>>) = 0
  OBVIOUS
<1> QED BY ONLY <1>1, FromStart

\* Between two files.
LEMMA NoFile ==
  ASSUME file = <<>>, unread = <<>>, rest = <<>>, orig_len = 0,
         cur = Start, tokens = <<>>, room = TokenBlock,
         inside_comment \in BOOLEAN, status = "idle"
  PROVE  SInv /\ Consumed = 0
<1>1. Typed
  BY NoText, BlockSizeAssumption, LimitsAssumption, TokenBlockAssumption DEF Typed
<1>2. ~Appended /\ Whole = <<>>
  BY DEF Appended, Whole
<1>3. Raw = 0
  <2>1. Len(Whole) = 0 /\ Len(unread) = 0 /\ Len(rest) = 0
    BY <1>2
  <2> QED BY ONLY <2>1 DEF Raw
<1>4. Window
  BY <1>3, NoText DEF Window
<1>5. Stage
  BY <1>2, <1>3, NotMoved DEF Stage, Here
<1>6. OpenOnLine
  BY DEF OpenOnLine
<1>7. Consumed = 0
  BY <1>2, NoText DEF Consumed, Least
<1> QED BY <1>1, <1>4, <1>5, <1>6, <1>7 DEF SInv

\* `new_tokens` and `scan` start at the first character.
LEMMA StartFileKeeps == ASSUME SInv, StartFile PROVE SInv' /\ Consumed' = Consumed
<1> USE DEF StartFile, SInv
<1>1. /\ file = <<>> /\ unread = <<>> /\ rest = <<>> /\ orig_len = 0 /\ tokens = <<>> /\ Here
      /\ file' \in Seq(Chars) /\ Len(file') \in Nat
  BY FilesAssumption DEF Stage
<1>2. Typed'
  BY <1>1 DEF Typed
<1>3. ~Appended /\ ~Appended' /\ Whole' = file' /\ Whole = <<>>
  BY <1>1 DEF Appended, Whole
<1>4. Raw = 0 /\ Raw' = 0
  <2>1. Len(Whole) = 0 /\ Len(unread) = 0 /\ Len(rest) = 0
    BY <1>1, <1>3
  <2>2. Len(Whole') = Len(file') /\ Len(unread') = Len(file') /\ Len(rest') = 0
    BY <1>1, <1>3
  <2>3. Len(file') \in Nat
    BY <1>1
  <2>4. Raw = 0
    BY ONLY <2>1 DEF Raw
  <2>5. Raw' = 0
    BY ONLY <2>2, <2>3 DEF Raw
  <2> QED BY <2>4, <2>5
<1>5. Window'
  BY <1>1, <1>3, <1>4, FromStart DEF Window
<1>6. Stage'
  BY <1>1, <1>3, <1>4, NotMoved DEF Stage, Here
<1>7. Consumed = 0 /\ Consumed' = 0
  BY <1>1, <1>3 DEF Consumed, Least
<1>8. OpenOnLine'
  BY <1>7 DEF OpenOnLine
<1> QED BY <1>2, <1>5, <1>6, <1>7, <1>8

\* After a file only `inside_comment` is left, closed or not.
LEMMA FinishFileKeeps ==
  ASSUME SInv, FinishFile PROVE SInv' /\ Consumed' = 0
<1> USE DEF FinishFile, SInv
<1>1. Typed'
  BY NoText, BlockSizeAssumption, LimitsAssumption, TokenBlockAssumption DEF Typed
<1>2. ~Appended' /\ Whole' = <<>>
  BY DEF Appended, Whole
<1>3. Raw' = 0
  <2>1. Len(Whole') = 0 /\ Len(unread') = 0 /\ Len(rest') = 0
    BY <1>2
  <2> QED BY ONLY <2>1 DEF Raw
<1>4. Window'
  BY <1>3, NoText DEF Window
<1>5. Stage'
  BY <1>2, <1>3, NotMoved DEF Stage, Here
<1>6. OpenOnLine'
  BY DEF OpenOnLine
<1>7. Consumed' = 0
  BY <1>2, NoText DEF Consumed, Least
<1> QED BY <1>1, <1>4, <1>5, <1>6, <1>7

\* A failed `open` or `read` consumes nothing.
LEMMA ReadFailsKeeps ==
  ASSUME SInv, ReadFails PROVE SInv' /\ Consumed' = Consumed
<1> USE DEF ReadFails, SInv
<1>1. Appended' = Appended /\ Whole' = Whole /\ Raw' = Raw /\ Consumed' = Consumed
  BY DEF Appended, Whole, Raw, Consumed
<1>2. Typed' /\ Window'
  BY <1>1 DEF Typed, Window
<1>3. Stage'
  BY <1>1 DEF Stage
<1>4. OpenOnLine'
  BY <1>1 DEF OpenOnLine, EmptyComment
<1> QED BY <1>1, <1>2, <1>3, <1>4

\* With the block empty at the end of the file, all of it is consumed.
LEMMA EndOfBlockKeeps ==
  ASSUME SInv, EndOfBlock
  PROVE  /\ SInv' /\ Consumed' = Consumed /\ status' \in {"read", "ok"}
         /\ status' = "ok" => Consumed = Len(file)
<1> USE DEF EndOfBlock, LeaveBlock, SInv
<1>1. /\ Appended' = Appended /\ Whole' = Whole /\ Raw' = Raw /\ Consumed' = Consumed
      /\ rest = <<>> /\ Len(rest) = 0
  BY DEF Appended, Whole, Raw, Consumed
<1>2. status' = IF orig_len = BlockSize THEN "read" ELSE "ok"
  BY Lengths DEF Overlaps
<1>3. Typed' /\ Window'
  BY <1>1, <1>2 DEF Typed, Window
<1>4. orig_len = BlockSize \/ unread = <<>>
  BY Lengths DEF Stage, Typed
<1>5. Stage'
  BY <1>1, <1>2, <1>4 DEF Stage, Here
<1>6. OpenOnLine'
  BY <1>1 DEF OpenOnLine, EmptyComment
<1>7. status' = "ok" => Consumed = Len(file)
  <2> SUFFICES ASSUME unread = <<>> PROVE Consumed = Len(file)
    BY <1>2, <1>4
  <2>1. Raw = Len(Whole) /\ Raw >= Len(file)
    BY <1>1, Lengths, WholeFacts DEF Raw
  <2> QED BY <2>1, ConsumedIs, Lengths DEF Least, Window
<1> QED BY <1>1, <1>2, <1>3, <1>5, <1>6, <1>7

\* A block that is read follows what was kept; a newline is appended to the last
\* one only, and only if the file does not end with one.
LEMMA ReadBlockKeeps ==
  ASSUME SInv, ReadBlock
  PROVE  SInv' /\ Consumed' = Consumed
<1>0. Typed /\ Window /\ Stage /\ OpenOnLine
  BY DEF SInv
<1>1. /\ Len(file) \in Nat /\ Len(unread) \in Nat /\ Len(rest) \in 0 .. BlockSize
      /\ BlockSize \in Nat \ {0} /\ Raw \in Nat
      /\ file \in Seq(Chars) /\ unread \in Seq(Chars) /\ rest \in Seq(Chars)
  BY <1>0, Lengths DEF Typed, Window
<1>2. ~Appended /\ Whole = file
  BY <1>0, Lengths DEF Stage, Appended, Whole, ReadBlock
<1>3. PICK n \in 0 .. Len(unread) :
        /\ n = Least(BlockSize - Len(rest), Len(unread))
        /\ n <= BlockSize - Len(rest)
        /\ n # Len(unread) => n = BlockSize - Len(rest)
  <2>1. BlockSize - Len(rest) \in Nat
    BY <1>1
  <2>2. PICK a \in Nat : a = BlockSize - Len(rest)
    BY <2>1
  <2>3. /\ Least(a, Len(unread)) \in 0 .. Len(unread)
        /\ Least(a, Len(unread)) <= a
        /\ Least(a, Len(unread)) # Len(unread) => Least(a, Len(unread)) = a
    BY <1>1, <2>2 DEF Least
  <2> QED BY <2>2, <2>3
<1>4. PICK block : block = rest \o SubSeq(unread, 1, n)
  OBVIOUS
<1>5. unread' = From(unread, n) /\ rest' = Terminated(block) /\ orig_len' = Len(block)
      /\ status' = "scan" /\ UNCHANGED <<file, cur, tokens, room, inside_comment>>
  BY <1>3, <1>4 DEF ReadBlock
<1>6. /\ unread' \in Seq(Chars) /\ Len(unread') = Len(unread) - n
      /\ \A i \in 1 .. Len(unread) - n : unread'[i] = unread[n + i]
  BY <1>1, <1>3, <1>5, FromFacts
<1>7. PICK u \in Seq(Chars) :
        /\ u = SubSeq(unread, 1, n) /\ Len(u) = n
        /\ \A i \in 1 .. n : u[i] = unread[i]
  <2>1. n \in Nat /\ n <= Len(unread)
    BY <1>1, <1>3
  <2>2. /\ SubSeq(unread, 1, n) \in Seq(Chars) /\ Len(SubSeq(unread, 1, n)) = n
        /\ \A i \in 1 .. n : SubSeq(unread, 1, n)[i] = unread[i]
    BY ONLY <1>1, <2>1
  <2> QED BY <2>2
<1>8. /\ block \in Seq(Chars) /\ Len(block) = Len(rest) + n
      /\ \A i \in 1 .. Len(rest) : block[i] = rest[i]
      /\ \A i \in 1 .. n : block[Len(rest) + i] = u[i]
  BY <1>1, <1>4, <1>7
<1>9. Raw = Len(file) - Len(unread) - Len(rest)
  BY <1>2 DEF Raw
\* The arithmetic of the four lengths.
<1> DEFINE Sizes(L, U, R, B) ==
      /\ L \in Nat /\ U \in Nat /\ R \in Nat /\ B = R + n /\ Raw = L - U - R
      /\ n \in Nat /\ n <= U /\ Raw \in Nat /\ BlockSize \in Nat
<1>size. Sizes(Len(file), Len(unread), Len(rest), Len(block))
  BY <1>1, <1>3, <1>8, <1>9
<1>padded. ASSUME NEW L, NEW U, NEW R, NEW B, Sizes(L, U, R, B), NEW a \in {0, 1}
       PROVE  /\ (L + a) - (U - n) - (R + n + a) = Raw
              /\ L - (U - n) - (R + n + a) + a = Raw
  <2>1. a \in Nat
    OBVIOUS
  <2> QED BY ONLY <1>padded, <2>1
<1>short. ASSUME NEW L, NEW U, NEW R, NEW B, Sizes(L, U, R, B)
       PROVE  Raw + B <= L /\ (n = U => Raw + B = L)
  BY ONLY <1>short
<1> HIDE DEF Sizes
<1>10. PICK k \in 0 .. Len(file) : k = Len(file) - Len(unread)
  BY <1>0, <1>1, <1>9 DEF Window
<1>11. unread = From(file, k) /\ \A i \in 1 .. Len(file) - k : unread[i] = file[k + i]
  <2>1. unread = From(file, k)
    BY <1>0, <1>10 DEF Window
  <2>2. \A i \in 1 .. Len(file) - k : From(file, k)[i] = file[k + i]
    BY <1>1, FromFacts
  <2> QED BY <2>1, <2>2
<1>13. orig_len' = Len(block) /\ Len(block) \in 0 .. BlockSize
  BY <1>1, <1>3, <1>5, <1>8
<1>12. ASSUME NEW i \in 1 .. Len(block) PROVE block[i] = file[Raw + i]
  <2>1. CASE i <= Len(rest)
    <3>1. i \in 1 .. Len(rest)
      BY <1>1, <2>1
    <3> QED BY <1>0, <1>2, <1>8, <3>1 DEF Window
  <2>2. CASE i > Len(rest)
    <3>1. PICK j \in 1 .. n : i = Len(rest) + j
      <4>1. i - Len(rest) \in 1 .. n /\ i = Len(rest) + (i - Len(rest))
        <5>1. /\ i \in Nat /\ i <= Len(block) /\ Len(rest) \in Nat /\ n \in Nat
              /\ Len(block) = Len(rest) + n
          BY <1>1, <1>3, <1>8, <1>13
        <5> QED BY ONLY <2>2, <5>1
      <4> QED BY <4>1
    <3>2. j \in 1 .. Len(file) - k /\ k + j = Raw + i
      BY <1>1, <1>3, <1>9, <1>10, <3>1
    <3> QED BY <1>7, <1>8, <1>11, <3>1, <3>2
  <2> QED BY <1>1, <1>8, <2>1, <2>2
<1>14. Len(block) < BlockSize => n = Len(unread) /\ Len(unread') = 0 /\ unread' = <<>>
  BY <1>1, <1>3, <1>6, <1>8
\* The last character of a short block is the last one of the file.
<1>15. ASSUME Len(block) < BlockSize, Len(block) > 0
       PROVE  Last(block) = Last(file) /\ Raw + Len(block) = Len(file)
  <2>1. Raw + Len(block) = Len(file)
    BY <1>14, <1>15, <1>size, <1>short
  <2>2. Len(block) \in 1 .. Len(block)
    BY <1>13, <1>15
  <2> QED BY <1>12, <2>1, <2>2 DEF Last
<1>16. Terminated(block) = IF Appended' THEN Append(block, Newline) ELSE block
  <2>1. block # <<>> <=> Len(block) > 0
    BY <1>8, <1>13
  <2>2. Appended' <=> Len(block) > 0 /\ Len(block) < BlockSize /\ Last(file) # Newline
    BY <1>5, <1>13 DEF Appended
  <2> QED BY <1>15, <2>1, <2>2 DEF Terminated
<1>17. Whole' = IF Appended' THEN Append(file, Newline) ELSE file
  BY <1>5 DEF Whole
<1>18. Newline \in Chars
  BY Alphabet
<1>19. /\ rest' \in Seq(Chars) /\ Len(rest') <= BlockSize
       /\ Len(rest') = Len(block) + (IF Appended' THEN 1 ELSE 0)
       /\ Len(Whole') = Len(file) + (IF Appended' THEN 1 ELSE 0)
       /\ \A i \in 1 .. Len(block) : rest'[i] = block[i]
       /\ Appended' => rest'[Len(block) + 1] = Newline
       /\ \A i \in 1 .. Len(file) : Whole'[i] = file[i]
       /\ Appended' => Whole'[Len(file) + 1] = Newline
  <2>1. CASE ~Appended'
    BY <1>5, <1>8, <1>13, <1>16, <1>17, <2>1
  <2>2. CASE Appended'
    <3>1. Len(block) < BlockSize
      BY <1>5, <2>2 DEF Appended
    <3>2. rest' = Append(block, Newline) /\ Whole' = Append(file, Newline)
      BY <1>5, <1>16, <1>17, <2>2
    <3>3. ASSUME NEW text \in Seq(Chars), NEW c \in Chars
          PROVE  /\ Append(text, c) \in Seq(Chars) /\ Len(Append(text, c)) = Len(text) + 1
                 /\ \A i \in 1 .. Len(text) : Append(text, c)[i] = text[i]
                 /\ Append(text, c)[Len(text) + 1] = c
      BY ONLY <3>3
    <3>4. Len(block) + 1 <= BlockSize
      BY <1>1, <1>13, <3>1
    <3> QED BY <1>1, <1>8, <1>18, <2>2, <3>2, <3>3, <3>4
  <2> QED BY <2>1, <2>2
<1>20. Raw' = Raw
  <2>1. PICK a \in {0, 1} : a = IF Appended' THEN 1 ELSE 0
    OBVIOUS
  <2>2. Len(Whole') = Len(file) + a /\ Len(unread') = Len(unread) - n
        /\ Len(rest') = Len(rest) + n + a
    BY <1>6, <1>8, <1>19, <2>1
  <2>3. Raw' = (Len(file) + a) - (Len(unread) - n) - (Len(rest) + n + a)
    BY <2>2 DEF Raw
  <2> QED BY <1>size, <1>padded, <2>1, <2>3
<1>21. Raw + Len(block) <= Len(file) /\ (Appended' => Raw + Len(block) = Len(file))
  <2>1. Appended' => Len(block) < BlockSize /\ Len(block) > 0
    BY <1>5, <1>13 DEF Appended
  <2>2. Raw + Len(block) = Len(file) - Len(unread) + n
    BY <1>1, <1>3, <1>8, <1>9
  <2> QED BY <1>1, <1>3, <1>15, <2>1, <2>2
<1>22. Typed'
  BY <1>0, <1>1, <1>5, <1>6, <1>13, <1>19 DEF Typed
<1>23. Window'
  <2>1. unread' = From(file, k + n) /\ k + n = Len(file) - Len(unread')
    <3>0. k = Len(file) - Len(unread) /\ Len(unread') = Len(unread) - n
          /\ n \in Nat /\ n <= Len(unread) /\ Len(file) \in Nat /\ Len(unread) \in Nat
      BY <1>1, <1>3, <1>6, <1>10
    <3>1. n \in 0 .. Len(file) - k /\ k + n = Len(file) - Len(unread')
      BY ONLY <3>0
    <3> QED BY <1>1, <1>5, <1>11, <3>1, FromTwice
  <2>2. Len(unread') <= Len(file)
    BY <1>1, <1>3, <1>6, <1>10
  <2>3. ASSUME NEW i \in 1 .. Len(rest') PROVE rest'[i] = Whole'[Raw + i]
    <3>1. CASE i \in 1 .. Len(block)
      <4>1. Raw + i \in 1 .. Len(file)
        BY <1>1, <1>13, <1>21, <3>1
      <4> QED BY <1>12, <1>19, <3>1, <4>1
    <3>2. CASE i \notin 1 .. Len(block)
      <4>1. Appended' /\ i = Len(block) + 1
        BY <1>13, <1>19, <3>2
      <4>2. Raw + i = Len(file) + 1
        <5>1. Raw + Len(block) = Len(file) /\ Raw \in Nat /\ Len(block) \in Nat
          BY <1>1, <1>13, <1>21, <4>1
        <5> QED BY <4>1, <5>1
      <4> QED BY <1>19, <4>1, <4>2
    <3> QED BY <3>1, <3>2
  <2> QED BY <1>1, <1>5, <1>20, <2>1, <2>2, <2>3 DEF Window
<1>24. Here'
  <2>1. \A i \in 1 .. Raw : file[i] = Whole'[i]
    BY <1>1, <1>13, <1>19, <1>21
  <2>2. cur' = Move(Start, file, Raw)
    BY <1>0, <1>2, <1>5 DEF Stage, Here, ReadBlock
  <2> QED BY <1>1, <1>20, <2>1, <2>2, MoveSame DEF Here
<1>25. Stage'
  <2>1. Len(block) < BlockSize /\ rest' # <<>> => Last(rest') = Newline
    <3> SUFFICES ASSUME Len(block) < BlockSize, rest' # <<>> PROVE Last(rest') = Newline
      OBVIOUS
    <3>1. CASE Appended'
      BY <1>19, <3>1 DEF Last
    <3>2. CASE ~Appended'
      <4>1. rest' = block /\ block # <<>>
        BY <1>5, <1>16, <3>2
      <4>2. Terminated(block) = block
        BY <1>16, <3>2
      <4>3. Last(block) # Newline => Terminated(block) = Append(block, Newline)
        BY <4>1 DEF Terminated
      <4>4. Append(block, Newline) # block
        <5>1. Len(Append(block, Newline)) = Len(block) + 1 /\ Len(block) \in Nat
          BY <1>8, <1>18
        <5> QED BY <5>1
      <4> QED BY <4>1, <4>2, <4>3, <4>4
    <3> QED BY <3>1, <3>2
  <2>2. Appended' => Len(block) < BlockSize
    BY <1>5 DEF Appended
  <2> QED BY <1>5, <1>14, <1>24, <2>1, <2>2 DEF Stage
<1>26. Consumed' = Raw /\ Consumed = Raw
  <2>1. Raw <= Len(file)
    BY <1>1, <1>13, <1>21
  <2>2. Consumed = Raw
    BY <1>0, <1>1, <2>1, ConsumedIs DEF Least
  <2>3. PICK a \in {0, 1} : a = IF Appended' THEN 1 ELSE 0
    OBVIOUS
  <2>lens. Len(unread') = Len(unread) - n /\ Len(rest') = Len(rest) + n + a
    BY <1>6, <1>8, <1>19, <2>3
  <2>4. Len(file) - Len(unread') - Len(rest') + a = Raw
    BY <1>size, <1>padded, <2>3, <2>lens
  <2>5. Consumed' = Least(Len(file), Raw)
    BY <1>5, <2>3, <2>4 DEF Consumed
  <2> QED BY <1>1, <2>1, <2>2, <2>5 DEF Least
<1>27. OpenOnLine'
  BY <1>0, <1>5, <1>26 DEF OpenOnLine, EmptyComment
<1> QED BY <1>22, <1>23, <1>25, <1>26, <1>27 DEF SInv

\* A step of the loop of `scan_blk` that consumes the start of the block.
LEMMA BlockGoesOn ==
  ASSUME SInv, Scanning, NEW k \in 0 .. Len(rest),
         rest' = From(rest, k), UNCHANGED <<file, unread, orig_len>>, Here'
  PROVE  /\ Window' /\ (status' = "scan" => Stage')
         /\ rest' \in Seq(Chars) /\ Len(rest') <= BlockSize
<1>1. Typed /\ Window /\ Stage /\ status = "scan"
  BY DEF SInv, Scanning
<1>2. /\ Appended' = Appended /\ Window'
      /\ rest' \in Seq(Chars) /\ Len(rest') = Len(rest) - k
      /\ rest' # <<>> => rest # <<>> /\ Last(rest') = Last(rest)
  BY <1>1, BlockShrinks
<1>3. Len(rest') <= BlockSize
  <2>1. Len(rest) \in Nat /\ Len(rest) <= BlockSize /\ BlockSize \in Nat
    BY <1>1, Lengths DEF Typed
  <2> QED BY <1>2, <2>1
<1>4. ASSUME status' = "scan" PROVE Stage'
  BY <1>1, <1>2, <1>4 DEF Stage
<1> QED BY <1>2, <1>3, <1>4

\* One character of a comment, or the appended newline, is consumed.
LEMMA SkipCommentKeeps ==
  ASSUME SInv, SkipComment
  PROVE  /\ SInv'
         /\ \/ /\ Consumed < Len(file) /\ Consumed' = Consumed + 1
               /\ inside_comment' = (file[Consumed + 1] # Newline)
            \/ Consumed = Len(file) /\ Consumed' = Consumed /\ inside_comment' = FALSE
<1>1. Typed /\ Window /\ Stage /\ OpenOnLine /\ Scanning /\ rest # <<>> /\ Here
  BY DEF SInv, Scanning, SkipComment, Stage
<1>2. /\ rest' = From(rest, 1) /\ Len(rest) \in Nat \ {0} /\ Head(rest) = rest[1]
      /\ 1 \in 1 .. Len(rest) /\ 1 \in 0 .. Len(rest)
  <2>1. rest \in Seq(Chars)
    BY <1>1 DEF Typed
  <2> QED BY <1>1, <2>1, TailFrom DEF SkipComment
<1>3. UNCHANGED <<file, unread, orig_len, tokens, room, status>>
  BY DEF SkipComment
<1>4. PICK r \in Nat : r = Raw
  BY <1>1 DEF Window
<1>5. /\ Whole' = Whole /\ Raw' = r + 1
      /\ Consumed' = Least(Len(file), r + 1) /\ Consumed = Least(Len(file), r)
  BY <1>1, <1>2, <1>3, <1>4, BlockShrinks, ConsumedIs
<1>6. Here'
  <2>1. cur' = Move(Move(Start, Whole, Raw), rest, 1)
    BY <1>1 DEF SkipComment, Here
  <2>2. cur' = Move(Start, Whole, Raw + 1)
    BY <1>1, <1>2, <2>1, MoveInBlock
  <2> QED BY <1>4, <1>5, <2>2 DEF Here
<1>7. inside_comment' = (Whole[r + 1] # Newline)
  BY <1>1, <1>2, <1>4 DEF Window, SkipComment
<1>8. Len(file) \in Nat /\ r + 1 <= Len(Whole)
  <2>1. Len(Whole) = Raw + Len(rest) + Len(unread) /\ Len(unread) \in Nat
        /\ Len(rest) \in Nat /\ Len(rest) >= 1 /\ Len(file) \in Nat
    BY <1>1, <1>2, Lengths, WholeFacts DEF Raw
  <2> QED BY <1>4, <2>1
<1>9. CASE r < Len(file)
  <2>1. Consumed = r /\ Consumed' = r + 1
    BY <1>5, <1>8, <1>9 DEF Least
  <2>2. Whole[r + 1] = file[r + 1]
    <3>1. r + 1 \in 1 .. Len(file)
      BY <1>8, <1>9
    <3> QED BY <1>1, <3>1, WholeFacts
  <2>3. OpenOnLine'
    BY <1>3, <1>7, <2>1, <2>2 DEF OpenOnLine
  <2>4. SInv'
    BY <1>1, <1>2, <1>3, <1>6, <1>7, <2>3, BlockGoesOn DEF SInv, Typed, Scanning
  <2> QED BY <1>7, <1>9, <2>1, <2>2, <2>4
<1>10. CASE r >= Len(file)
  <2>1. Appended /\ r = Len(file)
    BY <1>1, <1>8, <1>10, WholeFacts
  <2>2. Consumed = Len(file) /\ Consumed' = Len(file)
    BY <1>5, <1>8, <2>1 DEF Least
  <2>3. inside_comment' = FALSE
    BY <1>1, <1>7, <2>1, WholeFacts
  <2>4. OpenOnLine'
    BY <2>3 DEF OpenOnLine
  <2>5. SInv'
    BY <1>1, <1>2, <1>3, <1>6, <2>3, <2>4, BlockGoesOn DEF SInv, Typed, Scanning
  <2> QED BY <2>2, <2>3, <2>5
<1>11. r < Len(file) \/ r >= Len(file)
  BY <1>4, <1>8
<1> QED BY <1>9, <1>10, <1>11

\* What is matched in the block is matched in the file, at its place.
LEMMA MatchTokenKeeps ==
  ASSUME SInv, MatchToken
  PROVE  /\ SInv'
         /\ \E s \in Consumed .. Len(file) :
              /\ \A k \in Consumed + 1 .. s : file[k] \in Blanks
              /\ \E lexeme \in LexemeAt(From(file, s), TRUE) :
                   /\ tokens' = Append(tokens, Token(lexeme, Move(Start, file, s)))
                   /\ lexeme.length \in Nat
                   /\ Consumed' \in s + lexeme.length .. Len(file)
                   /\ \A k \in s + lexeme.length + 1 .. Consumed' : file[k] \in Blanks
<1>1. Typed /\ Window /\ Stage /\ OpenOnLine /\ Scanning /\ Here /\ inside_comment = FALSE
      /\ (Appended => unread = <<>>)
  BY DEF SInv, Scanning, MatchToken, Stage, Typed
<1>2. PICK lexeme \in LexemeAt(Text, FALSE) :
        /\ room' = IF Len(tokens) >= room THEN room + TokenBlock ELSE room
        /\ tokens' = Append(tokens, Token(lexeme, Pos))
        /\ Consume(lexeme.length)
  BY DEF MatchToken
<1>3. UNCHANGED <<file, unread, orig_len, inside_comment, status>>
  BY DEF MatchToken
<1>4. Text \in Seq(Chars) /\ Raw + Next_ws \in Int
  BY <1>1, TextFacts
<1>5. PICK n \in 1 .. Len(Text) :
        n = lexeme.length /\ \A i \in 1 .. n : Text[i] \notin Blanks
  BY <1>2, <1>4, LexemeShape
<1>6. PICK s : s = Raw + Next_ws
  OBVIOUS
<1>7. /\ Consumed = Raw /\ s \in Consumed .. Len(file)
      /\ \A k \in Consumed + 1 .. s : file[k] \in Blanks
      /\ Shows(Text, From(file, s))
      /\ Pos = Move(Start, file, s) /\ Pos \in Places
      /\ Consumed' \in s + n .. Len(file)
      /\ \A k \in s + n + 1 .. Consumed' : file[k] \in Blanks
      /\ \E k \in 0 .. Len(rest) : rest' = From(rest, k)
      /\ Here'
  <2>1. Consume(n)
    BY <1>2, <1>5
  <2> QED BY <1>1, <1>3, <1>5, <1>6, <2>1, MatchMeans
<1>8. lexeme \in LexemeAt(From(file, s), TRUE)
  <2>1. s \in 0 .. Len(file) /\ file \in Seq(Chars)
    BY <1>1, <1>7, Lengths DEF Typed, Window
  <2>2. From(file, s) \in Seq(Chars)
    BY <2>1, FromFacts
  <2> QED BY <1>2, <1>4, <1>7, <2>2, LexemeKept
<1>9. tokens' \in Seq(Found) /\ room' \in Nat /\ Len(tokens') <= room'
  <2>1. tokens \in Seq(Found) /\ room \in Nat /\ Len(tokens) <= room
        /\ TokenBlock \in Nat \ {0} /\ Len(tokens) \in Nat
    BY <1>1, TokenBlockAssumption DEF Typed
  <2>2. Token(lexeme, Pos) \in Found
    <3>1. lexeme \in Lexemes
      BY <1>2, <1>4 DEF Lexemes
    <3> QED BY <1>7, <3>1 DEF Found
  <2>3. tokens' \in Seq(Found) /\ Len(tokens') = Len(tokens) + 1
    BY <1>2, <2>1, <2>2
  <2> QED BY <1>2, <2>1, <2>3
<1>10. SInv'
  <2>1. Window' /\ Stage' /\ rest' \in Seq(Chars) /\ Len(rest') <= BlockSize
    BY <1>1, <1>3, <1>7, BlockGoesOn DEF SInv, Scanning
  <2>2. Typed'
    BY <1>1, <1>3, <1>9, <2>1 DEF Typed
  <2>3. OpenOnLine'
    BY <1>1, <1>3 DEF OpenOnLine
  <2> QED BY <2>1, <2>2, <2>3 DEF SInv
<1>11. tokens' = Append(tokens, Token(lexeme, Move(Start, file, s)))
  BY <1>2, <1>7
<1>12. lexeme.length \in Nat
  BY <1>4, <1>5
<1> QED BY <1>5, <1>7, <1>8, <1>10, <1>11, <1>12

\* A comment starts with two slashes.
LEMMA CommentMeans ==
  ASSUME NEW text \in Seq(Chars)
  PROVE  CommentAt(text) <=> Len(text) >= 2 /\ text[1] = Slash /\ text[2] = Slash
<1>1. /\ <<Slash, Slash>> \in Seq(Chars \ Blanks) /\ Len(<<Slash, Slash>>) = 2
      /\ <<Slash, Slash>>[1] = Slash /\ <<Slash, Slash>>[2] = Slash
  BY Alphabet
<1>2. CommentAt(text) <=> /\ Len(<<Slash, Slash>>) <= Len(text)
                          /\ \A i \in 1 .. Len(<<Slash, Slash>>) : <<Slash, Slash>>[i] = text[i]
  BY <1>1, PrefixMeans DEF CommentAt
<1>3. 1 .. Len(<<Slash, Slash>>) = {1, 2}
  BY <1>1
<1> QED BY <1>1, <1>2, <1>3

\* A newline among the blanks that are consumed with `//` makes the comment
\* an empty one.
LEMMA NewlineAfterComment ==
  ASSUME file \in Seq(Chars), NEW s \in 0 .. Len(file), CommentAt(From(file, s)),
         NEW e \in s + 2 .. Len(file),
         \A k \in s + 3 .. e : file[k] \in Blanks, file[e] = Newline
  PROVE  EmptyComment
<1>1. /\ Len(file) \in Nat /\ s \in Nat /\ e \in Nat /\ s + 2 \in 0 .. Len(file)
      /\ e >= s + 2
  OBVIOUS
<1>2. /\ From(file, s) \in Seq(Chars) /\ Len(From(file, s)) = Len(file) - s
      /\ \A i \in 1 .. Len(file) - s : From(file, s)[i] = file[s + i]
  BY FromFacts
<1>3. file[s + 2] = Slash
  <2>1. Len(From(file, s)) >= 2 /\ From(file, s)[2] = Slash
    BY <1>2, CommentMeans
  <2>2. 2 \in 1 .. Len(file) - s
    BY <1>1
  <2> QED BY <1>2, <2>1, <2>2
<1>4. e # s + 2
  BY <1>3, Alphabet
<1>5. PICK c \in 0 .. Len(file) : c = s + 2
  BY <1>1
<1> DEFINE text == From(file, c)
<1>6. /\ text \in Seq(Chars) /\ Len(text) = Len(file) - c
      /\ \A i \in 1 .. Len(file) - c : text[i] = file[c + i]
  BY FromFacts
<1>7. PICK k \in 1 .. Len(file) - c : k = e - c
  BY <1>1, <1>4, <1>5
<1>8. \A i \in 1 .. k : text[i] \in Blanks
  <2> TAKE i \in 1 .. k
  <2>1. i \in 1 .. Len(file) - c /\ c + i \in s + 3 .. e
    BY <1>1, <1>5, <1>7
  <2> QED BY <1>6, <2>1
<1>9. text[k] = Newline
  <2>1. c + k = e
    BY <1>1, <1>5, <1>7
  <2> QED BY <1>6, <2>1
<1>10. k \in 1 .. Lead(text, Blanks)
  <2> DEFINE l == Lead(text, Blanks)
  <2>1. l \in 0 .. Len(text) /\ (l < Len(text) => text[l + 1] \notin Blanks)
    BY <1>6, LeadFacts
  <2> HIDE DEF l
  <2>2. ASSUME l < k PROVE FALSE
    <3>1. l < Len(text) /\ l + 1 \in 1 .. k
      BY <1>1, <1>5, <1>6, <1>7, <2>1, <2>2
    <3> QED BY <1>8, <2>1, <3>1
  <2>3. l \in Nat /\ k \in Nat /\ k >= 1
    BY <1>1, <1>6, <1>7, <2>1
  <2> QED BY <2>2, <2>3 DEF l
<1> HIDE DEF text
<1>11. s + 2 = c
  BY <1>5
<1> QED BY <1>9, <1>10, <1>11 DEF EmptyComment, text

\* The `//` matched in the block is in the file; a newline consumed with it makes
\* the comment an empty one.
LEMMA MatchCommentKeeps ==
  ASSUME SInv, MatchComment
  PROVE  /\ SInv' /\ inside_comment' = TRUE
         /\ \E s \in Consumed .. Len(file) :
              /\ \A k \in Consumed + 1 .. s : file[k] \in Blanks
              /\ CommentAt(From(file, s))
              /\ Consumed' \in s + 2 .. Len(file)
              /\ \A k \in s + 3 .. Consumed' : file[k] \in Blanks
<1>1. Typed /\ Window /\ Stage /\ OpenOnLine /\ Scanning /\ Here
      /\ (Appended => unread = <<>>)
  BY DEF SInv, Scanning, MatchComment, Stage
<1>2. /\ UNCHANGED <<file, unread, orig_len, tokens, room, status>>
      /\ CommentAt(Text) /\ Consume(2) /\ inside_comment' = TRUE
  BY DEF MatchComment
<1>3. Text \in Seq(Chars) /\ Len(Text) \in Nat
  BY <1>1, TextFacts
<1>4. 2 \in 1 .. Len(Text) /\ Text[1] = Slash /\ Text[2] = Slash
  BY <1>2, <1>3, CommentMeans
<1>5. \A i \in 1 .. 2 : Text[i] \notin Blanks
  <2>1. 1 .. 2 = {1, 2}
    OBVIOUS
  <2> QED BY <1>4, <2>1, Alphabet
<1>6. PICK s : s = Raw + Next_ws
  OBVIOUS
<1>7. /\ Consumed = Raw /\ s \in Consumed .. Len(file)
      /\ \A k \in Consumed + 1 .. s : file[k] \in Blanks
      /\ Shows(Text, From(file, s)) /\ s + 2 <= Len(file)
      /\ Consumed' \in s + 2 .. Len(file)
      /\ \A k \in s + 2 + 1 .. Consumed' : file[k] \in Blanks
      /\ \E k \in 0 .. Len(rest) : rest' = From(rest, k)
      /\ Here'
  BY <1>1, <1>2, <1>4, <1>5, <1>6, MatchMeans
<1>8. s \in 0 .. Len(file) /\ s + 2 + 1 = s + 3 /\ file \in Seq(Chars)
  BY <1>1, <1>7, Lengths DEF Typed, Window
<1>9. CommentAt(From(file, s))
  <2>1. From(file, s) \in Seq(Chars)
    BY <1>8, FromFacts
  <2> QED BY <1>2, <1>3, <1>7, <2>1, PrefixKept, Alphabet DEF CommentAt
<1>10. PICK e \in s + 2 .. Len(file) : e = Consumed'
  BY <1>7
<1>11. OpenOnLine'
  <2>1. ASSUME file[e] = Newline PROVE EmptyComment
    BY <1>7, <1>8, <1>9, <1>10, <2>1, NewlineAfterComment
  <2> QED BY <1>2, <1>10, <2>1 DEF OpenOnLine, EmptyComment
<1>12. SInv'
  <2>1. Window' /\ Stage' /\ rest' \in Seq(Chars) /\ Len(rest') <= BlockSize
    BY <1>1, <1>2, <1>7, BlockGoesOn DEF SInv, Scanning
  <2>2. Typed'
    BY <1>1, <1>2, <2>1 DEF Typed
  <2> QED BY <1>11, <2>1, <2>2 DEF SInv
<1> QED BY <1>2, <1>7, <1>8, <1>9, <1>12

\* What the block rejects the file has at that place, and the file rejects it.
LEMMA RejectKeeps ==
  ASSUME SInv, NoMatch, NEW j \in DOMAIN Text, Text[j] \in Blanks,
         status' = "error",
         UNCHANGED <<file, unread, rest, orig_len, tokens, room, inside_comment>>
  PROVE  /\ SInv' /\ Consumed' = Consumed
         /\ \E s \in Consumed .. Len(file) - 1 :
              /\ \A k \in Consumed + 1 .. s : file[k] \in Blanks
              /\ LexemeAt(From(file, s), TRUE) = {} /\ ~CommentAt(From(file, s))
<1>1. Typed /\ Window /\ Stage /\ OpenOnLine /\ (Appended => unread = <<>>)
  BY DEF SInv, Stage
<1>2. Appended' = Appended /\ Whole' = Whole /\ Raw' = Raw /\ Consumed' = Consumed
  BY DEF Appended, Whole, Raw, Consumed
<1>3. SInv'
  <2>1. Typed' /\ Window'
    BY <1>1, <1>2 DEF Typed, Window
  <2>2. Stage'
    BY <1>1, <1>2 DEF Stage
  <2>3. OpenOnLine'
    BY <1>1, <1>2 DEF OpenOnLine, EmptyComment
  <2> QED BY <2>1, <2>2, <2>3 DEF SInv
<1>4. PICK w \in 0 .. Len(rest) : w = Next_ws
  BY <1>1, TextFacts
<1>5. /\ Text \in Seq(Chars) /\ Text # <<>> /\ j \in 1 .. Len(Text) /\ Raw \in Nat
      /\ \A i \in 1 .. w : Whole[Raw + i] \in Blanks
      /\ Raw + w < Len(file) /\ Shows(Text, From(file, Raw + w))
  <2>1. Text \in Seq(Chars)
    BY <1>1, TextFacts
  <2>2. Text # <<>> /\ j \in 1 .. Len(Text)
    BY <2>1
  <2> QED BY <1>1, <1>4, <2>1, <2>2, TextFacts
<1>6. file \in Seq(Chars) /\ Len(file) \in Nat /\ Len(rest) \in Nat
  BY <1>1, Lengths DEF Typed
<1>7. Consumed = Raw
  BY <1>1, <1>4, <1>5, <1>6, ConsumedIs DEF Least
<1>8. PICK s \in Nat : s = Raw + w /\ s \in 0 .. Len(file) /\ s \in Consumed .. Len(file) - 1
  BY <1>4, <1>5, <1>6, <1>7
<1>9. \A k \in Consumed + 1 .. s : file[k] \in Blanks
  <2> TAKE k \in Consumed + 1 .. s
  <2>1. k - Raw \in 1 .. w /\ Raw + (k - Raw) = k /\ k \in 1 .. Len(file)
    BY <1>4, <1>5, <1>6, <1>7, <1>8
  <2> QED BY <1>1, <1>5, <2>1, WholeFacts
<1>10. LexemeAt(From(file, s), TRUE) = {} /\ ~CommentAt(From(file, s))
  <2>1. From(file, s) \in Seq(Chars) /\ Shows(Text, From(file, s))
    BY <1>5, <1>6, <1>8, FromFacts
  <2>2. LexemeAt(From(file, s), TRUE) = LexemeAt(Text, FALSE)
    BY <1>5, <2>1, SameLexemes
  <2>3. CommentAt(From(file, s)) => CommentAt(Text)
    BY <1>5, <2>1, PrefixKept, Alphabet DEF CommentAt
  <2> QED BY <2>2, <2>3 DEF NoMatch
<1> QED BY <1>2, <1>3, <1>8, <1>9, <1>10

\* What is left for the next block follows blanks; after the last block it is
\* nothing, because that ends with a newline.
LEMMA LeaveKeeps ==
  ASSUME SInv, NoMatch, \A i \in DOMAIN Text : Text[i] \notin Blanks, LeaveBlock(Text)
  PROVE  /\ SInv' /\ Consumed' \in Consumed .. Len(file)
         /\ \A k \in Consumed + 1 .. Consumed' : file[k] \in Blanks
         /\ status' \in {"abort", "read", "ok"}
         /\ status' = "ok" => Consumed' = Len(file)
<1>1. /\ Typed /\ Window /\ Stage /\ OpenOnLine /\ (Appended => unread = <<>>)
      /\ Here /\ status = "scan" /\ rest # <<>> /\ inside_comment = FALSE
  BY DEF SInv, Stage, NoMatch, Scanning, Typed
<1>2. /\ rest' = Text /\ UNCHANGED <<file, unread, orig_len, tokens, room, inside_comment>>
      /\ status' \in {"abort", "read", "ok"}
      /\ status' = "read" => orig_len = BlockSize
      /\ status' = "ok" => orig_len # BlockSize
  BY DEF LeaveBlock
<1>3. PICK w \in 0 .. Len(rest) : w = Next_ws
  BY <1>1, TextFacts
<1>4. /\ rest' = From(rest, w) /\ Raw \in Nat /\ Len(file) \in Nat /\ Len(rest) \in Nat
      /\ \A i \in 1 .. w : Whole[Raw + i] \in Blanks
  BY <1>1, <1>2, <1>3, Lengths, TextFacts DEF Text, Typed
<1>5. /\ Appended' = Appended /\ Whole' = Whole /\ Raw' = Raw + w /\ Window'
      /\ rest' \in Seq(Chars) /\ Len(rest') = Len(rest) - w
      /\ rest' # <<>> => Last(rest') = Last(rest)
      /\ Consumed' = Least(Len(file), Raw + w)
  BY <1>1, <1>2, <1>4, BlockShrinks
<1>6. Here'
  <2>1. cur' = Move(cur, rest, w)
    BY <1>3 DEF NoMatch, Pos
  <2>2. cur' = Move(Start, Whole, Raw + w)
    BY <1>1, <2>1, MoveInBlock DEF Here
  <2> QED BY <1>5, <2>2 DEF Here
<1>7. status' = "ok" => unread' = <<>> /\ rest' = <<>>
  <2> SUFFICES ASSUME status' = "ok" PROVE unread' = <<>> /\ rest' = <<>>
    OBVIOUS
  <2>1. orig_len < BlockSize
    BY <1>1, <1>2, Lengths DEF Typed
  <2>2. unread = <<>> /\ Last(rest) = Newline
    BY <1>1, <2>1 DEF Stage
  <2>3. ASSUME rest' # <<>> PROVE FALSE
    <3>1. Len(rest') \in DOMAIN rest'
      BY <1>5, <2>3
    <3>2. rest'[Len(rest')] \notin Blanks
      BY <1>2, <3>1
    <3> QED BY <1>5, <2>2, <2>3, <3>2, Alphabet DEF Last
  <2> QED BY <1>2, <2>2, <2>3
<1>8. SInv'
  <2>1. Len(rest') <= BlockSize
    <3>1. Len(rest) <= BlockSize /\ BlockSize \in Nat
      BY <1>1, Lengths DEF Typed
    <3> QED BY <1>4, <1>5, <3>1
  <2>2. Typed'
    BY <1>1, <1>2, <1>5, <2>1 DEF Typed
  <2>3. Stage'
    BY <1>1, <1>2, <1>5, <1>6, <1>7 DEF Stage
  <2>4. OpenOnLine'
    BY <1>1, <1>2 DEF OpenOnLine
  <2> QED BY <1>5, <2>2, <2>3, <2>4 DEF SInv
<1>9. PICK r \in Nat : r = Raw
  BY <1>4
<1>10. Consumed = Least(Len(file), r) /\ Consumed' = Least(Len(file), r + w)
  BY <1>1, <1>5, <1>9, ConsumedIs
<1>11. /\ Consumed \in Nat /\ Consumed' \in Consumed .. Len(file)
       /\ Consumed' <= r + w /\ (Consumed = r \/ Consumed = Len(file))
       /\ (r + w >= Len(file) => Consumed' = Len(file))
  BY <1>3, <1>4, <1>10 DEF Least
<1>12. \A k \in Consumed + 1 .. Consumed' : file[k] \in Blanks
  <2>1. PICK a \in Nat : a = Consumed
    BY <1>11
  <2>2. PICK b \in a .. Len(file) : b = Consumed' /\ b <= r + w /\ (a = r \/ a = Len(file))
    BY <1>11, <2>1
  <2>3. ASSUME NEW k \in a + 1 .. b PROVE file[k] \in Blanks
    <3>1. k - r \in 1 .. w /\ r + (k - r) = k /\ k \in 1 .. Len(file)
      BY <1>4, <2>2
    <3> QED BY <1>1, <1>4, <1>9, <3>1, WholeFacts
  <2> QED BY <2>1, <2>2, <2>3
<1>13. ASSUME status' = "ok" PROVE Consumed' = Len(file)
  <2>1. Len(rest') = 0 /\ Len(unread) = 0
    BY <1>2, <1>7, <1>13
  <2>2. Len(Whole) = Raw + Len(rest) /\ Len(Whole) >= Len(file)
    BY <1>1, <1>4, <2>1, WholeFacts DEF Raw
  <2>3. r + w >= Len(file)
    BY <1>3, <1>4, <1>5, <1>9, <2>1, <2>2
  <2> QED BY <1>11, <2>3
<1> QED BY <1>2, <1>8, <1>11, <1>12, <1>13

\* The two ways on when nothing matches.
LEMMA NoMatchCases ==
  ASSUME NoMatch
  PROVE  \/ /\ \E j \in DOMAIN Text : Text[j] \in Blanks
            /\ status' = "error"
            /\ UNCHANGED <<file, unread, rest, orig_len, tokens, room, inside_comment>>
         \/ (\A i \in DOMAIN Text : Text[i] \notin Blanks) /\ LeaveBlock(Text)
  BY DEF NoMatch

\* The invariant is inductive.
LEMMA Preserved == SInv /\ [Next]_vars => SInv'
<1> SUFFICES ASSUME SInv, [Next]_vars PROVE SInv'
  OBVIOUS
<1>1. CASE StartFile
  BY <1>1, StartFileKeeps
<1>2. CASE ReadBlock
  BY <1>2, ReadBlockKeeps
<1>3. CASE ReadFails
  BY <1>3, ReadFailsKeeps
<1>4. CASE EndOfBlock
  BY <1>4, EndOfBlockKeeps
<1>5. CASE SkipComment
  BY <1>5, SkipCommentKeeps
<1>6. CASE MatchToken
  BY <1>6, MatchTokenKeeps
<1>7. CASE MatchComment
  BY <1>7, MatchCommentKeeps
<1>8. CASE NoMatch
  BY <1>8, NoMatchCases, RejectKeeps, LeaveKeeps
<1>9. CASE FinishFile
  BY <1>9, FinishFileKeeps
<1>10. CASE UNCHANGED vars
  BY <1>10 DEF vars, SInv, Typed, Window, Stage, OpenOnLine, Here, Raw, Whole,
               Appended, Consumed, EmptyComment
<1> QED BY <1>1, <1>2, <1>3, <1>4, <1>5, <1>6, <1>7, <1>8, <1>9, <1>10
        DEF Next, ScanFile

LEMMA Started == Init => SInv
  BY NoFile DEF Init

\* Between any two steps of `scan` and `scan_blk` the block shows the part of the
\* file that is due, and the position is that of its first character.
THEOREM ScanInvariant == Spec => []SInv
  BY Started, Preserved, PTL DEF Spec

\* Neither the block buffer nor the token array is ever overrun, whatever the file:
\* `scan` reads no more than fits after what it kept, and its newline fits too.
THEOREM ScanTypeCorrect == Spec => []TypeOK
<1>1. SInv => TypeOK
  <2> SUFFICES ASSUME SInv PROVE TypeOK
    OBVIOUS
  <2>1. Typed /\ Window
    BY DEF SInv
  <2>2. Len(file) - Len(unread) \in 0 .. Len(file)
    BY <2>1, Lengths DEF Window
  <2> QED BY <2>1, <2>2 DEF TypeOK, Typed, Window
<1> QED BY <1>1, ScanInvariant, PTL

\* A file that ends with a newline and has no empty comment leaves no comment open
\* for the next file, wherever its blocks end: `inside_comment` is cleared at the
\* newline by the block that holds it.
THEOREM CommentsEndWithLines == Spec => []CommentsEnd
<1>1. SInv => CommentsEnd
  <2> SUFFICES ASSUME SInv, status = "ok", file # <<>>, Last(file) = Newline, ~EmptyComment
               PROVE  ~inside_comment
    BY DEF CommentsEnd
  <2>1. Typed /\ OpenOnLine /\ Len(unread) = 0 /\ Len(rest) = 0
    BY DEF SInv, Stage
  <2>2. file \in Seq(Chars) /\ Len(file) \in Nat \ {0}
    BY <2>1 DEF Typed
  <2>3. Raw >= Len(file) /\ Raw \in Nat
    BY <2>1, <2>2, WholeFacts DEF Raw
  <2>4. Consumed = Len(file)
    BY <2>1, <2>2, <2>3, ConsumedIs DEF Least
  <2> QED BY <2>1, <2>2, <2>4 DEF OpenOnLine, Last
<1> QED BY <1>1, ScanInvariant, PTL
-----------------------------------------------------------------------------
(* The scanner implements TextScan. *)

\* The operators of the two modules are the same.
LEMMA SameOperators ==
  /\ \A text, n : TextScan!From(text, n) = From(text, n)
  /\ \A pos, text, n : TextScan!Move(pos, text, n) = Move(pos, text, n)
  /\ \A text, ends : TextScan!LexemeAt(text, ends) = LexemeAt(text, ends)
  /\ \A text : TextScan!CommentAt(text) <=> CommentAt(text)
  /\ \A lexeme, pos : TextScan!Token(lexeme, pos) = Token(lexeme, pos)
  /\ TextScan!Start = Start
<1>1. ASSUME NEW S, NEW T
      PROVE  /\ TextScan!IsPrefix(S, T) = IsPrefix(S, T) /\ TextScan!Max(S) = Max(S)
  BY DEF TextScan!IsPrefix, IsPrefix, TextScan!Max, Max
<1>2. ASSUME NEW S PROVE TextScan!Cardinality(S) = Cardinality(S)
  BY DEF TextScan!Cardinality, Cardinality
<1>3. ASSUME NEW text, NEW n PROVE TextScan!From(text, n) = From(text, n)
  BY DEF TextScan!From, From
<1>4. ASSUME NEW pos, NEW text, NEW n
      PROVE  TextScan!Move(pos, text, n) = Move(pos, text, n)
  BY <1>1, <1>2 DEF TextScan!Move, Move
<1>5. ASSUME NEW text, NEW S PROVE TextScan!Lead(text, S) = Lead(text, S)
  BY DEF TextScan!Lead, Lead
<1>6. ASSUME NEW a, NEW b PROVE TextScan!Least(a, b) = Least(a, b)
  BY DEF TextScan!Least, Least
<1>7. ASSUME NEW text, NEW n, NEW ends
      PROVE  TextScan!Delimited(text, n, ends) = Delimited(text, n, ends)
  BY DEF TextScan!Delimited, Delimited
<1>8. ASSUME NEW digits PROVE TextScan!Value(digits) = Value(digits)
  BY DEF TextScan!Value, Value, TextScan!Least, Least
<1>9. ASSUME NEW n, NEW t, NEW val PROVE TextScan!Lexeme(n, t, val) = Lexeme(n, t, val)
  BY DEF TextScan!Lexeme, Lexeme
<1>10. ASSUME NEW text PROVE TextScan!KeywordAt(text) = KeywordAt(text)
  BY DEF TextScan!KeywordAt, KeywordAt, TextScan!Lexeme, Lexeme,
         TextScan!IsPrefix, IsPrefix
<1>11. ASSUME NEW text, NEW ends
       PROVE  TextScan!UintAt(text, ends) = UintAt(text, ends)
  BY <1>5, <1>6, <1>7, <1>8, <1>9 DEF TextScan!UintAt, UintAt
<1>12. ASSUME NEW text, NEW ends
       PROVE  TextScan!IdentAt(text, ends) = IdentAt(text, ends)
  BY <1>5, <1>6, <1>7, <1>9 DEF TextScan!IdentAt, IdentAt
<1>13. ASSUME NEW text, NEW ends
       PROVE  TextScan!LexemeAt(text, ends) = LexemeAt(text, ends)
  BY <1>10, <1>11, <1>12 DEF TextScan!LexemeAt, LexemeAt
<1>14. ASSUME NEW text PROVE TextScan!CommentAt(text) <=> CommentAt(text)
  BY DEF TextScan!CommentAt, CommentAt, TextScan!IsPrefix, IsPrefix
<1>15. ASSUME NEW lexeme, NEW pos PROVE TextScan!Token(lexeme, pos) = Token(lexeme, pos)
  BY DEF TextScan!Token, Token
<1>16. TextScan!Start = Start
  BY DEF TextScan!Start, Start
<1> QED BY <1>3, <1>4, <1>13, <1>14, <1>15, <1>16

\* Step by step: the entry of `scan`, and the end of a file.
LEMMA SimulateStart == ASSUME SInv, StartFile PROVE TextScan!AStart
<1>1. Consumed' = Consumed
  BY StartFileKeeps
<1> QED BY <1>1 DEF StartFile, TextScan!AStart, Returned

LEMMA SimulateNextFile == ASSUME SInv, FinishFile PROVE TextScan!ANextFile
<1>1. Consumed' = 0
  BY FinishFileKeeps
<1> QED BY <1>1 DEF FinishFile, TextScan!ANextFile, Returned

\* Reading a block does nothing to the text.
LEMMA SimulateRead == ASSUME SInv, ReadBlock PROVE UNCHANGED TextScan!avars
<1>1. Consumed' = Consumed
  BY ReadBlockKeeps
<1> QED BY <1>1 DEF ReadBlock, TextScan!avars, Returned

\* A failed read is one of the text.
LEMMA SimulateFail == ASSUME SInv, ReadFails PROVE TextScan!AFail
<1>1. Consumed' = Consumed
  BY ReadFailsKeeps
<1> QED BY <1>1 DEF ReadFails, TextScan!AFail, Returned

\* The end of a block is nothing, that of the last one the end of the text.
LEMMA SimulateEndOfBlock ==
  ASSUME SInv, EndOfBlock PROVE TextScan!AFinish \/ UNCHANGED TextScan!avars
<1>1. /\ Consumed' = Consumed /\ status' \in {"read", "ok"} /\ status = "scan"
      /\ status' = "ok" => Consumed = Len(file)
      /\ UNCHANGED <<file, tokens, inside_comment>> /\ Len(file) \in Nat
  BY EndOfBlockKeeps, Lengths DEF EndOfBlock, LeaveBlock, SInv
<1>2. CASE status' = "ok"
  BY <1>1, <1>2 DEF TextScan!AFinish, TextScan!Blank, Returned
<1>3. CASE status' = "read"
  BY <1>1, <1>3 DEF TextScan!avars, Returned
<1> QED BY <1>1, <1>2, <1>3

\* A character of a comment.
LEMMA SimulateSkip == ASSUME SInv, SkipComment PROVE TextScan!ASkip
<1>1. /\ \/ /\ Consumed < Len(file) /\ Consumed' = Consumed + 1
            /\ inside_comment' = (file[Consumed + 1] # Newline)
         \/ Consumed = Len(file) /\ Consumed' = Consumed /\ inside_comment' = FALSE
      /\ status = "scan" /\ inside_comment = TRUE
      /\ UNCHANGED <<file, tokens, status>>
  BY SkipCommentKeeps DEF SkipComment, Scanning, SInv, Typed
<1> QED BY <1>1 DEF TextScan!ASkip, Returned

\* The token found in the block is the one the whole text has there, in its place.
LEMMA SimulateToken == ASSUME SInv, MatchToken PROVE TextScan!AToken
<1>1. /\ status = "scan" /\ ~inside_comment
      /\ UNCHANGED <<file, inside_comment, status>>
  BY DEF MatchToken, Scanning
<1>2. PICK s \in Consumed .. Len(file) :
        /\ \A k \in Consumed + 1 .. s : file[k] \in Blanks
        /\ \E lexeme \in LexemeAt(From(file, s), TRUE) :
             /\ tokens' = Append(tokens, Token(lexeme, Move(Start, file, s)))
             /\ lexeme.length \in Nat
             /\ Consumed' \in s + lexeme.length .. Len(file)
             /\ \A k \in s + lexeme.length + 1 .. Consumed' : file[k] \in Blanks
  BY MatchTokenKeeps
<1>3. PICK lexeme \in LexemeAt(From(file, s), TRUE) :
        /\ tokens' = Append(tokens, Token(lexeme, Move(Start, file, s)))
        /\ lexeme.length \in Nat
        /\ Consumed' \in s + lexeme.length .. Len(file)
        /\ \A k \in s + lexeme.length + 1 .. Consumed' : file[k] \in Blanks
  BY <1>2
<1>4. TextScan!Blank(Consumed, s)
  BY <1>2 DEF TextScan!Blank
<1>5. lexeme \in TextScan!LexemeAt(TextScan!From(file, s), TRUE)
  BY <1>3, SameOperators
<1>6. tokens' = Append(tokens, TextScan!Token(lexeme, TextScan!Place(s)))
  BY <1>3, SameOperators DEF TextScan!Place
<1>7. PICK e : e = Consumed'
  OBVIOUS
<1>8. e \in s + lexeme.length .. Len(file) /\ TextScan!Blank(s + lexeme.length, e)
  BY <1>3, <1>7 DEF TextScan!Blank
<1> QED BY <1>1, <1>4, <1>5, <1>6, <1>7, <1>8 DEF TextScan!AToken, Returned

\* The start of a comment.
LEMMA SimulateOpen == ASSUME SInv, MatchComment PROVE TextScan!AOpen
<1>1. /\ status = "scan" /\ ~inside_comment /\ inside_comment' = TRUE
      /\ UNCHANGED <<file, tokens, status>>
  BY DEF MatchComment, Scanning
<1>2. PICK s \in Consumed .. Len(file) :
        /\ \A k \in Consumed + 1 .. s : file[k] \in Blanks
        /\ CommentAt(From(file, s))
        /\ Consumed' \in s + 2 .. Len(file)
        /\ \A k \in s + 3 .. Consumed' : file[k] \in Blanks
  BY MatchCommentKeeps
<1>3. PICK e : e = Consumed'
  OBVIOUS
<1>4. TextScan!Blank(Consumed, s) /\ TextScan!CommentAt(TextScan!From(file, s))
  BY <1>2, SameOperators DEF TextScan!Blank
<1>5. e \in s + 2 .. Len(file) /\ TextScan!Blank(s + 2, e)
  <2>1. Consumed \in Nat
    <3>1. Raw \in Nat /\ Len(file) \in Nat
      BY Lengths DEF SInv, Window
    <3> QED BY <3>1, ConsumedIs, LeastFacts DEF SInv
  <2>2. s \in Nat /\ s + 2 + 1 = s + 3
    BY <1>2, <2>1
  <2> QED BY <1>2, <1>3, <2>2 DEF TextScan!Blank
<1> QED BY <1>1, <1>3, <1>4, <1>5 DEF TextScan!AOpen, Returned

\* When nothing matches: an error of the text, blanks before what is kept, the end
\* of the text, or nothing.
LEMMA SimulateNoMatch ==
  ASSUME SInv, NoMatch
  PROVE  \/ TextScan!AReject \/ TextScan!ABlanks \/ TextScan!AFinish
         \/ UNCHANGED TextScan!avars
<1>1. status = "scan" /\ inside_comment = FALSE
  BY DEF NoMatch, Scanning, SInv, Typed
<1>2. CASE /\ \E j \in DOMAIN Text : Text[j] \in Blanks
           /\ status' = "error"
           /\ UNCHANGED <<file, unread, rest, orig_len, tokens, room, inside_comment>>
  <2>1. PICK s \in Consumed .. Len(file) - 1 :
          /\ \A k \in Consumed + 1 .. s : file[k] \in Blanks
          /\ LexemeAt(From(file, s), TRUE) = {} /\ ~CommentAt(From(file, s))
    BY <1>2, RejectKeeps
  <2>2. Consumed' = Consumed
    BY <1>2, RejectKeeps
  <2>3. /\ TextScan!Blank(Consumed, s)
        /\ TextScan!LexemeAt(TextScan!From(file, s), TRUE) = {}
        /\ ~TextScan!CommentAt(TextScan!From(file, s))
    <3>1. TextScan!Blank(Consumed, s)
      BY <2>1 DEF TextScan!Blank
    <3>2. TextScan!From(file, s) = From(file, s)
      BY SameOperators
    <3>3. /\ TextScan!LexemeAt(From(file, s), TRUE) = LexemeAt(From(file, s), TRUE)
          /\ TextScan!CommentAt(From(file, s)) <=> CommentAt(From(file, s))
      BY SameOperators
    <3> QED BY <2>1, <3>1, <3>2, <3>3
  <2>4. TextScan!AReject
    BY <1>1, <1>2, <2>2, <2>3 DEF TextScan!AReject, Returned
  <2> QED BY <2>4
<1>3. CASE (\A i \in DOMAIN Text : Text[i] \notin Blanks) /\ LeaveBlock(Text)
  <2>1. /\ Consumed' \in Consumed .. Len(file)
        /\ \A k \in Consumed + 1 .. Consumed' : file[k] \in Blanks
        /\ status' \in {"abort", "read", "ok"}
        /\ status' = "ok" => Consumed' = Len(file)
    BY <1>3, LeaveKeeps
  <2>2. UNCHANGED <<file, tokens, inside_comment>>
    BY <1>3 DEF LeaveBlock
  <2>3. Consumed \in Nat /\ Len(file) \in Nat
    <3>1. Raw \in Nat /\ Len(file) \in Nat
      BY Lengths DEF SInv, Window
    <3> QED BY <3>1, ConsumedIs, LeastFacts DEF SInv
  <2>4. PICK e : e = Consumed'
    OBVIOUS
  <2>5. e \in Consumed .. Len(file) /\ TextScan!Blank(Consumed, e)
    BY <2>1, <2>4 DEF TextScan!Blank
  <2>6. CASE status' = "ok"
    <3>1. TextScan!AFinish
      BY <1>1, <2>1, <2>2, <2>4, <2>5, <2>6 DEF TextScan!AFinish, Returned
    <3> QED BY <3>1
  <2>7. CASE status' # "ok" /\ e = Consumed
    <3>1. UNCHANGED TextScan!avars
      BY <1>1, <2>1, <2>2, <2>4, <2>7 DEF TextScan!avars, Returned
    <3> QED BY <3>1
  <2>8. CASE status' # "ok" /\ e # Consumed
    <3>1. e \in Consumed + 1 .. Len(file)
      BY <2>3, <2>5, <2>8
    <3>2. TextScan!ABlanks
      BY <1>1, <2>1, <2>2, <2>4, <2>5, <2>8, <3>1 DEF TextScan!ABlanks, Returned
    <3> QED BY <3>2
  <2> QED BY <2>6, <2>7, <2>8
<1> QED BY <1>2, <1>3, NoMatchCases

\* The tokens found block by block, with their lines and columns, are those of the
\* text scanned as a whole, and what is rejected is what the whole text rejects:
\* where `scan` cuts the file into blocks makes no difference.
THEOREM ScanImplementsTextScan == Spec => ImplementsTextScan
<1>1. Init => TextScan!AInit
  <2>1. Init => Consumed = 0
    BY NoFile DEF Init
  <2> QED BY <2>1 DEF Init, TextScan!AInit, Returned
<1>2. SInv /\ [Next]_vars => [TextScan!ANext]_(TextScan!avars)
  <2> SUFFICES ASSUME SInv, [Next]_vars PROVE TextScan!ANext \/ UNCHANGED TextScan!avars
    OBVIOUS
  <2>1. CASE StartFile
    BY <2>1, SimulateStart DEF TextScan!ANext
  <2>2. CASE ReadBlock
    BY <2>2, SimulateRead
  <2>3. CASE ReadFails
    BY <2>3, SimulateFail DEF TextScan!ANext
  <2>4. CASE EndOfBlock
    BY <2>4, SimulateEndOfBlock DEF TextScan!ANext
  <2>5. CASE SkipComment
    BY <2>5, SimulateSkip DEF TextScan!ANext
  <2>6. CASE MatchToken
    BY <2>6, SimulateToken DEF TextScan!ANext
  <2>7. CASE MatchComment
    BY <2>7, SimulateOpen DEF TextScan!ANext
  <2>8. CASE NoMatch
    BY <2>8, SimulateNoMatch DEF TextScan!ANext
  <2>9. CASE FinishFile
    BY <2>9, SimulateNextFile DEF TextScan!ANext
  <2>10. CASE UNCHANGED vars
    BY <2>10 DEF vars, TextScan!avars, Returned, Consumed, Appended
  <2> QED BY <2>1, <2>2, <2>3, <2>4, <2>5, <2>6, <2>7, <2>8, <2>9, <2>10
          DEF Next, ScanFile
<1> QED BY <1>1, <1>2, ScanInvariant, PTL DEF Spec, ImplementsTextScan, TextScan!ASpec

-----------------------------------------------------------------------------
(* That a file of short words is scanned to its end: fairness is left to   *)
(* TLC (ShortRunsEnd), that no step stands still is proved.                *)

\* The turns of the loop of `scan` that are left before a block is the last one.
Phase ==
  IF status = "read" THEN 2
  ELSE IF status # "scan" THEN 0 ELSE IF orig_len = BlockSize THEN 3 ELSE 1

\* Less of the file is unread, or fewer phases are left, or less of the block.
Nearer ==
  \/ Len(unread') < Len(unread)
  \/ unread' = unread /\ Phase' < Phase
  \/ unread' = unread /\ Phase' = Phase /\ Len(rest') < Len(rest)

\* What is kept leaves at least half of the buffer to read into.
Kept ==
  ShortRuns =>
    status # "abort" /\ (status = "read" => 2 * Len(rest) <= BlockSize)

\* A text of the block without whitespace is a run of the file.
LEMMA TextIsShort ==
  ASSUME SInv, ShortRuns, \A i \in DOMAIN Text : Text[i] \notin Blanks
  PROVE  2 * Len(Text) <= BlockSize
<1>1. Typed /\ Window /\ (Appended => unread = <<>>)
  BY DEF SInv, Stage
<1>2. PICK w \in 0 .. Len(rest) : w = Next_ws
  BY <1>1, TextFacts
<1>3. PICK r \in Nat : r = Raw
  BY <1>1, TextFacts
<1>4. /\ Text \in Seq(Chars) /\ Len(Text) = Len(rest) - w
      /\ \A i \in 1 .. Len(Text) : Text[i] = Whole[r + w + i]
  BY <1>1, <1>2, <1>3, TextFacts
<1>5. /\ Len(rest) \in Nat /\ Len(unread) \in Nat /\ Len(file) \in Nat
      /\ BlockSize \in Nat
  BY <1>1, Lengths
<1>6. PICK n \in Nat : n = Len(Text)
  BY <1>2, <1>4, <1>5
<1>7. CASE n = 0
  BY <1>5, <1>6, <1>7
<1>8. CASE n > 0
  <2>1. \A i \in 1 .. n : Text[i] \notin Blanks /\ Whole[r + w + i] \notin Blanks
    BY <1>4, <1>6
  <2>2. r + w + n <= Len(Whole) /\ Len(Whole) \in Nat
    <3>1. Len(Whole) = r + Len(rest) + Len(unread)
      BY <1>1, <1>3, <1>5, WholeFacts DEF Raw
    <3> QED BY <1>2, <1>4, <1>5, <1>6, <3>1
  <2>3. r + w + n # Len(file) + 1 \/ ~Appended
    <3>1. Whole[r + w + n] \notin Blanks
      BY <1>6, <1>8, <2>1
    <3> QED BY <1>1, <3>1, WholeFacts, Alphabet
  <2>4. r + w + n <= Len(file)
    BY <1>1, <1>2, <1>5, <2>2, <2>3, WholeFacts
  <2>5. PICK a, b \in 1 .. Len(file) : a = r + w + 1 /\ b = r + w + n
    BY <1>2, <1>5, <1>8, <2>4
  <2>6. ASSUME NEW k \in a .. b PROVE file[k] \notin Blanks
    <3>1. k - (r + w) \in 1 .. n /\ r + w + (k - (r + w)) = k /\ k \in 1 .. Len(file)
      BY <1>2, <1>5, <2>5
    <3> QED BY <1>1, <2>1, <3>1, WholeFacts
  <2>7. 2 * (b - a + 1) <= BlockSize
    BY <2>5, <2>6 DEF ShortRuns
  <2> QED BY <1>2, <1>6, <2>5, <2>7
<1> QED BY <1>6, <1>7, <1>8

LEMMA KeptKept == ASSUME SInv, Kept, [Next]_vars PROVE Kept'
<1> SUFFICES ASSUME ShortRuns'
             PROVE  /\ status' # "abort"
                    /\ status' = "read" => 2 * Len(rest') <= BlockSize
  BY DEF Kept
<1>0. BlockSize \in Nat \ {0}
  BY Lengths DEF SInv
<1>1. CASE StartFile
  <2>1. rest = <<>>
    BY <1>1 DEF StartFile, SInv, Stage
  <2>2. Len(rest') = 0 /\ status' = "read"
    BY <1>1, <2>1 DEF StartFile
  <2> QED BY <1>0, <2>2
<1>2. CASE FinishFile
  BY <1>2 DEF FinishFile
<1>3. ASSUME file' = file PROVE ShortRuns
  BY <1>3 DEF ShortRuns
<1>4. CASE ReadBlock \/ ReadFails
  BY <1>4 DEF ReadBlock, ReadFails
<1>5. CASE EndOfBlock
  <2>1. status' \in {"read", "ok"} /\ Len(rest') = 0
    BY <1>5, EndOfBlockKeeps DEF EndOfBlock, LeaveBlock
  <2> QED BY <1>0, <2>1
<1>6. CASE SkipComment \/ MatchToken \/ MatchComment
  BY <1>6 DEF SkipComment, MatchToken, MatchComment, Scanning
<1>7. CASE NoMatch
  <2>1. CASE status' = "error"
    BY <2>1
  <2>2. CASE (\A i \in DOMAIN Text : Text[i] \notin Blanks) /\ LeaveBlock(Text)
    <3>1. rest' = Text /\ 2 * Len(Text) <= BlockSize
      BY <1>3, <2>2, TextIsShort DEF LeaveBlock
    <3>2. Len(Text) \in Nat
      BY <3>1, TextFacts DEF SInv, Stage
    <3>3. ~Overlaps(Len(Text))
      BY <1>0, <3>1, <3>2 DEF Overlaps
    <3> QED BY <2>2, <3>1, <3>3 DEF LeaveBlock
  <2> QED BY <1>7, <2>1, <2>2, NoMatchCases
<1>8. CASE UNCHANGED vars
  BY <1>3, <1>8 DEF vars, Kept
<1> QED BY <1>1, <1>2, <1>4, <1>5, <1>6, <1>7, <1>8 DEF Next, ScanFile

\* A match takes at least one character from the block.
LEMMA MatchShortens ==
  ASSUME SInv, Here, NEW n \in 1 .. Len(Text), \A i \in 1 .. n : Text[i] \notin Blanks,
         Consume(n), UNCHANGED <<file, unread, orig_len>>
  PROVE  Len(rest') < Len(rest)
<1>1. Typed /\ Window /\ (Appended => unread = <<>>)
  BY DEF SInv, Stage
<1>2. PICK s : s = Raw + Next_ws
  OBVIOUS
<1>3. /\ Consumed = Raw /\ s \in Consumed .. Len(file)
      /\ s + n <= Len(file) /\ Consumed' \in s + n .. Len(file)
      /\ \E k \in 0 .. Len(rest) : rest' = From(rest, k)
  BY <1>1, <1>2, MatchMeans
<1>4. PICK k \in 0 .. Len(rest) : rest' = From(rest, k)
  BY <1>3
<1>5. Len(rest') = Len(rest) - k /\ Consumed' = Least(Len(file), Raw + k)
  BY <1>1, <1>4, BlockShrinks
<1>6. /\ Raw \in Nat /\ Len(rest) \in Nat /\ Len(file) \in Nat /\ Len(Text) \in Nat
  BY <1>1, Lengths, TextFacts
<1>7. k # 0
  <2> SUFFICES ASSUME k = 0 PROVE FALSE
    OBVIOUS
  <2>1. Consumed' <= Raw
    BY <1>3, <1>5, <1>6 DEF Least
  <2>2. s \in Nat /\ s >= Raw /\ Consumed' >= s + n /\ n \in Nat /\ n >= 1
    BY <1>3, <1>6
  <2> QED BY <1>3, <1>6, <2>1, <2>2
<1> QED BY <1>4, <1>5, <1>6, <1>7

LEMMA StepsAreNearer == ASSUME SInv, Kept, ShortRuns, ScanFile PROVE Nearer
<1>1. /\ Typed /\ Window /\ Stage
      /\ Len(unread) \in Nat /\ Len(rest) \in Nat
      /\ BlockSize \in Nat \ {0} /\ orig_len \in 0 .. BlockSize
  BY Lengths DEF SInv, Typed
<1>2. CASE ReadBlock
  <2>1. status = "read" /\ 2 * Len(rest) <= BlockSize
    BY <1>2 DEF ReadBlock, Kept
  <2> DEFINE n == Least(BlockSize - Len(rest), Len(unread))
             block == rest \o SubSeq(unread, 1, n)
  <2>2. unread' = From(unread, n) /\ orig_len' = Len(block) /\ status' = "scan"
    BY <1>2 DEF ReadBlock
  <2>3. n \in 0 .. Len(unread) /\ (n = 0 => Len(unread) = 0)
    BY <1>1, <2>1 DEF Least
  <2> HIDE DEF n, block
  <2>4. Len(unread') = Len(unread) - n
    BY <1>1, <2>2, <2>3, FromFacts DEF Typed
  <2>5. CASE n = 0
    <3>1. SubSeq(unread, 1, n) = <<>> /\ block = rest
      BY <1>1, <2>5 DEF Typed, block
    <3>2. unread = <<>> /\ unread' = <<>>
      <4>1. unread \in Seq(Chars) /\ unread' \in Seq(Chars)
        BY <1>1, <2>2, <2>3, FromFacts DEF Typed
      <4>2. Len(unread) = 0 /\ Len(unread') = 0
        BY <2>3, <2>4, <2>5
      <4> QED BY ONLY <4>1, <4>2
    <3>3. orig_len' # BlockSize
      <4>1. orig_len' = Len(rest)
        BY <2>2, <3>1
      <4> QED BY <1>1, <2>1, <4>1
    <3>4. Phase = 2 /\ Phase' = 1
      BY <2>1, <2>2, <3>3 DEF Phase
    <3> QED BY <3>2, <3>4 DEF Nearer
  <2>6. CASE n # 0
    BY <1>1, <2>3, <2>4, <2>6 DEF Nearer
  <2> QED BY <2>5, <2>6
<1>3. CASE ReadFails
  BY <1>3 DEF ReadFails, Nearer, Phase
<1>4. ASSUME NEW text, LeaveBlock(text), status = "scan" PROVE Nearer
  <2>1. unread' = unread /\ status' \in {"abort", "read", "ok"}
        /\ (status' = "read" => orig_len = BlockSize)
    BY <1>4 DEF LeaveBlock
  <2> QED BY <1>4, <2>1 DEF Nearer, Phase
<1>5. CASE EndOfBlock
  BY <1>4, <1>5 DEF EndOfBlock
<1>6. ASSUME Scanning, Len(rest') < Len(rest), UNCHANGED <<unread, orig_len, status>>
      PROVE  Nearer
  BY <1>6 DEF Nearer, Phase
<1>7. CASE SkipComment
  <2>1. Len(rest') = Len(rest) - 1
    BY <1>1, <1>7 DEF SkipComment, Scanning, Typed
  <2> QED BY <1>1, <1>6, <1>7, <2>1 DEF SkipComment
<1>8. CASE MatchToken
  <2>1. PICK lexeme \in LexemeAt(Text, FALSE) : Consume(lexeme.length)
    BY <1>8 DEF MatchToken
  <2>2. Text \in Seq(Chars)
    BY <1>1, TextFacts DEF Stage
  <2>3. /\ lexeme.length \in 1 .. Len(Text)
        /\ \A i \in 1 .. lexeme.length : Text[i] \notin Blanks
    BY <2>1, <2>2, LexemeShape
  <2>4. Len(rest') < Len(rest)
    BY <1>1, <1>8, <2>1, <2>3, MatchShortens DEF MatchToken, Scanning, Stage
  <2> QED BY <1>6, <1>8, <2>4 DEF MatchToken
<1>9. CASE MatchComment
  <2>0. Text \in Seq(Chars) /\ Len(Text) \in Nat
    BY <1>1, TextFacts DEF Stage
  <2>1. 2 \in 1 .. Len(Text) /\ \A i \in 1 .. 2 : Text[i] \notin Blanks
    <3>1. Len(Text) >= 2 /\ Text[1] = Slash /\ Text[2] = Slash
      BY <1>9, <2>0, CommentMeans DEF MatchComment
    <3> QED BY <2>0, <3>1, Alphabet
  <2>2. Len(rest') < Len(rest)
    BY <1>1, <1>9, <2>1, MatchShortens DEF MatchComment, Scanning, Stage
  <2> QED BY <1>6, <1>9, <2>2 DEF MatchComment
<1>10. CASE NoMatch
  <2>1. status = "scan"
    BY <1>10 DEF NoMatch, Scanning
  <2>2. CASE status' = "error" /\ UNCHANGED unread
    BY <2>1, <2>2 DEF Nearer, Phase
  <2> QED BY <1>4, <1>10, <2>1, <2>2, NoMatchCases
<1> QED BY <1>2, <1>3, <1>5, <1>7, <1>8, <1>9, <1>10 DEF ScanFile

\* A file in which nothing between whitespace is longer than half a block is never
\* the one at whose `memcpy` AddressSanitizer stops: what is kept is such a run.
THEOREM ShortRunsNeverAbort == Spec => [](ShortRuns => status # "abort")
<1>1. Init => Kept
  BY DEF Init, Kept
<1>2. SInv /\ Kept /\ [Next]_vars => Kept'
  BY KeptKept
<1>3. Kept => (ShortRuns => status # "abort")
  BY DEF Kept
<1> QED BY <1>1, <1>2, <1>3, ScanInvariant, PTL DEF Spec

\* Of such a file every step of `scan` and `scan_blk` leaves less to do: a block is
\* never read into a full buffer, and never left as it was found, to be read again.
THEOREM ShortRunsAdvance == Spec => [][ShortRuns /\ ScanFile => Nearer]_vars
<1>1. Init => Kept
  BY DEF Init, Kept
<1>2. SInv /\ Kept /\ [Next]_vars => Kept'
  BY KeptKept
<1>3. SInv /\ Kept => (ShortRuns /\ ScanFile => Nearer)
  BY StepsAreNearer
<1> QED BY <1>1, <1>2, <1>3, ScanInvariant, PTL DEF Spec
=============================================================================
