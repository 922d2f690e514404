--------------------------- MODULE FrameSimulation ---------------------------
(***************************************************************************)
(* Every step of the machine is a step of CallFrames, for every program    *)
(* and every input: the activations read off the one shared stack behave   *)
(* as if each had a stack of its own.                                      *)
(***************************************************************************)
EXTENDS FrameProofs

-----------------------------------------------------------------------------
(* Sequences that grow and shrink at their end. *)

\* `Append`, as a function.
LEMMA AppendFacts ==
  ASSUME NEW S, NEW w \in Seq(S), NEW x \in S, NEW s, s = Append(w, x)
  PROVE  /\ s \in Seq(S) /\ Len(w) \in Nat /\ Len(s) = Len(w) + 1 /\ s # <<>>
         /\ \A i \in 1 .. Len(w) : s[i] = w[i]
         /\ s[Len(w) + 1] = x
         /\ s = [i \in 1 .. Len(w) + 1 |-> IF i = Len(w) + 1 THEN x ELSE w[i]]
<1>1. /\ s \in Seq(S) /\ Len(w) \in Nat /\ Len(s) = Len(w) + 1
      /\ \A i \in 1 .. Len(w) : s[i] = w[i]
      /\ s[Len(w) + 1] = x
  OBVIOUS
<1>2. s = [i \in 1 .. Len(s) |-> s[i]]
  BY <1>1, LenProperties
<1>3. \A i \in 1 .. Len(w) + 1 : i = Len(w) + 1 \/ i \in 1 .. Len(w)
  BY <1>1
<1>4. \A i \in 1 .. Len(w) + 1 : s[i] = IF i = Len(w) + 1 THEN x ELSE w[i]
  BY <1>1, <1>3, Zenon
<1>5. s # <<>>
  BY <1>1, EmptySeq
<1> QED BY <1>1, <1>2, <1>4, <1>5

\* `Append` as a concatenation.
LEMMA AppendedLast ==
  ASSUME NEW S, NEW w \in Seq(S), NEW x \in S
  PROVE  Append(w, x) = w \o <<x>>
  OBVIOUS
LEMMA Front ==
  ASSUME NEW S, NEW w \in Seq(S), NEW t \in Seq(S), Len(w) <= Len(t),
         \A i \in 1 .. Len(w) : t[i] = w[i]
  PROVE  SubSeq(t, 1, Len(w)) = w
<1>a. PICK n : n = Len(w)
  OBVIOUS
<1>1. n \in Nat /\ 1 \in Int /\ n \in Int
  BY <1>a
<1>2. \A i \in 1 .. n : t[i] \in S
  BY <1>a
<1>3. PICK u : u = SubSeq(t, 1, n)
  OBVIOUS
<1>4. /\ u \in Seq(S)
      /\ Len(u) = IF 1 <= n THEN n - 1 + 1 ELSE 0
      /\ \A i \in 1 .. n - 1 + 1 : u[i] = t[1 + i - 1]
  BY <1>1, <1>2, <1>3, SubSeqProperties
<1>5. Len(u) = n
  BY <1>1, <1>4
<1>6. \A i \in 1 .. n : u[i] = t[i]
  <2>1. \A i \in 1 .. n : i \in 1 .. n - 1 + 1 /\ 1 + i - 1 = i
    BY <1>1
  <2> QED BY <1>4, <2>1
<1>7. \A i \in 1 .. Len(u) : u[i] = w[i]
  BY <1>5, <1>6, <1>a
<1> QED BY <1>3, <1>4, <1>5, <1>7, <1>a, SeqEqual

\* The last of a sequence replaced.
LEMMA LastReplaced ==
  ASSUME NEW S, NEW w \in Seq(S), NEW x \in S, NEW y \in S,
         NEW s, s = Append(w, x), NEW t, t = Append(w, y)
  PROVE  /\ Len(s) = Len(w) + 1 /\ Len(t) = Len(s)
         /\ s[Len(s)] = x /\ t[Len(s)] = y
         /\ SubSeq(s, 1, Len(s) - 1) = w /\ SubSeq(t, 1, Len(s) - 1) = w
<1>1. /\ s \in Seq(S) /\ Len(w) \in Nat /\ Len(s) = Len(w) + 1
      /\ \A i \in 1 .. Len(w) : s[i] = w[i]
      /\ s[Len(w) + 1] = x
  BY AppendFacts
<1>2. /\ t \in Seq(S) /\ Len(t) = Len(w) + 1
      /\ \A i \in 1 .. Len(w) : t[i] = w[i]
      /\ t[Len(w) + 1] = y
  BY AppendFacts
<1>3. SubSeq(s, 1, Len(w)) = w /\ SubSeq(t, 1, Len(w)) = w
  BY <1>1, <1>2, Front
<1>4. Len(s) - 1 = Len(w)
  BY <1>1
<1> QED BY <1>1, <1>2, <1>3, <1>4

\* The last of a sequence replaced by two, and the other way round.
LEMMA TwoLast ==
  ASSUME NEW S, NEW w \in Seq(S), NEW x \in S, NEW y \in S,
         NEW s, s = Append(Append(w, x), y)
  PROVE  /\ Len(s) = Len(w) + 2
         /\ s[Len(s)] = y /\ s[Len(s) - 1] = x
         /\ SubSeq(s, 1, Len(s) - 2) = w
         /\ s = w \o <<x, y>>
<1>a. PICK u : u = Append(w, x)
  OBVIOUS
<1>b. PICK n : n = Len(w)
  OBVIOUS
<1>1. /\ u \in Seq(S) /\ n \in Nat /\ Len(u) = n + 1
      /\ \A i \in 1 .. n : u[i] = w[i]
      /\ u[n + 1] = x
  BY <1>a, <1>b, AppendFacts
<1>2. /\ s \in Seq(S) /\ Len(s) = Len(u) + 1
      /\ \A i \in 1 .. Len(u) : s[i] = u[i]
      /\ s[Len(u) + 1] = y
  BY <1>1, <1>a, AppendFacts
<1>3. /\ Len(s) = n + 2 /\ n + 1 \in 1 .. Len(u)
      /\ Len(u) + 1 = n + 2 /\ n + 2 - 1 = n + 1 /\ n + 2 - 2 = n
      /\ \A i \in 1 .. n : i \in 1 .. Len(u)
  BY <1>1, <1>2
<1>4. /\ \A i \in 1 .. n : s[i] = w[i]
      /\ s[n + 1] = x /\ s[n + 2] = y
  BY <1>1, <1>2, <1>3
<1>5. SubSeq(s, 1, n) = w
  BY <1>1, <1>2, <1>3, <1>4, <1>b, Front
<1>6. s = w \o <<x, y>>
  <2>a. PICK p, q : p = <<x>> /\ q = <<y>>
    OBVIOUS
  <2>1. p \in Seq(S) /\ q \in Seq(S)
    BY <2>a
  <2>2. u = w \o p /\ s = u \o q
    BY <1>1, <1>a, <2>a, AppendedLast
  <2>3. (w \o p) \o q = w \o (p \o q)
    BY <2>1, ConcatAssociative, SMTT(60)
  <2>4. p \o q = <<x, y>>
    <3>1. /\ p \o q \in Seq(S)
          /\ Len(p \o q) = Len(p) + Len(q)
          /\ \A i \in 1 .. Len(p) + Len(q) :
               (p \o q)[i] = IF i <= Len(p) THEN p[i] ELSE q[i - Len(p)]
      BY <2>1, ConcatProperties, Zenon
    <3>5. PICK r : r = p \o q
      OBVIOUS
    <3>7. Len(p) = 1 /\ Len(q) = 1 /\ p[1] = x /\ q[1] = y
      BY <2>a
    <3>8. /\ r \in Seq(S) /\ Len(r) = 2
          /\ \A i \in 1 .. 2 : r[i] = IF i <= 1 THEN p[i] ELSE q[i - 1]
      BY <3>1, <3>5, <3>7
    <3>2. r[1] = x /\ r[2] = y
      BY <3>7, <3>8
    <3>3. PICK z : z = <<x, y>>
      OBVIOUS
    <3>4. z \in Seq(S) /\ Len(z) = 2 /\ z[1] = x /\ z[2] = y
      BY <3>3
    <3>6. Len(r) = Len(z) /\ \A i \in 1 .. Len(r) : r[i] = z[i]
      <4>1. \A i \in 1 .. 2 : i = 1 \/ i = 2
        OBVIOUS
      <4> QED BY <3>2, <3>4, <3>8, <4>1
    <3> QED BY <3>3, <3>4, <3>5, <3>6, <3>8, SeqEqual
  <2> QED BY <2>2, <2>3, <2>4
<1> QED BY <1>3, <1>4, <1>5, <1>6, <1>b

LEMMA SliceFacts ==
  ASSUME NEW s, NEW p \in Int, NEW q \in Int, p <= q + 1, NEW u, u = SubSeq(s, p, q)
  PROVE  u = [i \in 1 .. q - p + 1 |-> s[p + i - 1]]
<1>a. PICK l : l = q - p + 1
  OBVIOUS
<1>1. l \in Nat
  BY <1>a
<1>2. PICK S : S = {s[i] : i \in p .. q}
  OBVIOUS
<1>3. \A i \in p .. q : s[i] \in S
  BY <1>2
<1>4. /\ u \in Seq(S) /\ Len(u) = IF p <= q THEN q - p + 1 ELSE 0
      /\ \A i \in 1 .. q - p + 1 : u[i] = s[p + i - 1]
  BY <1>3, SubSeqProperties
<1>5. Len(u) = l /\ \A i \in 1 .. l : u[i] = s[p + i - 1]
  BY <1>1, <1>4, <1>a
<1>6. u = [i \in 1 .. l |-> u[i]]
  BY <1>4, <1>5, LenProperties
<1>7. u = [i \in 1 .. l |-> s[p + i - 1]]
  BY <1>5, <1>6, Zenon
<1> QED BY <1>7, <1>a

\* A part of a stretch of cells is a stretch of cells.
LEMMA SliceOfCells ==
  ASSUME NEW g, NEW a \in Nat, NEW m \in Nat, NEW p \in Nat, NEW q \in Nat,
         p >= 1, p <= q + 1, q <= m
  PROVE  SubSeq([j \in 1 .. m |-> g[a + j - 1]], p, q)
           = [j \in 1 .. q - p + 1 |-> g[a + p - 1 + j - 1]]
<1>a. PICK s : s = [j \in 1 .. m |-> g[a + j - 1]]
  OBVIOUS
<1>b. PICK u, l : u = SubSeq(s, p, q) /\ l = q - p + 1
  OBVIOUS
<1>1. l \in Nat
  BY <1>b
<1>2. u = [i \in 1 .. l |-> s[p + i - 1]]
  BY <1>b, SliceFacts
<1>3. ASSUME NEW i \in 1 .. l
      PROVE  s[p + i - 1] = g[a + p - 1 + i - 1]
  <2>1. p + i - 1 \in 1 .. m /\ a + (p + i - 1) - 1 = a + p - 1 + i - 1
    BY <1>1, <1>b
  <2> QED BY <1>a, <2>1
<1>4. u = [i \in 1 .. l |-> g[a + p - 1 + i - 1]]
  BY <1>2, <1>3, Zenon
<1> QED BY <1>4, <1>a, <1>b

-----------------------------------------------------------------------------
(* Where an activation lies. *)

LEMMA Layout ==
  ASSUME FramesInv, disciplined, NEW i \in 1 .. Len(calls) + 1, NEW r, r = Regs(i)
  PROVE  /\ r.arg \in Nat /\ r.arg_len \in Nat /\ r.lcl \in Nat /\ r.lcl_len \in Nat
         /\ r.arg + r.arg_len <= r.lcl
         /\ ActTop(i) \in Nat /\ r.lcl + r.lcl_len <= ActTop(i)
         /\ i > 1 => /\ i - 1 \in DOMAIN calls
                     /\ r.lcl = calls[i - 1].frame /\ r.lcl >= 8
                     /\ SavedIntact(calls[i - 1])
<1>1. /\ Inv /\ calls \in Seq(Snapshots) /\ Stacked /\ Len(calls) \in Nat
      /\ DOMAIN calls = 1 .. Len(calls) /\ i \in Nat
  BY DEF FramesInv, Orderly
<1>2. r \in Segmented
  <2>1. CASE i \in DOMAIN calls
    BY <1>1, <2>1, CallFacts DEF Regs
  <2>2. CASE i \notin DOMAIN calls
    BY <1>1, <2>2 DEF Regs, Inv, TypeOK, Segmented
  <2> QED BY <2>1, <2>2
<1>3. r.arg \in Nat /\ r.arg_len \in Nat /\ r.lcl \in Nat /\ r.lcl_len \in Nat
  BY <1>2 DEF Segmented
<1>4. ASSUME i > 1
      PROVE  /\ i - 1 \in DOMAIN calls
             /\ r.lcl = calls[i - 1].frame /\ r.lcl >= 8
             /\ SavedIntact(calls[i - 1])
             /\ r.arg + r.arg_len <= r.lcl
  <2>1. i - 1 \in DOMAIN calls /\ (i - 1) + 1 = i
    BY <1>1, <1>4
  <2>2. PICK f, k : f = calls[i - 1].frame /\ k = calls[i - 1].nargs
    OBVIOUS
  <2>3. /\ SavedIntact(calls[i - 1]) /\ Linked(i - 1)
        /\ f \in Nat /\ k \in Nat /\ f >= 8 /\ Base(calls[i - 1]) = f - 8 - k
    BY <2>1, <2>2, BelowFloor DEF Base
  <2>4. r.lcl = f /\ r.arg = f - 8 - k /\ r.arg_len = k
    BY <2>1, <2>2, <2>3 DEF Linked
  <2>5. r.arg + r.arg_len <= r.lcl
    BY <2>3, <2>4
  <2> QED BY <2>1, <2>2, <2>3, <2>4, <2>5
<1>5. ASSUME ~(i > 1)
      PROVE  r.arg + r.arg_len <= r.lcl
  <2>1. i = 1
    BY <1>1, <1>5
  <2>2. r = NoSegments
    BY <1>1, <2>1 DEF Stacked
  <2> QED BY <2>2 DEF NoSegments
<1>6. ActTop(i) \in Nat /\ r.lcl + r.lcl_len <= ActTop(i)
  <2>1. CASE i \in DOMAIN calls
    BY <2>1, BelowFloor DEF Linked, Regs, ActTop
  <2>2. CASE i \notin DOMAIN calls
    <3>1. stack.sp \in Nat /\ Floor <= stack.sp
      BY <1>1 DEF Stacked, Inv, TypeOK, IsStack
    <3> QED BY <2>2, <3>1 DEF Regs, ActTop, Floor
  <2> QED BY <2>1, <2>2
<1> QED BY <1>3, <1>4, <1>5, <1>6

-----------------------------------------------------------------------------
(* A waiting activation is what it was when it made its call. *)

Waiting(c, i) ==
  LET r == c.reg
      w == r.lcl + r.lcl_len
  IN  [args   |-> [k \in 1 .. r.arg_len |-> c.ops[r.arg + k - 1]],
       locals |-> [k \in 1 .. r.lcl_len |-> c.ops[r.lcl + k - 1]],
       work   |-> [k \in 1 .. Base(c) - w |-> c.ops[w + k - 1]],
       from   |-> IF i = 1 THEN <<>> ELSE << c.ops[r.lcl - 7], c.ops[r.lcl - 8] >>,
       saved  |-> IF i = 1 THEN <<>> ELSE << c.ops[r.lcl - 2], c.ops[r.lcl - 1] >>]

LEMMA WaitingIs ==
  FramesInv /\ disciplined => \A i \in DOMAIN calls : ActOf(i) = Waiting(calls[i], i)
<1> SUFFICES ASSUME FramesInv, disciplined, NEW i \in DOMAIN calls
             PROVE  ActOf(i) = Waiting(calls[i], i)
  OBVIOUS
<1>1. PICK c : c = calls[i]
  OBVIOUS
<1>2. PICK r : r = c.reg
  OBVIOUS
<1>3. PICK b : b = Base(c)
  OBVIOUS
<1>4. /\ Regs(i) = r /\ ActTop(i) = b /\ i \in 1 .. Len(calls) + 1 /\ i \in Nat /\ i >= 1
  <2>1. calls \in Seq(Snapshots)
    BY DEF FramesInv
  <2> QED BY <1>1, <1>2, <1>3, <2>1 DEF Regs, ActTop
<1>5. /\ r.arg \in Nat /\ r.arg_len \in Nat /\ r.lcl \in Nat /\ r.lcl_len \in Nat
      /\ r.arg + r.arg_len <= r.lcl
      /\ b \in Nat /\ r.lcl + r.lcl_len <= b
      /\ i > 1 => r.lcl >= 8
  BY <1>4, Layout
<1>6. \A a \in 0 .. b - 1 : stack.ops[a] = c.ops[a]
  BY <1>1, <1>3, BelowFloor DEF Pending
<1>7. PICK w : w = r.lcl + r.lcl_len
  OBVIOUS
<1>8. /\ \A k \in 1 .. r.arg_len : r.arg + k - 1 \in 0 .. b - 1
      /\ \A k \in 1 .. r.lcl_len : r.lcl + k - 1 \in 0 .. b - 1
      /\ \A k \in 1 .. b - w : w + k - 1 \in 0 .. b - 1
      /\ i > 1 => /\ r.lcl - 7 \in 0 .. b - 1 /\ r.lcl - 8 \in 0 .. b - 1
                  /\ r.lcl - 2 \in 0 .. b - 1 /\ r.lcl - 1 \in 0 .. b - 1
  BY <1>5, <1>7
<1>9. Cells(r.arg, r.arg_len) = [k \in 1 .. r.arg_len |-> c.ops[r.arg + k - 1]]
  BY <1>6, <1>8 DEF Cells
<1>10. Cells(r.lcl, r.lcl_len) = [k \in 1 .. r.lcl_len |-> c.ops[r.lcl + k - 1]]
  BY <1>6, <1>8 DEF Cells
<1>11. Cells(w, b - w) = [k \in 1 .. b - w |-> c.ops[w + k - 1]]
  BY <1>6, <1>8 DEF Cells
<1>12. ASSUME i # 1
       PROVE  /\ stack.ops[r.lcl - 7] = c.ops[r.lcl - 7]
              /\ stack.ops[r.lcl - 8] = c.ops[r.lcl - 8]
              /\ stack.ops[r.lcl - 2] = c.ops[r.lcl - 2]
              /\ stack.ops[r.lcl - 1] = c.ops[r.lcl - 1]
  <2>1. i > 1
    BY <1>4, <1>12
  <2> QED BY <1>6, <1>8, <2>1
<1>13. ActOf(i) =
         [args   |-> Cells(r.arg, r.arg_len),
          locals |-> Cells(r.lcl, r.lcl_len),
          work   |-> Cells(w, b - w),
          from   |-> IF i = 1 THEN <<>> ELSE << stack.ops[r.lcl - 7], stack.ops[r.lcl - 8] >>,
          saved  |-> IF i = 1 THEN <<>> ELSE << stack.ops[r.lcl - 2], stack.ops[r.lcl - 1] >>]
  BY <1>4, <1>7 DEF ActOf
<1>14. Waiting(c, i) =
         [args   |-> [k \in 1 .. r.arg_len |-> c.ops[r.arg + k - 1]],
          locals |-> [k \in 1 .. r.lcl_len |-> c.ops[r.lcl + k - 1]],
          work   |-> [k \in 1 .. b - w |-> c.ops[w + k - 1]],
          from   |-> IF i = 1 THEN <<>> ELSE << c.ops[r.lcl - 7], c.ops[r.lcl - 8] >>,
          saved  |-> IF i = 1 THEN <<>> ELSE << c.ops[r.lcl - 2], c.ops[r.lcl - 1] >>]
  BY <1>2, <1>3, <1>7 DEF Waiting
<1> QED BY <1>1, <1>9, <1>10, <1>11, <1>12, <1>13, <1>14, Zenon

LEMMA WaitingIsNext ==
  (FramesInv /\ disciplined => \A i \in DOMAIN calls : ActOf(i) = Waiting(calls[i], i))'
<1> QED BY WaitingIs, PTL

-----------------------------------------------------------------------------
(* The activations as a sequence: those that wait, and the running one. *)

Waits == [i \in DOMAIN calls |-> Waiting(calls[i], i)]

Live ==
  [args   |-> Cells(reg.arg, reg.arg_len),
   locals |-> Cells(reg.lcl, reg.lcl_len),
   work   |-> Cells(Floor, stack.sp - Floor),
   from   |-> IF calls = <<>> THEN <<>>
              ELSE << stack.ops[reg.lcl - 7], stack.ops[reg.lcl - 8] >>,
   saved  |-> IF calls = <<>> THEN <<>>
              ELSE << stack.ops[reg.lcl - 2], stack.ops[reg.lcl - 1] >>]

LEMMA ActsAre ==
  FramesInv /\ AbsMode = "run" =>
    /\ Acts = Append(Waits, Live)
    /\ Waits \in Seq({Waits[i] : i \in DOMAIN calls})
    /\ Len(Waits) = Len(calls) /\ Len(calls) \in Nat
<1> SUFFICES ASSUME FramesInv, AbsMode = "run"
             PROVE  /\ Acts = Append(Waits, Live)
                    /\ Waits \in Seq({Waits[i] : i \in DOMAIN calls})
                    /\ Len(Waits) = Len(calls) /\ Len(calls) \in Nat
  OBVIOUS
<1>a. PICK n : n = Len(calls)
  OBVIOUS
<1>1. /\ disciplined /\ status = "run" /\ calls \in Seq(Snapshots)
      /\ n \in Nat /\ DOMAIN calls = 1 .. n
  BY <1>a DEF FramesInv, AbsMode
<1>2. Waits = [i \in 1 .. n |-> Waiting(calls[i], i)]
  BY <1>1 DEF Waits
<1>3. PICK w : w = Waits
  OBVIOUS
<1>4. DOMAIN w = 1 .. n /\ w \in [1 .. n -> {w[i] : i \in 1 .. n}]
  BY <1>2, <1>3
<1>5. w \in Seq({w[i] : i \in 1 .. n}) /\ Len(w) = n
  BY <1>1, <1>4
<1>6. ActOf(n + 1) = Live
  <2>1. n + 1 \notin DOMAIN calls /\ (n + 1 = 1 <=> calls = <<>>)
    <3>1. n = 0 <=> calls = <<>>
      BY <1>1, <1>a, EmptySeq
    <3> QED BY <1>1, <3>1
  <2>2. Regs(n + 1) = reg /\ ActTop(n + 1) = stack.sp
    BY <2>1 DEF Regs, ActTop
  <2> QED BY <2>1, <2>2, Zenon DEF ActOf, Live, Floor
<1>7. \A i \in 1 .. n : ActOf(i) = w[i]
  BY <1>1, <1>2, <1>3, WaitingIs
<1>8. Acts = [i \in 1 .. n + 1 |-> ActOf(i)]
  BY <1>a DEF Acts
<1>9. PICK S, l, s, t : /\ S = {w[i] : i \in 1 .. n} \cup {Live} /\ l = Live
                        /\ s = Acts /\ t = Append(w, Live)
  OBVIOUS
<1>10. w \in Seq(S) /\ l \in S /\ t = Append(w, l)
  BY <1>5, <1>9, SeqMonotonic
<1>11. /\ t \in Seq(S) /\ Len(t) = n + 1 /\ t[n + 1] = l
       /\ \A i \in 1 .. n : t[i] = w[i]
  BY <1>5, <1>10, AppendFacts
<1>12. \A i \in 1 .. n + 1 : i = n + 1 \/ i \in 1 .. n
  BY <1>1
<1>13. \A i \in 1 .. n + 1 : s[i] = t[i]
  BY <1>6, <1>7, <1>8, <1>9, <1>11, <1>12
<1>14. s \in Seq(S) /\ Len(s) = n + 1
  <2>1. \A i \in 1 .. n + 1 : t[i] \in S
    BY <1>11
  <2>2. DOMAIN s = 1 .. n + 1 /\ s = [i \in 1 .. n + 1 |-> s[i]]
    BY <1>8, <1>9
  <2>3. s \in [1 .. n + 1 -> S]
    BY <1>13, <2>1, <2>2
  <2> QED BY <1>1, <2>3
<1>15. s = t
  BY <1>11, <1>13, <1>14, SeqEqual
<1> QED BY <1>1, <1>3, <1>5, <1>9, <1>15, <1>a

LEMMA ActsAreNext ==
  (FramesInv /\ AbsMode = "run" =>
    /\ Acts = Append(Waits, Live)
    /\ Waits \in Seq({Waits[i] : i \in DOMAIN calls})
    /\ Len(Waits) = Len(calls) /\ Len(calls) \in Nat)'
<1> QED BY ActsAre, PTL

LEMMA LiveFacts ==
  FramesInv /\ AbsMode = "run" =>
    /\ Len(Live.args) = reg.arg_len /\ Len(Live.locals) = reg.lcl_len
    /\ stack.sp \in Nat /\ Floor \in Nat /\ Floor <= stack.sp
    /\ Len(Live.work) = stack.sp - Floor
    /\ Live.from = IF calls = <<>> THEN <<>>
                   ELSE << calls[Len(calls)].fi, calls[Len(calls)].ei >>
    /\ Live.saved = IF calls = <<>> THEN <<>>
                    ELSE << calls[Len(calls)].ptr.this, calls[Len(calls)].ptr.that >>
<1> SUFFICES ASSUME FramesInv, AbsMode = "run"
             PROVE  /\ Len(Live.args) = reg.arg_len /\ Len(Live.locals) = reg.lcl_len
                    /\ stack.sp \in Nat /\ Floor \in Nat /\ Floor <= stack.sp
                    /\ Len(Live.work) = stack.sp - Floor
                    /\ Live.from = IF calls = <<>> THEN <<>>
                         ELSE << calls[Len(calls)].fi, calls[Len(calls)].ei >>
                    /\ Live.saved = IF calls = <<>> THEN <<>>
                         ELSE << calls[Len(calls)].ptr.this, calls[Len(calls)].ptr.that >>
  OBVIOUS
<1>1. /\ disciplined /\ status = "run" /\ Inv /\ calls \in Seq(Snapshots)
      /\ Floor <= stack.sp
  BY DEF FramesInv, AbsMode, Orderly, Stacked
<1>2. /\ reg.arg_len \in Nat /\ reg.lcl_len \in Nat
      /\ stack.sp \in Nat /\ Floor \in Nat
  BY <1>1 DEF Inv, TypeOK, IsStack, Floor
<1>3. \A a : \A n \in Nat : Len(Cells(a, n)) = n
  <2> SUFFICES ASSUME NEW a, NEW n \in Nat
               PROVE  Len(Cells(a, n)) = n
    OBVIOUS
  <2> QED BY DEF Cells
<1>4. PICK k : k = stack.sp - Floor
  OBVIOUS
<1>5. k \in Nat
  BY <1>1, <1>2, <1>4
<1>6. /\ Live.args = Cells(reg.arg, reg.arg_len)
      /\ Live.locals = Cells(reg.lcl, reg.lcl_len)
      /\ Live.work = Cells(Floor, k)
      /\ Live.from = IF calls = <<>> THEN <<>>
                     ELSE << stack.ops[reg.lcl - 7], stack.ops[reg.lcl - 8] >>
      /\ Live.saved = IF calls = <<>> THEN <<>>
                      ELSE << stack.ops[reg.lcl - 2], stack.ops[reg.lcl - 1] >>
  BY <1>4 DEF Live
<1>7. ASSUME calls # <<>>, NEW c, c = calls[Len(calls)]
      PROVE  /\ stack.ops[reg.lcl - 8] = c.ei /\ stack.ops[reg.lcl - 7] = c.fi
             /\ stack.ops[reg.lcl - 2] = c.ptr.this /\ stack.ops[reg.lcl - 1] = c.ptr.that
  <2>1. /\ Len(calls) \in DOMAIN calls /\ Len(calls) + 1 \notin DOMAIN calls
    BY <1>1, <1>7, NonEmpty
  <2>2. SavedIntact(c) /\ Linked(Len(calls))
    BY <1>1, <1>7, <2>1, BelowFloor
  <2>3. reg.lcl = c.frame
    BY <1>7, <2>1, <2>2 DEF Linked, Regs
  <2> QED BY <2>2, <2>3 DEF SavedIntact
<1> QED BY <1>1, <1>2, <1>3, <1>4, <1>5, <1>6, <1>7, ZenonT(60)

LEMMA LiveFactsNext ==
  (FramesInv /\ AbsMode = "run" =>
    /\ Len(Live.args) = reg.arg_len /\ Len(Live.locals) = reg.lcl_len
    /\ stack.sp \in Nat /\ Floor \in Nat /\ Floor <= stack.sp
    /\ Len(Live.work) = stack.sp - Floor
    /\ Live.from = IF calls = <<>> THEN <<>>
                   ELSE << calls[Len(calls)].fi, calls[Len(calls)].ei >>
    /\ Live.saved = IF calls = <<>> THEN <<>>
                    ELSE << calls[Len(calls)].ptr.this, calls[Len(calls)].ptr.that >>)'
<1> QED BY LiveFacts, PTL

-----------------------------------------------------------------------------
(* The steps. *)

LEMMA LocalMaps ==
  ASSUME FramesInv, FramesInv', AbsMode = "run", AbsMode' = "run",
         calls' = calls, reg' = reg
  PROVE  Frames!ALocal
<1>a. PICK w, x, y : w = Waits /\ x = Live /\ y = Live'
  OBVIOUS
<1>1. Waits' = w
  BY <1>a DEF Waits, Waiting, Base
<1>2. /\ Acts = Append(w, x) /\ Acts' = Append(w, y)
      /\ w \in Seq({w[i] : i \in DOMAIN calls})
  BY <1>1, <1>a, ActsAre, ActsAreNext
<1>3. PICK S : S = {w[i] : i \in DOMAIN calls} \cup {x, y}
  OBVIOUS
<1>4. w \in Seq(S) /\ x \in S /\ y \in S
  BY <1>2, <1>3, SeqMonotonic
<1>5. PICK s, t : s = Acts /\ t = Acts'
  OBVIOUS
<1>6. /\ Len(t) = Len(s) /\ s[Len(s)] = x /\ t[Len(s)] = y
      /\ SubSeq(t, 1, Len(s) - 1) = SubSeq(s, 1, Len(s) - 1)
  BY <1>2, <1>4, <1>5, LastReplaced
<1>7. /\ Len(y.args) = Len(x.args) /\ Len(y.locals) = Len(x.locals)
      /\ y.from = x.from /\ y.saved = x.saved
  BY <1>a, LiveFacts, LiveFactsNext
<1> QED BY <1>5, <1>6, <1>7 DEF Frames!ALocal, Frames!Below, Frames!Running

\* The locals that follow the saved words are zero.
LEMMA EightThen ==
  ASSUME NEW s \in Seq(Word), Len(s) = 8, NEW n \in Nat, NEW t \in Seq(Word), Len(t) = n
  PROVE  /\ s \o t \in Seq(Word)
         /\ \A i \in 1 .. n : (s \o t)[8 + i] = t[i] /\ 8 + i \in 1 .. Len(s \o t)
<1>1. /\ s \o t \in Seq(Word)
      /\ Len(s \o t) = Len(s) + Len(t)
      /\ \A i \in 1 .. Len(s) + Len(t) :
           (s \o t)[i] = IF i <= Len(s) THEN s[i] ELSE t[i - Len(s)]
  BY ConcatProperties, Zenon
<1>2. PICK v : v = s \o t
  OBVIOUS
<1>3. /\ Len(v) = 8 + n
      /\ \A i \in 1 .. 8 + n : v[i] = IF i <= 8 THEN s[i] ELSE t[i - 8]
  BY <1>1, <1>2
<1>4. \A i \in 1 .. n : v[8 + i] = t[i] /\ 8 + i \in 1 .. Len(v)
  <2> SUFFICES ASSUME NEW i \in 1 .. n
               PROVE  v[8 + i] = t[i] /\ 8 + i \in 1 .. Len(v)
    OBVIOUS
  <2>1. 8 + i \in 1 .. 8 + n /\ ~(8 + i <= 8) /\ 8 + i - 8 = i
    OBVIOUS
  <2> QED BY <1>3, <2>1
<1> QED BY <1>1, <1>2, <1>4

LEMMA CallClears ==
  ASSUME Inv, Call, status' = "run"
  PROVE  \A i \in 1 .. reg'.lcl_len : stack'.ops[stack.sp + 8 + i - 1] = 0
<1>1. /\ TypeOK /\ IsStack(stack) /\ stack.sp \in Nat
  BY Running DEF Call, Inv, Executing
<1>2. ~Stop("nargs", stack) /\ ~JumpError(Func(Cur.ident), stack)
  <2>1. ~Stop("nargs", stack)
    BY DEF Stop
  <2>2. JumpError(Func(Cur.ident), stack) => Stopped
    BY JumpErrorIs
  <2> QED BY <2>1, <2>2 DEF Stopped
<1>3. PICK k \in Files :
        /\ JumpTo(Func(Cur.ident), k)
        /\ stack' = PushAll(stack, SavedWords
                                     \o Locals(FileOf(k).st[Func(Cur.ident)].nlocals))
        /\ reg' = [arg |-> stack.sp - Cur.nargs, arg_len |-> Cur.nargs,
                   lcl |-> stack.sp + 8,
                   lcl_len |-> FileOf(k).st[Func(Cur.ident)].nlocals]
  BY <1>2 DEF Call
<1>4. PICK n : n = FileOf(k).st[Func(Cur.ident)].nlocals
  OBVIOUS
<1>5. n \in Nat
  <2>1. FileOf(k).st[Func(Cur.ident)] \in SymVal
    BY <1>1, <1>3, JumpTyped
  <2> QED BY <1>4, <2>1, SmallWords DEF SymVal
<1>6. PICK saved, locals : saved = SavedWords /\ locals = Locals(n)
  OBVIOUS
<1>7. /\ saved \in Seq(Word) /\ Len(saved) = 8
      /\ locals \in Seq(Word) /\ Len(locals) = n
  BY <1>1, <1>5, <1>6, SavedWordsTyped, LocalsTyped
<1>8. PICK vals : vals = saved \o locals
  OBVIOUS
<1>9. /\ vals \in Seq(Word)
      /\ \A i \in 1 .. n : vals[8 + i] = locals[i] /\ 8 + i \in 1 .. Len(vals)
  BY <1>5, <1>7, <1>8, EightThen, ZenonT(60)
<1>10. stack' = PushAll(stack, vals) /\ reg'.lcl_len = n
  BY <1>3, <1>4, <1>6, <1>8
<1>11. PICK T : T = stack'
  OBVIOUS
<1>12. \A i \in 1 .. Len(vals) : T.ops[stack.sp + i - 1] = vals[i]
  BY <1>1, <1>9, <1>10, <1>11, PushAllFacts
<1>13. ASSUME NEW i \in 1 .. n
       PROVE  T.ops[stack.sp + 8 + i - 1] = 0
  <2>1. stack.sp + (8 + i) - 1 = stack.sp + 8 + i - 1
    BY <1>1, <1>5
  <2>2. locals[i] = 0
    BY <1>6 DEF Locals
  <2> QED BY <1>9, <1>12, <2>1, <2>2
<1> QED BY <1>10, <1>11, <1>13

\* The caller keeps what is below the arguments, and waits.
LEMMA CallerWaits ==
  ASSUME FramesInv, AbsMode = "run", Called, OwnArguments
  PROVE  \A n, k : n = Len(calls) /\ k = stack.sp - Floor - Cur.nargs =>
           /\ k \in Nat
           /\ Waiting(Snapshot, n + 1) = [Live EXCEPT !.work = SubSeq(Live.work, 1, k)]
<1>0. SUFFICES ASSUME NEW n, NEW k, n = Len(calls), k = stack.sp - Floor - Cur.nargs
               PROVE  /\ k \in Nat
                      /\ Waiting(Snapshot, n + 1)
                           = [Live EXCEPT !.work = SubSeq(Live.work, 1, k)]
  OBVIOUS
<1>a. PICK c, r : c = Snapshot /\ r = reg
  OBVIOUS
<1>b. PICK f, p, m : f = Floor /\ p = stack.sp /\ m = Cur.nargs
  OBVIOUS
<1>1. /\ calls \in Seq(Snapshots) /\ n \in Nat
      /\ p \in Nat /\ f \in Nat /\ f <= p /\ m \in Nat /\ m <= p - f
  BY <1>0, <1>b, LiveFacts DEF FramesInv, Called, OwnArguments
<1>2. k \in Nat /\ k = p - f - m /\ k <= p - f
  BY <1>0, <1>1, <1>b, SMTT(60)
<1>3. n + 1 = 1 <=> calls = <<>>
  <2>1. n = 0 <=> calls = <<>>
    BY <1>0, <1>1, EmptySeq
  <2> QED BY <1>1, <2>1
<1>4. /\ c.reg = r /\ c.ops = stack.ops /\ r.lcl + r.lcl_len = f
  BY <1>a, <1>b DEF Snapshot, Floor
<1>5. Base(c) - f = k
  <2>1. c.frame = p + 8 /\ c.nargs = m
    BY <1>a, <1>b DEF Snapshot
  <2>2. Base(c) = (p + 8) - 8 - m
    BY <2>1 DEF Base
  <2> QED BY <1>1, <1>2, <2>2
<1>6. SubSeq([j \in 1 .. p - f |-> stack.ops[f + j - 1]], 1, k)
        = [j \in 1 .. k |-> stack.ops[f + j - 1]]
  <2>1. p - f \in Nat
    BY <1>1
  <2>2. PICK g : g = stack.ops
    OBVIOUS
  <2>3. SubSeq([j \in 1 .. p - f |-> g[f + j - 1]], 1, k)
          = [j \in 1 .. k - 1 + 1 |-> g[f + 1 - 1 + j - 1]]
    BY <1>1, <1>2, <2>1, SliceOfCells
  <2>4. k - 1 + 1 = k /\ f + 1 - 1 = f
    BY <1>1, <1>2
  <2> QED BY <2>2, <2>3, <2>4
<1>7. SubSeq(Live.work, 1, k) = [j \in 1 .. k |-> c.ops[f + j - 1]]
  <2>1. Live.work = [j \in 1 .. p - f |-> stack.ops[f + j - 1]]
    BY <1>b DEF Live, Cells
  <2> QED BY <1>4, <1>6, <2>1
<1>8. Waiting(c, n + 1) =
        [args   |-> [j \in 1 .. r.arg_len |-> c.ops[r.arg + j - 1]],
         locals |-> [j \in 1 .. r.lcl_len |-> c.ops[r.lcl + j - 1]],
         work   |-> [j \in 1 .. k |-> c.ops[f + j - 1]],
         from   |-> IF calls = <<>> THEN <<>> ELSE << c.ops[r.lcl - 7], c.ops[r.lcl - 8] >>,
         saved  |-> IF calls = <<>> THEN <<>> ELSE << c.ops[r.lcl - 2], c.ops[r.lcl - 1] >>]
  BY <1>3, <1>4, <1>5, Zenon DEF Waiting
<1>9. [Live EXCEPT !.work = SubSeq(Live.work, 1, k)] =
        [args   |-> Cells(reg.arg, reg.arg_len),
         locals |-> Cells(reg.lcl, reg.lcl_len),
         work   |-> SubSeq(Live.work, 1, k),
         from   |-> IF calls = <<>> THEN <<>>
                    ELSE << stack.ops[reg.lcl - 7], stack.ops[reg.lcl - 8] >>,
         saved  |-> IF calls = <<>> THEN <<>>
                    ELSE << stack.ops[reg.lcl - 2], stack.ops[reg.lcl - 1] >>]
  <2>1. PICK v : v = SubSeq(Live.work, 1, k)
    OBVIOUS
  <2>2. PICK a, b, w, d, e :
          /\ a = Cells(reg.arg, reg.arg_len) /\ b = Cells(reg.lcl, reg.lcl_len)
          /\ w = Cells(Floor, stack.sp - Floor)
          /\ d = IF calls = <<>> THEN <<>>
                 ELSE << stack.ops[reg.lcl - 7], stack.ops[reg.lcl - 8] >>
          /\ e = IF calls = <<>> THEN <<>>
                 ELSE << stack.ops[reg.lcl - 2], stack.ops[reg.lcl - 1] >>
    OBVIOUS
  <2>3. Live = [args |-> a, locals |-> b, work |-> w, from |-> d, saved |-> e]
    BY <2>2, Zenon DEF Live
  <2>4. [Live EXCEPT !.work = v]
          = [args |-> a, locals |-> b, work |-> v, from |-> d, saved |-> e]
    BY <2>3
  <2> QED BY <2>1, <2>2, <2>4, Zenon
<1>10. /\ Cells(reg.arg, reg.arg_len) = [j \in 1 .. r.arg_len |-> c.ops[r.arg + j - 1]]
       /\ Cells(reg.lcl, reg.lcl_len) = [j \in 1 .. r.lcl_len |-> c.ops[r.lcl + j - 1]]
  BY <1>4, <1>a, Zenon DEF Cells
<1> QED BY <1>2, <1>4, <1>7, <1>8, <1>9, <1>10, <1>a, Zenon

\* The callee gets the arguments and zeroed locals, and nothing else.
LEMMA CalleeStarts ==
  ASSUME FramesInv, FramesInv', AbsMode = "run", AbsMode' = "run",
         FCall, Called, OwnArguments
  PROVE  \A k : k = stack.sp - Floor - Cur.nargs =>
           Live' = Frames!Act(SubSeq(Live.work, k + 1, Len(Live.work)),
                              [i \in 1 .. reg'.lcl_len |-> 0],
                              << fi, ei[fi] >>, << ptr.this, ptr.that >>)
<1>0. SUFFICES ASSUME NEW k, k = stack.sp - Floor - Cur.nargs
               PROVE  Live' = Frames!Act(SubSeq(Live.work, k + 1, Len(Live.work)),
                                         [i \in 1 .. reg'.lcl_len |-> 0],
                                         << fi, ei[fi] >>, << ptr.this, ptr.that >>)
  OBVIOUS
<1>d. Call /\ calls' = Append(calls, Snapshot)
  BY DEF FCall, AbsMode
<1>b. PICK f, p, m, l : /\ f = Floor /\ p = stack.sp /\ m = Cur.nargs
                        /\ l = reg'.lcl_len
  OBVIOUS
<1>1. /\ calls \in Seq(Snapshots) /\ Inv
      /\ p \in Nat /\ f \in Nat /\ f <= p /\ m \in Nat /\ m <= p - f
      /\ k = p - f - m /\ k \in Nat
      /\ Len(Live.work) = p - f
  <2>1. /\ calls \in Seq(Snapshots) /\ Inv
        /\ p \in Nat /\ f \in Nat /\ f <= p /\ m \in Nat /\ m <= p - f
        /\ Len(Live.work) = p - f
    BY <1>b, LiveFacts DEF FramesInv, Called, OwnArguments
  <2>2. k = p - f - m
    BY <1>0, <1>b
  <2> QED BY <2>1, <2>2
<1>2. /\ reg'.arg = p - m /\ reg'.arg_len = m /\ reg'.lcl = p + 8 /\ reg'.lcl_len = l
      /\ stack'.sp = p + 8 + l /\ l \in Nat
      /\ \A a \in 0 .. p - 1 : stack'.ops[a] = stack.ops[a]
  <2>1. reg'.lcl_len \in Nat
    BY DEF FramesInv, Inv, TypeOK
  <2> QED BY <1>b, <2>1 DEF Called
<1>3. Live'.args = SubSeq(Live.work, k + 1, Len(Live.work))
  <2>1. PICK g : g = stack.ops
    OBVIOUS
  <2>2. Live.work = [j \in 1 .. p - f |-> g[f + j - 1]]
    BY <1>b, <2>1 DEF Live, Cells
  <2>3. p - f \in Nat /\ k + 1 \in Nat /\ k + 1 >= 1 /\ k + 1 <= p - f + 1
    BY <1>1
  <2>4. SubSeq([j \in 1 .. p - f |-> g[f + j - 1]], k + 1, p - f)
          = [j \in 1 .. p - f - (k + 1) + 1 |-> g[f + (k + 1) - 1 + j - 1]]
    BY <1>1, <2>3, SliceOfCells
  <2>5. p - f - (k + 1) + 1 = m /\ f + (k + 1) - 1 = p - m
    BY <1>1
  <2>6. SubSeq(Live.work, k + 1, Len(Live.work)) = [j \in 1 .. m |-> g[p - m + j - 1]]
    BY <1>1, <2>2, <2>4, <2>5
  <2>7. Live'.args = [j \in 1 .. m |-> stack'.ops[p - m + j - 1]]
    BY <1>2 DEF Live, Cells
  <2>8. \A j \in 1 .. m : stack'.ops[p - m + j - 1] = g[p - m + j - 1]
    <3>1. \A j \in 1 .. m : p - m + j - 1 \in 0 .. p - 1
      BY <1>1
    <3> QED BY <1>2, <2>1, <3>1
  <2> QED BY <2>6, <2>7, <2>8, Zenon
<1>4. Live'.locals = [i \in 1 .. l |-> 0]
  <2>1. Live'.locals = [i \in 1 .. l |-> stack'.ops[p + 8 + i - 1]]
    BY <1>2 DEF Live, Cells
  <2>2. \A i \in 1 .. l : stack'.ops[p + 8 + i - 1] = 0
    BY <1>1, <1>b, <1>d, CallClears DEF Called
  <2> QED BY <2>1, <2>2, Zenon
<1>5. Live'.work = <<>>
  <2>1. Floor' = p + 8 + l /\ p + 8 + l - (p + 8 + l) = 0
    BY <1>1, <1>2 DEF Floor
  <2>2. Live'.work = [j \in 1 .. 0 |-> stack'.ops[p + 8 + l + j - 1]]
    BY <1>2, <2>1 DEF Live, Cells
  <2> QED BY <2>2
<1>6. Live'.from = << fi, ei[fi] >> /\ Live'.saved = << ptr.this, ptr.that >>
  <2>1. calls' # <<>> /\ calls'[Len(calls')] = Snapshot
    <3>1. PICK c : c = Snapshot
      OBVIOUS
    <3>2. c \in Snapshots
      BY <1>1, <3>1, SnapshotTyped DEF Called
    <3>3. /\ calls' # <<>> /\ Len(calls') = Len(calls) + 1
          /\ calls'[Len(calls) + 1] = c
      BY <1>1, <1>d, <3>1, <3>2, AppendFacts
    <3> QED BY <3>1, <3>3
  <2>2. Snapshot.fi = fi /\ Snapshot.ei = ei[fi] /\ Snapshot.ptr = ptr
    BY DEF Snapshot
  <2> QED BY <2>1, <2>2, LiveFactsNext
<1>7. Live' = [args |-> Live'.args, locals |-> Live'.locals, work |-> Live'.work,
               from |-> Live'.from, saved |-> Live'.saved]
  BY DEF Live
<1> QED BY <1>3, <1>4, <1>5, <1>6, <1>7, <1>b, Zenon DEF Frames!Act

LEMMA CallMaps ==
  ASSUME FramesInv, FramesInv', AbsMode = "run", AbsMode' = "run", FCall
  PROVE  Frames!ACall
<1>1. /\ disciplined /\ status = "run" /\ status' = "run" /\ disciplined'
      /\ Inv /\ Call /\ calls \in Seq(Snapshots)
  BY DEF FramesInv, AbsMode, FCall
<1>2. Called
  BY <1>1, CallIs DEF Stopped
<1>3. OwnArguments /\ calls' = Append(calls, Snapshot)
  BY <1>1 DEF FCall
<1>a. PICK n, c : n = Len(calls) /\ c = Waiting(Snapshot, n + 1)
  OBVIOUS
<1>b. PICK w, x, y : w = Waits /\ x = Live /\ y = Live'
  OBVIOUS
<1>c. PICK k, m : k = stack.sp - Floor - Cur.nargs /\ m = Cur.nargs
  OBVIOUS
<1>4. /\ Acts = Append(w, x) /\ Acts' = Append(Waits', y)
      /\ w \in Seq({w[i] : i \in DOMAIN calls}) /\ Len(w) = n /\ n \in Nat
      /\ Waits' \in Seq({Waits'[i] : i \in DOMAIN calls'}) /\ Len(Waits') = Len(calls')
  BY <1>a, <1>b, ActsAre, ActsAreNext
<1>5. PICK S : S = {w[i] : i \in DOMAIN calls} \cup {Waits'[i] : i \in DOMAIN calls'}
                     \cup {c, x, y}
  OBVIOUS
<1>6. w \in Seq(S) /\ Waits' \in Seq(S) /\ c \in S /\ x \in S /\ y \in S
  BY <1>4, <1>5, SeqMonotonic
<1>7. Waits' = Append(w, c)
  <2>1. PICK s : s = Snapshot
    OBVIOUS
  <2>2. s \in Snapshots
    BY <1>1, <1>2, <2>1, SnapshotTyped DEF Called
  <2>3. /\ Len(calls') = n + 1 /\ calls'[n + 1] = s
        /\ \A i \in 1 .. n : calls'[i] = calls[i]
    BY <1>1, <1>3, <1>a, <2>1, <2>2, AppendFacts
  <2>4. DOMAIN calls = 1 .. n /\ DOMAIN calls' = 1 .. n + 1
    <3>1. calls' \in Seq(Snapshots)
      BY <1>1, <1>3, <2>1, <2>2, AppendFacts
    <3> QED BY <1>1, <1>a, <2>3, <3>1
  <2>5. PICK t, v : t = Waits' /\ v = Append(w, c)
    OBVIOUS
  <2>6. /\ v \in Seq(S) /\ Len(v) = n + 1 /\ v[n + 1] = c
        /\ \A i \in 1 .. n : v[i] = w[i]
    BY <1>4, <1>6, <2>5, AppendFacts
  <2>7. \A q, i : Waiting(q, i)' = Waiting(q, i)
    BY DEF Waiting, Base
  <2>8. t = [i \in 1 .. n + 1 |-> Waiting(calls'[i], i)]
    BY <2>4, <2>5, <2>7 DEF Waits, Waiting, Base
  <2>9. w = [i \in 1 .. n |-> Waiting(calls[i], i)]
    BY <1>b, <2>4 DEF Waits
  <2>10. \A i \in 1 .. n + 1 : t[i] = v[i]
    <3>1. \A i \in 1 .. n + 1 : i = n + 1 \/ i \in 1 .. n
      BY <1>4
    <3>2. n + 1 \in 1 .. n + 1 /\ \A i \in 1 .. n : i \in 1 .. n + 1
      BY <1>4
    <3>3. t[n + 1] = c
      BY <1>a, <2>1, <2>3, <2>8, <3>2
    <3>4. \A i \in 1 .. n : t[i] = w[i]
      BY <2>3, <2>8, <2>9, <3>2
    <3> QED BY <2>6, <3>1, <3>3, <3>4
  <2>11. t \in Seq(S) /\ Len(t) = n + 1
    BY <1>4, <1>6, <2>3, <2>5
  <2> QED BY <2>5, <2>6, <2>10, <2>11, SeqEqual
<1>8. PICK s, t : s = Acts /\ t = Acts'
  OBVIOUS
<1>9. /\ t = Append(Append(w, c), y) /\ s = Append(w, x)
  BY <1>4, <1>7, <1>8
<1>10. /\ Len(t) = Len(w) + 2 /\ t[Len(t)] = y /\ t = w \o <<c, y>>
  BY <1>6, <1>9, TwoLast
<1>11. /\ Len(s) = Len(w) + 1 /\ s[Len(s)] = x /\ SubSeq(s, 1, Len(s) - 1) = w
  BY <1>6, <1>9, LastReplaced
<1>12. k \in Nat /\ c = [x EXCEPT !.work = SubSeq(x.work, 1, k)]
  BY <1>2, <1>3, <1>a, <1>b, <1>c, CallerWaits
<1>13. y = Frames!Act(SubSeq(x.work, k + 1, Len(x.work)),
                      [i \in 1 .. reg'.lcl_len |-> 0],
                      << fi, ei[fi] >>, << ptr.this, ptr.that >>)
  BY <1>1, <1>2, <1>3, <1>b, <1>c, CalleeStarts
<1>14. Len(y.locals) = reg'.lcl_len
  BY <1>b, LiveFactsNext
<1>15. m \in 0 .. Len(x.work) /\ Len(x.work) - m = k
  <2>1. PICK p, f : p = stack.sp /\ f = Floor
    OBVIOUS
  <2>2. /\ p \in Nat /\ f \in Nat /\ f <= p /\ m \in Nat /\ m <= p - f
        /\ Len(x.work) = p - f /\ k = p - f - m
    BY <1>2, <1>3, <1>b, <1>c, <2>1, LiveFacts DEF Called, OwnArguments
  <2> QED BY <2>2
<1>16. ptr' = ptr
  BY <1>2 DEF Called
<1>17. Len(t) = Len(s) + 1
  BY <1>4, <1>10, <1>11
<1>18. t = SubSeq(s, 1, Len(s) - 1)
             \o << [x EXCEPT !.work = SubSeq(x.work, 1, k)],
                   Frames!Act(SubSeq(x.work, k + 1, Len(x.work)),
                              [i \in 1 .. Len(y.locals) |-> 0],
                              << fi, ei[fi] >>, << ptr.this, ptr.that >>) >>
  BY <1>10, <1>11, <1>12, <1>13, <1>14, Zenon
<1>19. /\ Len(Acts') = Len(Acts) + 1 /\ Acts[Len(Acts)] = x /\ Acts'[Len(Acts')] = y
  BY <1>8, <1>10, <1>11, <1>17
<1>20. Acts' = SubSeq(Acts, 1, Len(Acts) - 1)
             \o << [Acts[Len(Acts)] EXCEPT !.work = SubSeq(Acts[Len(Acts)].work, 1,
                                                    Len(Acts[Len(Acts)].work) - m)],
                   Frames!Act(SubSeq(Acts[Len(Acts)].work,
                                     Len(Acts[Len(Acts)].work) - m + 1,
                                     Len(Acts[Len(Acts)].work)),
                              [i \in 1 .. Len(Acts'[Len(Acts')].locals) |-> 0],
                              << fi, ei[fi] >>, << ptr.this, ptr.that >>) >>
  BY <1>8, <1>15, <1>18, <1>19, Zenon
<1>21. m \in 0 .. Len(Acts[Len(Acts)].work)
  BY <1>15, <1>19
<1> QED BY <1>16, <1>19, <1>20, <1>21, Zenon
        DEF Frames!ACall, Frames!Below, Frames!Running

\* A `return` that goes through found a value to return.
LEMMA ReturnHasValue ==
  ASSUME FramesInv, AbsMode = "run", Ret, status' = "run"
  PROVE  /\ Floor < stack.sp
         /\ Live.work # <<>> /\ Live.work[Len(Live.work)] = Top(stack)
<1>1. Floor < stack.sp
  <2>1. Poppable(stack)
    BY DEF Ret, Stop, Underflow
  <2> QED BY <2>1 DEF Poppable, CanPop
<1>a. PICK f, p, x : f = Floor /\ p = stack.sp /\ x = Live.work
  OBVIOUS
<1>2. /\ f \in Nat /\ p \in Nat /\ f < p /\ Len(x) = p - f
  BY <1>1, <1>a, LiveFacts
<1>3. x = [j \in 1 .. p - f |-> stack.ops[f + j - 1]]
  BY <1>a DEF Live, Cells
<1>4. p - f \in 1 .. p - f /\ f + (p - f) - 1 = p - 1 /\ p - f > 0
  BY <1>2
<1>5. x[p - f] = stack.ops[f + (p - f) - 1]
  BY <1>3, <1>4
<1>6. x[Len(x)] = Top(stack)
  BY <1>2, <1>4, <1>5, <1>a DEF Top
<1>7. x # <<>>
  BY <1>2, <1>4
<1> QED BY <1>1, <1>6, <1>7, <1>a

\* What a return does to the cells of the activation it returns to.
LEMMA CallersCells ==
  ASSUME FramesInv, disciplined, calls # <<>>,
         NEW c, c = calls[Len(calls)], ReturnedTo(c), NEW b, b = Base(c)
  PROVE  /\ b \in Nat
         /\ \A a \in 0 .. b - 1 : stack'.ops[a] = c.ops[a]
         /\ stack'.ops[b] = Top(stack) /\ stack'.sp = b + 1
<1>1. Len(calls) \in DOMAIN calls
  BY NonEmpty DEF FramesInv
<1>2. /\ Pending(Len(calls)) /\ c.frame \in Nat
      /\ b \in Nat /\ b <= c.frame - 8
  BY <1>1, BelowFloor
<1>3. \A a \in 0 .. b - 1 : stack.ops[a] = c.ops[a]
  BY <1>2 DEF Pending
<1>4. PICK f : f = c.frame
  OBVIOUS
<1>5. \A a \in 0 .. b - 1 : a \in 0 .. f - 1 /\ a # b
  BY <1>2, <1>4
<1>6. \A a \in 0 .. f - 1 : a # b => stack'.ops[a] = stack.ops[a]
  BY <1>4 DEF ReturnedTo
<1> QED BY <1>2, <1>3, <1>5, <1>6 DEF ReturnedTo

\* The caller goes on with what it kept and the value returned.
LEMMA CallerGoesOn ==
  ASSUME FramesInv, FramesInv', AbsMode = "run", AbsMode' = "run", FRet
  PROVE  \A n, q : n = Len(calls) /\ q = Waiting(calls[n], n) =>
           Live' = [q EXCEPT !.work = Append(q.work, Top(stack))]
<1>0. SUFFICES ASSUME NEW n, NEW q, n = Len(calls), q = Waiting(calls[n], n)
               PROVE  Live' = [q EXCEPT !.work = Append(q.work, Top(stack))]
  OBVIOUS
<1>1. /\ disciplined /\ status = "run" /\ status' = "run" /\ Inv /\ Ret
      /\ calls \in Seq(Snapshots) /\ Stacked
  BY DEF FramesInv, AbsMode, FRet, Orderly
<1>2. calls # <<>> /\ n \in DOMAIN calls /\ n \in Nat /\ n >= 1
  BY <1>0, <1>1, ReturnHasFrame, NonEmpty
<1>a. PICK c, r, b, v : c = calls[n] /\ r = c.reg /\ b = Base(c) /\ v = Top(stack)
  OBVIOUS
<1>3. ReturnedTo(c)
  BY <1>0, <1>1, <1>a, RetIs DEF Stopped
<1>4. /\ b \in Nat
      /\ \A a \in 0 .. b - 1 : stack'.ops[a] = c.ops[a]
      /\ stack'.ops[b] = v /\ stack'.sp = b + 1
  BY <1>0, <1>1, <1>2, <1>3, <1>a, CallersCells
<1>5. /\ r.arg \in Nat /\ r.arg_len \in Nat /\ r.lcl \in Nat /\ r.lcl_len \in Nat
      /\ r.arg + r.arg_len <= r.lcl
      /\ r.lcl + r.lcl_len <= b
      /\ n > 1 => r.lcl >= 8
  <2>1. Regs(n) = r /\ ActTop(n) = b
    BY <1>2, <1>a DEF Regs, ActTop
  <2>2. n \in 1 .. Len(calls) + 1
    BY <1>0, <1>2
  <2> QED BY <1>1, <2>1, <2>2, Layout
<1>6. reg' = r
  BY <1>3, <1>a DEF ReturnedTo
<1>7. calls' = <<>> <=> n = 1
  <2>1. Len(calls') = n - 1 /\ calls' \in Seq(Snapshots)
    <3>1. calls' = SubSeq(calls, 1, Len(calls) - 1)
      BY <1>1, <1>2 DEF FRet
    <3>2. Inv'
      BY DEF FramesInv
    <3> QED BY <1>0, <1>1, <1>2, <1>3, <1>a, <3>1, <3>2, RetStacked
  <2>2. n - 1 = 0 <=> n = 1
    BY <1>2
  <2> QED BY <2>1, <2>2, EmptySeq
<1>8. PICK f : f = r.lcl + r.lcl_len
  OBVIOUS
<1>9. f \in Nat /\ f <= b /\ Floor' = f
  BY <1>4, <1>5, <1>6, <1>8 DEF Floor
<1>10. /\ \A j \in 1 .. r.arg_len : stack'.ops[r.arg + j - 1] = c.ops[r.arg + j - 1]
       /\ \A j \in 1 .. r.lcl_len : stack'.ops[r.lcl + j - 1] = c.ops[r.lcl + j - 1]
       /\ \A j \in 1 .. b - f : stack'.ops[f + j - 1] = c.ops[f + j - 1]
  <2>1. /\ \A j \in 1 .. r.arg_len : r.arg + j - 1 \in 0 .. b - 1
        /\ \A j \in 1 .. r.lcl_len : r.lcl + j - 1 \in 0 .. b - 1
        /\ \A j \in 1 .. b - f : f + j - 1 \in 0 .. b - 1
    BY <1>4, <1>5, <1>8
  <2> QED BY <1>4, <2>1
<1>11. Live'.args = q.args
  <2>1. Live'.args = [j \in 1 .. r.arg_len |-> stack'.ops[r.arg + j - 1]]
    BY <1>6 DEF Live, Cells
  <2>2. q.args = [j \in 1 .. r.arg_len |-> c.ops[r.arg + j - 1]]
    BY <1>0, <1>a DEF Waiting
  <2> QED BY <1>10, <2>1, <2>2, Zenon
<1>12. Live'.locals = q.locals
  <2>1. Live'.locals = [j \in 1 .. r.lcl_len |-> stack'.ops[r.lcl + j - 1]]
    BY <1>6 DEF Live, Cells
  <2>2. q.locals = [j \in 1 .. r.lcl_len |-> c.ops[r.lcl + j - 1]]
    BY <1>0, <1>a DEF Waiting
  <2> QED BY <1>10, <2>1, <2>2, Zenon
<1>13. Live'.work = Append(q.work, v)
  <2>1. PICK l, x, t, g : /\ l = b - f /\ x = Live'.work /\ t = Append(q.work, v)
                          /\ g = q.work
    OBVIOUS
  <2>2. l \in Nat /\ b + 1 - f = l + 1 /\ f + (l + 1) - 1 = b
    BY <1>4, <1>9, <2>1
  <2>3. x = [j \in 1 .. l + 1 |-> stack'.ops[f + j - 1]]
    BY <1>4, <1>9, <2>1, <2>2 DEF Live, Cells
  <2>4. g = [j \in 1 .. l |-> c.ops[f + j - 1]]
    BY <1>0, <1>8, <1>a, <2>1 DEF Waiting
  <2>5. PICK S : S = {g[j] : j \in 1 .. l} \cup {v}
    OBVIOUS
  <2>6. g \in Seq(S) /\ Len(g) = l /\ v \in S
    <3>1. DOMAIN g = 1 .. l /\ g \in [1 .. l -> {g[j] : j \in 1 .. l}]
      BY <2>4
    <3>2. g \in Seq({g[j] : j \in 1 .. l}) /\ Len(g) = l
      BY <2>2, <3>1
    <3> QED BY <2>5, <3>2, SeqMonotonic
  <2>7. /\ t \in Seq(S) /\ Len(t) = l + 1 /\ t[l + 1] = v
        /\ \A j \in 1 .. l : t[j] = g[j]
    BY <2>1, <2>6, AppendFacts
  <2>8. \A j \in 1 .. l + 1 : x[j] = t[j]
    <3>1. \A j \in 1 .. l + 1 : j = l + 1 \/ j \in 1 .. l
      BY <2>2
    <3>2. l + 1 \in 1 .. l + 1 /\ \A j \in 1 .. l : j \in 1 .. l + 1
      BY <2>2
    <3>3. x[l + 1] = v
      BY <1>4, <2>2, <2>3, <3>2
    <3>4. \A j \in 1 .. l : x[j] = g[j]
      BY <1>10, <2>1, <2>3, <2>4, <3>2
    <3> QED BY <2>7, <3>1, <3>3, <3>4
  <2>9. x \in Seq(S) /\ Len(x) = l + 1
    <3>1. \A j \in 1 .. l + 1 : t[j] \in S
      BY <2>7
    <3>2. DOMAIN x = 1 .. l + 1 /\ x = [j \in 1 .. l + 1 |-> x[j]]
      BY <2>3
    <3>3. x \in [1 .. l + 1 -> S]
      BY <2>8, <3>1, <3>2
    <3> QED BY <2>2, <3>3
  <2> QED BY <2>1, <2>7, <2>8, <2>9, SeqEqual
<1>14. Live'.from = q.from /\ Live'.saved = q.saved
  <2>1. /\ Live'.from = IF n = 1 THEN <<>> ELSE << stack'.ops[r.lcl - 7], stack'.ops[r.lcl - 8] >>
        /\ Live'.saved = IF n = 1 THEN <<>> ELSE << stack'.ops[r.lcl - 2], stack'.ops[r.lcl - 1] >>
    BY <1>6, <1>7 DEF Live
  <2>2. /\ q.from = IF n = 1 THEN <<>> ELSE << c.ops[r.lcl - 7], c.ops[r.lcl - 8] >>
        /\ q.saved = IF n = 1 THEN <<>> ELSE << c.ops[r.lcl - 2], c.ops[r.lcl - 1] >>
    BY <1>0, <1>a DEF Waiting
  <2>3. ASSUME n # 1
        PROVE  /\ stack'.ops[r.lcl - 7] = c.ops[r.lcl - 7]
               /\ stack'.ops[r.lcl - 8] = c.ops[r.lcl - 8]
               /\ stack'.ops[r.lcl - 2] = c.ops[r.lcl - 2]
               /\ stack'.ops[r.lcl - 1] = c.ops[r.lcl - 1]
    <3>1. n > 1
      BY <1>2, <2>3
    <3>2. /\ r.lcl - 7 \in 0 .. b - 1 /\ r.lcl - 8 \in 0 .. b - 1
          /\ r.lcl - 2 \in 0 .. b - 1 /\ r.lcl - 1 \in 0 .. b - 1
      BY <1>4, <1>5, <3>1
    <3> QED BY <1>4, <3>2
  <2> QED BY <2>1, <2>2, <2>3
<1>15. Live' = [args |-> Live'.args, locals |-> Live'.locals, work |-> Live'.work,
                from |-> Live'.from, saved |-> Live'.saved]
  BY DEF Live
<1>16. q = [args |-> q.args, locals |-> q.locals, work |-> q.work,
            from |-> q.from, saved |-> q.saved]
  BY <1>0 DEF Waiting
<1>17. PICK t : t = Append(q.work, v)
  OBVIOUS
<1>18. [q EXCEPT !.work = t] = [args |-> q.args, locals |-> q.locals, work |-> t,
                                from |-> q.from, saved |-> q.saved]
  BY <1>16
<1> QED BY <1>11, <1>12, <1>13, <1>14, <1>15, <1>17, <1>18, <1>a, Zenon

LEMMA ReturnMaps ==
  ASSUME FramesInv, FramesInv', AbsMode = "run", AbsMode' = "run", FRet
  PROVE  Frames!AReturn
<1>1. /\ disciplined /\ status = "run" /\ status' = "run" /\ Inv /\ Inv' /\ Ret
      /\ calls \in Seq(Snapshots)
  BY DEF FramesInv, AbsMode, FRet
<1>a. PICK n, c : n = Len(calls) /\ c = calls[n]
  OBVIOUS
<1>2. calls # <<>> /\ n \in DOMAIN calls /\ n \in Nat /\ n >= 1 /\ DOMAIN calls = 1 .. n
  BY <1>1, <1>a, ReturnHasFrame, NonEmpty
<1>3. ReturnedTo(c)
  BY <1>1, <1>a, RetIs DEF Stopped
<1>4. /\ Len(calls') = n - 1 /\ calls' \in Seq(Snapshots)
      /\ \A i \in 1 .. n - 1 : calls'[i] = calls[i]
  <2>1. calls' = SubSeq(calls, 1, Len(calls) - 1)
    BY <1>1, <1>2 DEF FRet
  <2> QED BY <1>1, <1>2, <1>3, <1>a, <2>1, RetStacked
<1>b. PICK w, v, x, y, q : /\ w = Waits /\ v = Waits' /\ x = Live /\ y = Live'
                           /\ q = Waiting(c, n)
  OBVIOUS
<1>5. /\ Acts = Append(w, x) /\ Acts' = Append(v, y)
      /\ w \in Seq({w[i] : i \in DOMAIN calls}) /\ Len(w) = n
      /\ v \in Seq({v[i] : i \in DOMAIN calls'}) /\ Len(v) = n - 1
  BY <1>4, <1>a, <1>b, ActsAre, ActsAreNext
<1>6. PICK S : S = {w[i] : i \in DOMAIN calls} \cup {v[i] : i \in DOMAIN calls'}
                     \cup {q, x, y}
  OBVIOUS
<1>7. w \in Seq(S) /\ v \in Seq(S) /\ q \in S /\ x \in S /\ y \in S
  BY <1>5, <1>6, SeqMonotonic
<1>8. w = Append(v, q)
  <2>1. PICK t : t = Append(v, q)
    OBVIOUS
  <2>2. /\ t \in Seq(S) /\ Len(t) = n - 1 + 1 /\ t[n - 1 + 1] = q
        /\ \A i \in 1 .. n - 1 : t[i] = v[i]
    BY <1>5, <1>7, <2>1, AppendFacts
  <2>3. w = [i \in 1 .. n |-> Waiting(calls[i], i)]
    BY <1>2, <1>b DEF Waits
  <2>4. DOMAIN calls' = 1 .. n - 1
    BY <1>2, <1>4
  <2>5. v = [i \in 1 .. n - 1 |-> Waiting(calls'[i], i)]
    BY <1>b, <2>4 DEF Waits, Waiting, Base
  <2>6. \A i \in 1 .. n : w[i] = t[i]
    <3>1. n - 1 + 1 = n /\ n \in 1 .. n /\ \A i \in 1 .. n - 1 : i \in 1 .. n
      BY <1>2
    <3>2. \A i \in 1 .. n : i = n \/ i \in 1 .. n - 1
      BY <1>2
    <3>3. w[n] = q /\ t[n] = q
      BY <1>a, <1>b, <2>2, <2>3, <3>1
    <3>4. \A i \in 1 .. n - 1 : w[i] = v[i]
      BY <1>4, <2>3, <2>5, <3>1
    <3> QED BY <2>2, <3>2, <3>3, <3>4
  <2>7. Len(t) = n
    BY <1>2, <2>2
  <2> QED BY <1>5, <1>7, <2>1, <2>2, <2>6, <2>7, SeqEqual
<1>9. PICK s, t : s = Acts /\ t = Acts'
  OBVIOUS
<1>10. s = Append(Append(v, q), x) /\ t = Append(v, y)
  BY <1>5, <1>8, <1>9
<1>11. /\ Len(s) = Len(v) + 2 /\ s[Len(s)] = x /\ s[Len(s) - 1] = q
       /\ SubSeq(s, 1, Len(s) - 2) = v
  BY <1>7, <1>10, TwoLast
<1>12. t = v \o << y >>
  BY <1>7, <1>10, AppendedLast
<1>13. y = [q EXCEPT !.work = Append(q.work, Top(stack))]
  BY <1>a, <1>b, CallerGoesOn
<1>14. x.work # <<>> /\ x.work[Len(x.work)] = Top(stack)
  BY <1>1, <1>b, ReturnHasValue
<1>15. x.from = << c.fi, c.ei >> /\ x.saved = << c.ptr.this, c.ptr.that >>
  BY <1>2, <1>a, <1>b, LiveFacts
<1>16. fi' = c.fi /\ ei'[fi'] = c.ei + 1 /\ ptr' = c.ptr
  <2>1. c.fi \in Files
    BY <1>1, <1>2, <1>a, BelowFloor DEF Pending
  <2>2. ei \in [Files -> Nat]
    BY <1>1 DEF Inv, TypeOK
  <2> QED BY <1>3, <2>1, <2>2 DEF ReturnedTo
<1>17. << fi', ei'[fi'] >> = << x.from[1], x.from[2] + 1 >>
  BY <1>15, <1>16
<1>18. << ptr'.this, ptr'.that >> = x.saved
  BY <1>15, <1>16
<1>19. Len(s) > 1
  BY <1>2, <1>5, <1>11
<1>20. [q EXCEPT !.work = Append(@, x.work[Len(x.work)])] = y
  BY <1>13, <1>14
<1>21. /\ Len(Acts) > 1 /\ Acts[Len(Acts)] = x /\ Acts[Len(Acts) - 1] = q
       /\ Acts' = SubSeq(Acts, 1, Len(Acts) - 2) \o << y >>
  BY <1>9, <1>11, <1>12, <1>19, Zenon
<1> QED BY <1>14, <1>17, <1>18, <1>20, <1>21, Zenon
        DEF Frames!AReturn, Frames!Running, Frames!Caller, Frames!Below

LEMMA InitMaps == ASSUME FInit PROVE Frames!AInit
<1>1. /\ calls = <<>> /\ disciplined = TRUE /\ status = "run" /\ fi = 0 /\ ei[fi] \in Nat
      /\ reg.arg = 0 /\ reg.arg_len = 0 /\ reg.lcl = 0 /\ reg.lcl_len = 0
      /\ stack.sp = 0 /\ ptr.this \in Word /\ ptr.that \in Word
  <2>1. Inv
    BY InitInv DEF FInit
  <2> QED BY <2>1 DEF FInit, Init, Inv, TypeOK, NewStack
<1>2. AbsMode = "run"
  BY <1>1 DEF AbsMode
<1>3. FramesInv
  BY InitFrames
<1>4. Live = Frames!Act(<<>>, <<>>, <<>>, <<>>)
  <2>1. Floor = 0 /\ stack.sp - Floor = 0
    BY <1>1 DEF Floor
  <2>2. \A a : Cells(a, 0) = <<>>
    BY DEF Cells
  <2> QED BY <1>1, <2>1, <2>2 DEF Live, Frames!Act
<1>a. PICK w, x : w = Waits /\ x = Live
  OBVIOUS
<1>5. Acts = Append(w, x) /\ w \in Seq({w[i] : i \in DOMAIN calls}) /\ Len(w) = 0
  BY <1>1, <1>2, <1>3, <1>a, ActsAre
<1>6. w = <<>>
  BY <1>5, EmptySeq
<1>7. Acts = << x >>
  BY <1>5, <1>6
<1>8. << fi, ei[fi] >> \in Nat \X Nat /\ << ptr.this, ptr.that >> \in Word \X Word
  BY <1>1
<1> QED BY <1>2, <1>4, <1>7, <1>8, <1>a DEF Frames!AInit

\* A run that has stopped shows nothing more of itself.
LEMMA OverStutters ==
  ASSUME FramesInv, FNext, status # "run"
  PROVE  status' # "run" /\ disciplined' = disciplined /\ UNCHANGED <<fi, ei, ptr>>
<1>1. ~Call /\ ~Ret /\ ~Halt
  BY DEF Call, Ret, Halt, Executing
<1>2. FLocal
  BY <1>1 DEF FNext, FCall, FRet
<1>3. Skip
  BY <1>1, <1>2, LocalIs DEF FLocal, FramesInv
<1> QED BY <1>2, <1>3 DEF FLocal, Skip, SkipLine, SkipEof, Stop

LEMMA StepMaps ==
  ASSUME FramesInv, FramesInv', [FNext]_fvars
  PROVE  [Frames!ANext]_<<Acts, << fi, ei[fi] >>, << ptr.this, ptr.that >>, AbsMode>>
<1>1. CASE UNCHANGED fvars
  <2>1. /\ AbsMode' = AbsMode /\ Acts' = Acts
        /\ fi' = fi /\ ei' = ei /\ ptr' = ptr
    BY <1>1 DEF fvars, vars, AbsMode, Acts, ActOf, ActTop, Regs, Cells, Base
  <2> QED BY <2>1
<1>2. CASE FNext /\ ~disciplined
  <2>1. ~disciplined'
    BY <1>2 DEF FNext, FLocal, FCall, FRet
  <2> QED BY <1>2, <2>1 DEF AbsMode, Frames!ANext, Frames!ALost
<1>3. CASE FNext /\ disciplined /\ status # "run"
  <2>1. status' # "run" /\ disciplined' /\ fi' = fi /\ ei' = ei /\ ptr' = ptr
    BY <1>3, OverStutters
  <2>2. AbsMode = "over" /\ AbsMode' = "over"
    BY <1>3, <2>1 DEF AbsMode
  <2>3. Acts = <<>> /\ Acts' = <<>>
    BY <2>2 DEF Acts
  <2> QED BY <2>1, <2>2, <2>3
<1>4. ASSUME FNext, disciplined, status = "run"
      PROVE  Frames!ANext
  <2>1. AbsMode = "run"
    BY <1>4 DEF AbsMode
  <2>2. CASE ~disciplined'
    BY <2>1, <2>2 DEF AbsMode, Frames!ANext, Frames!ALose
  <2>3. CASE disciplined' /\ status' # "run"
    BY <2>1, <2>3 DEF AbsMode, Frames!ANext, Frames!AStop
  <2>4. CASE disciplined' /\ status' = "run"
    <3>1. AbsMode' = "run"
      BY <2>4 DEF AbsMode
    <3>2. CASE FLocal
      <4>1. calls' = calls /\ Local /\ Inv
        BY <3>2 DEF FLocal, FramesInv
      <4>2. ~Halt /\ ~Skip
        BY <2>4 DEF Halt, Skip, SkipLine, SkipEof, Stop
      <4>3. reg' = reg
        BY <4>1, <4>2, LocalIs DEF Moves, Stopped, Advanced, Jumped
      <4> QED BY <2>1, <3>1, <4>1, <4>3, LocalMaps DEF Frames!ANext
    <3>3. CASE FCall
      BY <2>1, <3>1, <3>3, CallMaps DEF Frames!ANext
    <3>4. CASE FRet
      BY <2>1, <3>1, <3>4, ReturnMaps DEF Frames!ANext
    <3> QED BY <1>4, <3>2, <3>3, <3>4 DEF FNext
  <2> QED BY <2>2, <2>3, <2>4
<1> QED BY <1>1, <1>2, <1>3, <1>4

\* The executor implements activations with a stack each, for every program:
\* until a call takes more arguments than its caller has or saves an address
\* that no Word holds, whatever the code of the functions, a call moves its arguments to a fresh activation with zeroed
\* locals (exec.c:539-600), nothing but a return changes the activations that
\* wait, and a return replaces the arguments by one value (exec.c:602-648).
THEOREM FramesImplementCallFrames == FSpec => ImplementsFrames
<1>1. FInit => Frames!AInit
  BY InitMaps
<1>2. FramesInv /\ FramesInv' /\ [FNext]_fvars
        => [Frames!ANext]_<<Acts, << fi, ei[fi] >>, << ptr.this, ptr.that >>, AbsMode>>
  BY StepMaps
<1> QED BY <1>1, <1>2, FramesAlways, PTL DEF FSpec, ImplementsFrames, Frames!ASpec, Frames!avars
=============================================================================
