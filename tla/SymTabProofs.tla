---------------------------- MODULE SymTabProofs ----------------------------
(***************************************************************************)
(* The symbol table never runs out of cells and answers for every symbol   *)
(* it took over, for every block size, hash function and number of keys;   *)
(* and until it is reallocated it is the map that st.h promises.           *)
(***************************************************************************)
EXTENDS SymTab, FiniteSetTheorems, WellFoundedInduction, TLAPS

-----------------------------------------------------------------------------
(* Numbers. *)

LEMMA FirstIsLeast ==
  ASSUME NEW S, S \subseteq Nat, S # {}
  PROVE  First(S) \in S /\ \A q \in S : First(S) <= q
<1> DEFINE T == {0 .. q : q \in S}
           R == StrictSubsetOrdering(Nat)
<1>1. IsWellFoundedOn(R, FiniteSubsetsOf(Nat))
  BY FS_StrictSubsetOrderingWellFounded
<1>2. T \subseteq FiniteSubsetsOf(Nat) /\ T # {}
  <2>1. ASSUME NEW q \in S
        PROVE  0 .. q \in FiniteSubsetsOf(Nat)
    <3>1. IsFiniteSet(0 .. q)
      BY FS_Interval
    <3>2. 0 .. q \in SUBSET Nat
      OBVIOUS
    <3> QED BY <3>1, <3>2 DEF FiniteSubsetsOf
  <2> QED BY <2>1
<1> HIDE DEF R, T
<1>3. PICK x \in T : \A y \in T : <<y, x>> \notin R
  BY <1>1, <1>2, WFMin
<1>4. PICK p \in S : x = 0 .. p
  BY DEF T
<1>5. ASSUME NEW q \in S
      PROVE  p <= q
  <2> SUFFICES ASSUME q < p PROVE FALSE
    OBVIOUS
  <2>1. /\ (0 .. q) \subseteq (0 .. p) /\ (0 .. p) \subseteq Nat
        /\ p \in 0 .. p /\ p \notin 0 .. q
    OBVIOUS
  <2>2. <<0 .. q, 0 .. p>> \in R
    BY <2>1 DEF R, StrictSubsetOrdering
  <2> QED BY <2>2, <1>3, <1>4 DEF T
<1> QED BY <1>5 DEF First

LEMMA RemainderIs ==
  ASSUME NEW n \in Nat, NEW r \in 0 .. n - 1, NEW q \in Int
  PROVE  (n * q + r) % n = r
  BY SMT

LEMMA WrapsAround ==
  ASSUME NEW n \in Nat, NEW d \in 0 .. n - 1, NEW p \in 0 .. n - 1
  PROVE  (d + p) % n = IF d + p < n THEN d + p ELSE d + p - n
<1>1. CASE d + p < n
  BY <1>1
<1>2. CASE ~(d + p < n)
  <2> DEFINE r == d + p - n
  <2>1. d + p = n * 1 + r /\ r \in 0 .. n - 1
    BY <1>2
  <2> HIDE DEF r
  <2>2. (n * 1 + r) % n = r
    BY <2>1, RemainderIs
  <2> QED BY <1>2, <2>1, <2>2 DEF r
<1> QED BY <1>1, <1>2

-----------------------------------------------------------------------------
(* Probing. *)

\* The lengths a table can have.
Length == Block + 1 .. MaxLen

LEMMA IndexInside ==
  ASSUME hash \in Hashes, NEW key \in Keys, NEW n \in Length
  PROVE  DelimHash(hash[key], n - 1) \in 0 .. n - 1
<1>1. hash[key] \in 0 .. 2^HashBits - 1
  BY HashAssumption
<1>2. n - 1 \in Block .. MaxLen - 1
  BY BlockAssumption, IndexAssumption DEF Length
<1>3. DelimHash(hash[key], n - 1) \in 0 .. (n - 1) - 1
  BY <1>1, <1>2, IndexAssumption
<1> HIDE DEF DelimHash
<1> QED BY <1>2, <1>3, BlockAssumption, IndexAssumption

\* The probes of a key meet every cell, and each of them once.
LEMMA ProbeIsBijection ==
  ASSUME hash \in Hashes, NEW key \in Keys, NEW n \in Length
  PROVE  /\ Probe(key, n) \in [0 .. n - 1 -> 0 .. n - 1]
         /\ \A p, q \in 0 .. n - 1 : Probe(key, n)[p] = Probe(key, n)[q] => p = q
         /\ \A i \in 0 .. n - 1 : \E p \in 0 .. n - 1 : Probe(key, n)[p] = i
<1> DEFINE d == DelimHash(hash[key], n - 1)
<1>1. n \in Nat /\ d \in 0 .. n - 1
  BY IndexInside, BlockAssumption, IndexAssumption DEF Length
<1>2. \A p \in 0 .. n - 1 : Probe(key, n)[p] = (d + p) % n
  BY DEF Probe
<1>a. DOMAIN Probe(key, n) = 0 .. n - 1 /\ Probe(key, n) = [p \in 0 .. n - 1 |-> Probe(key, n)[p]]
  BY DEF Probe
<1> HIDE DEF d
<1>3. \A p \in 0 .. n - 1 :
        Probe(key, n)[p] = IF d + p < n THEN d + p ELSE d + p - n
  BY <1>1, <1>2, WrapsAround
<1>4. \A p \in 0 .. n - 1 : Probe(key, n)[p] \in 0 .. n - 1
  BY <1>1, <1>3
<1>5. \A p, q \in 0 .. n - 1 : Probe(key, n)[p] = Probe(key, n)[q] => p = q
  BY <1>1, <1>3
<1>6. ASSUME NEW i \in 0 .. n - 1
      PROVE  \E p \in 0 .. n - 1 : Probe(key, n)[p] = i
  <2> DEFINE p == IF i >= d THEN i - d ELSE i - d + n
  <2>1. p \in 0 .. n - 1 /\ i = IF d + p < n THEN d + p ELSE d + p - n
    BY <1>1
  <2> QED BY <2>1, <1>3
<1> QED BY <1>a, <1>4, <1>5, <1>6

-----------------------------------------------------------------------------
(* The cells. *)

Cells(n) == [0 .. n - 1 -> Symbol \cup {Unused}]

LEMMA SymbolIs ==
  ASSUME NEW c \in Symbol
  PROVE  c # Unused /\ KeyOf(c) \in Keys /\ ValOf(c) \in Vals
  BY DEF Symbol, Unused, KeyOf, ValOf

LEMMA HeldIs ==
  ASSUME NEW c \in Symbol \cup {Unused}, NEW key, Holds(key, c)
  PROVE  c \in Symbol /\ key \in Keys /\ ValOf(c) \in Vals
  BY SymbolIs DEF Holds

\* The cells `insert_st` works on are those there were, with new ones if it
\* has to grow the table.
LEMMA ExtendedIs ==
  ASSUME TypeOK, Capacity <= MaxLen
  PROVE  /\ Capacity \in Length /\ len <= Capacity
         /\ Extended \in Cells(Capacity)
         /\ {i \in DOMAIN Extended : Extended[i] # Unused} = Occupied
<1>1. len \in Nat /\ Block \in Nat /\ MaxLen \in Nat /\ cell \in Cells(len)
  BY BlockAssumption, IndexAssumption DEF TypeOK, Cells
<1>2. Capacity \in Length /\ len <= Capacity
  BY <1>1 DEF TypeOK, Capacity, Length
<1>3. \A i \in 0 .. Capacity - 1 :
        Extended[i] = IF i < len THEN cell[i] ELSE Unused
  BY DEF Extended
<1>4. Extended \in Cells(Capacity)
  <2>1. ASSUME NEW i \in 0 .. Capacity - 1
        PROVE  (IF i < len THEN cell[i] ELSE Unused) \in Symbol \cup {Unused}
    BY <1>1, <1>2 DEF Cells, Length
  <2> QED BY <2>1 DEF Extended, Cells
<1>5. {i \in DOMAIN Extended : Extended[i] # Unused} = Occupied
  <2>1. DOMAIN Extended = 0 .. Capacity - 1 /\ DOMAIN cell = 0 .. len - 1
    BY <1>1 DEF Extended, Cells
  <2>2. 0 .. len - 1 \subseteq 0 .. Capacity - 1
    BY <1>1, <1>2 DEF Length
  <2>3. \A i \in 0 .. Capacity - 1 : i < len <=> i \in 0 .. len - 1
    BY <1>1, <1>2 DEF Length
  <2> QED BY <1>3, <2>1, <2>2, <2>3 DEF Occupied
<1> QED BY <1>2, <1>4, <1>5

LEMMA OccupiedIsFinite ==
  ASSUME TypeOK
  PROVE  /\ Occupied \subseteq 0 .. len - 1
         /\ IsFiniteSet(Occupied) /\ used \in Nat
         /\ Cardinality(0 .. len - 1) = len /\ IsFiniteSet(0 .. len - 1)
<1>1. len \in Nat /\ len > 0
  BY BlockAssumption, IndexAssumption DEF TypeOK
<1>2. Occupied \in SUBSET (0 .. len - 1)
  BY DEF TypeOK, Occupied
<1>3. IsFiniteSet(0 .. len - 1) /\ Cardinality(0 .. len - 1) = len
  BY <1>1, FS_Interval
<1>4. IsFiniteSet(Occupied)
  BY <1>2, <1>3, FS_Subset
<1>5. used \in Nat
  BY <1>4, FS_CardinalityType DEF TypeOK
<1> QED BY <1>2, <1>3, <1>4, <1>5

\* "insert_st allocated enough memory for the symbol table to have at least a
\* single free entry."
LEMMA FreeCell ==
  ASSUME TypeOK, Capacity <= MaxLen
  PROVE  \E i \in 0 .. Capacity - 1 : Extended[i] = Unused
<1>1. len \in Nat /\ Block \in Nat /\ Block > 0 /\ used \in Nat
  BY BlockAssumption, IndexAssumption, OccupiedIsFinite DEF TypeOK
<1>2. CASE Full
  <2>1. len \in 0 .. Capacity - 1
    BY <1>1, <1>2 DEF Capacity
  <2> QED BY <1>1, <2>1 DEF Extended
<1>3. CASE ~Full
  <2>1. used < len /\ Capacity = len
    BY <1>1, <1>3 DEF Full, Capacity
  <2>2. Occupied # 0 .. len - 1
    BY <1>1, <2>1, OccupiedIsFinite DEF TypeOK
  <2>3. PICK i \in 0 .. len - 1 : i \notin Occupied
    BY <2>2, OccupiedIsFinite
  <2>4. cell[i] = Unused
    BY <2>3 DEF Occupied, TypeOK
  <2> QED BY <1>1, <2>1, <2>3, <2>4 DEF Extended
<1> QED BY <1>2, <1>3

\* Where the two loops stop: at the first probe that meets a free cell or
\* one with the key.
LEMMA InsertStops ==
  ASSUME TypeOK, Capacity <= MaxLen, NEW key \in Keys
  PROVE  \E P \in 0 .. Capacity - 1 :
           /\ InsertAt(key) = Probe(key, Capacity)[P]
           /\ InsertAt(key) \in 0 .. Capacity - 1
           /\ Extended[InsertAt(key)] = Unused \/ Holds(key, Extended[InsertAt(key)])
           /\ \A q \in 0 .. P - 1 :
                /\ Extended[Probe(key, Capacity)[q]] # Unused
                /\ ~Holds(key, Extended[Probe(key, Capacity)[q]])
<1> DEFINE At(p) == Extended[Probe(key, Capacity)[p]]
           S == {p \in 0 .. Capacity - 1 : At(p) = Unused \/ Holds(key, At(p))}
           P == First(S)
<1>1. Capacity \in Length /\ Capacity \in Nat /\ hash \in Hashes
  BY ExtendedIs, BlockAssumption, IndexAssumption DEF TypeOK, Length
<1>2. /\ Probe(key, Capacity) \in [0 .. Capacity - 1 -> 0 .. Capacity - 1]
      /\ \A i \in 0 .. Capacity - 1 :
           \E p \in 0 .. Capacity - 1 : Probe(key, Capacity)[p] = i
  BY <1>1, ProbeIsBijection
<1>3. InsertAt(key) = Probe(key, Capacity)[P]
  BY DEF InsertAt, Hits
<1>4. S # {} /\ S \subseteq Nat
  <2>1. PICK i \in 0 .. Capacity - 1 : Extended[i] = Unused
    BY FreeCell
  <2>2. PICK p \in 0 .. Capacity - 1 : Probe(key, Capacity)[p] = i
    BY <1>2, <2>1
  <2>3. p \in S
    BY <2>1, <2>2
  <2>4. 0 .. Capacity - 1 \subseteq Nat
    BY <1>1
  <2> QED BY <2>3, <2>4
<1> HIDE DEF S
<1>5. P \in S /\ \A q \in S : P <= q
  BY <1>4, FirstIsLeast
<1> HIDE DEF P
<1>6. P \in 0 .. Capacity - 1 /\ (At(P) = Unused \/ Holds(key, At(P)))
  BY <1>5 DEF S
<1>7. \A q \in 0 .. P - 1 : At(q) # Unused /\ ~Holds(key, At(q))
  <2> SUFFICES ASSUME NEW q \in 0 .. P - 1
               PROVE  q \notin S /\ q \in 0 .. Capacity - 1
    BY DEF S
  <2> QED BY <1>1, <1>5, <1>6
<1> QED BY <1>2, <1>3, <1>6, <1>7, ZenonT(60)

\* What `get_st` finds is the symbol of the key.
LEMMA LookupIs ==
  ASSUME TypeOK, NEW key \in Keys, Found(key) # {}
  PROVE  \E p \in 0 .. len - 1 :
           /\ Holds(key, cell[Probe(key, len)[p]])
           /\ Lookup(key) = ValOf(cell[Probe(key, len)[p]])
           /\ Lookup(key) \in Vals
<1>1. len \in Length /\ len \in Nat /\ hash \in Hashes
  BY BlockAssumption, IndexAssumption DEF TypeOK, Length
<1>2. Found(key) = {p \in 0 .. len - 1 : Holds(key, cell[Probe(key, len)[p]])}
  BY DEF Found, Hits
<1>3. First(Found(key)) \in Found(key)
  <2>1. Found(key) \subseteq Nat
    BY <1>1, <1>2
  <2> HIDE DEF Found
  <2> QED BY <2>1, FirstIsLeast
<1>4. Probe(key, len)[First(Found(key))] \in 0 .. len - 1
  <2>1. First(Found(key)) \in 0 .. len - 1
    BY <1>2, <1>3
  <2>2. Probe(key, len) \in [0 .. len - 1 -> 0 .. len - 1]
    BY <1>1, ProbeIsBijection
  <2> HIDE DEF Found
  <2> QED BY <2>1, <2>2
<1>5. cell[Probe(key, len)[First(Found(key))]] \in Symbol \cup {Unused}
  BY <1>4 DEF TypeOK
<1>6. Holds(key, cell[Probe(key, len)[First(Found(key))]])
  BY <1>2, <1>3
<1> QED BY <1>2, <1>3, <1>5, <1>6, HeldIs DEF Lookup

-----------------------------------------------------------------------------
(* The type invariant. *)

LEMMA InitTyped ==
  ASSUME Init
  PROVE  TypeOK
<1>1. Occupied = {}
  BY DEF Init, Occupied
<1>2. used = Cardinality(Occupied)
  BY <1>1, FS_EmptySet DEF Init
<1>3. len \in Block + 1 .. MaxLen
  BY BlockAssumption, IndexAssumption DEF Init
<1> QED BY <1>2, <1>3 DEF Init, TypeOK

LEMMA InsertTyped ==
  ASSUME TypeOK, NEW key \in Keys, NEW val \in Vals, Insert(key, val)
  PROVE  TypeOK'
<1> DEFINE i == InsertAt(key)
<1>1. /\ Capacity <= MaxLen /\ len' = Capacity /\ hash' = hash /\ hash \in Hashes
      /\ used = Cardinality(Occupied)
  BY DEF Insert, TypeOK
<1>2. Capacity \in Length /\ Extended \in Cells(Capacity)
  BY <1>1, ExtendedIs
<1>3. len' \in Block + 1 .. MaxLen
  BY <1>1, <1>2 DEF Length
<1>4. i \in 0 .. Capacity - 1
  BY <1>1, InsertStops
<1>5. {j \in DOMAIN Extended : Extended[j] # Unused} = Occupied
  BY <1>1, ExtendedIs
<1> HIDE DEF i
<1>6. CASE /\ Extended[i] = Unused /\ Occupy(i, key, val) /\ answer' = <<"OK">>
           /\ accepted' = accepted \cup {<<key, val>>}
  <2>1. <<key, val>> \in Symbol /\ <<key, val>> # Unused
    BY SymbolIs DEF Symbol
  <2>2. cell' = [Extended EXCEPT ![i] = <<key, val>>] /\ used' = used + 1
    BY <1>6 DEF Occupy
  <2>3. cell' \in Cells(len')
    BY <1>1, <1>2, <2>1, <2>2 DEF Cells
  <2>4. Occupied' = Occupied \cup {i} /\ i \notin Occupied
    <3>1. DOMAIN cell' = DOMAIN Extended /\ i \in DOMAIN Extended
      BY <1>2, <1>4, <2>2 DEF Cells
    <3>2. \A j \in DOMAIN Extended :
            cell'[j] = IF j = i THEN <<key, val>> ELSE Extended[j]
      BY <2>2
    <3> QED BY <1>5, <1>6, <2>1, <3>1, <3>2 DEF Occupied
  <2>5. used' = Cardinality(Occupied')
    BY <1>1, <2>2, <2>4, OccupiedIsFinite, FS_AddElement
  <2>6. accepted' \subseteq Symbol
    BY <1>6, <2>1 DEF TypeOK
  <2> QED BY <1>1, <1>3, <1>6, <2>3, <2>5, <2>6 DEF TypeOK, Cells
<1>7. CASE /\ cell' = Extended /\ used' = used /\ answer' \in {<<"EXISTS">>, <<"abort">>}
           /\ accepted' = accepted
  <2>1. Occupied' = Occupied
    BY <1>5, <1>7 DEF Occupied
  <2> QED BY <1>1, <1>2, <1>3, <1>7, <2>1 DEF TypeOK, Cells
<1> QED BY <1>6, <1>7 DEF Insert, Refuse, i

LEMMA GetTyped ==
  ASSUME TypeOK, NEW key \in Keys, Get(key)
  PROVE  TypeOK'
<1>1. /\ UNCHANGED <<hash, cell, len, used, accepted>>
      /\ answer' = IF Found(key) = {} THEN <<"ERR">> ELSE <<"FOUND", Lookup(key)>>
  BY DEF Get
<1>2. Found(key) # {} => Lookup(key) \in Vals
  BY LookupIs
<1>3. Occupied' = Occupied
  BY <1>1 DEF Occupied
<1> QED BY <1>1, <1>2, <1>3 DEF TypeOK

LEMMA StepTyped ==
  ASSUME TypeOK, [Next]_vars
  PROVE  TypeOK'
<1>1. CASE UNCHANGED vars
  BY <1>1 DEF vars, TypeOK, Occupied
<1> QED BY <1>1, InsertTyped, GetTyped DEF Next

\* The number of cells in use is right in every state of `insert_st`, and the
\* cells are symbols.
THEOREM TableTyped == Spec => []TypeOK
<1>1. Init => TypeOK
  BY InitTyped
<1>2. TypeOK /\ [Next]_vars => TypeOK'
  BY StepTyped
<1> QED BY <1>1, <1>2, PTL DEF Spec

\* The claim at the assertion of `insert_st`: the two loops find a free cell
\* for every symbol that is not in the table.
THEOREM AlwaysRoom == Spec => []AssertionOnlyOnRepeat
<1>1. TypeOK => AssertionOnlyOnRepeat
  <2> SUFFICES ASSUME TypeOK, NEW key \in Keys, Capacity <= MaxLen
               PROVE  \E p \in 0 .. Capacity - 1 :
                        Extended[Probe(key, Capacity)[p]] = Unused
    BY DEF AssertionOnlyOnRepeat
  <2>1. PICK i \in 0 .. Capacity - 1 : Extended[i] = Unused
    BY FreeCell
  <2>2. PICK p \in 0 .. Capacity - 1 : Probe(key, Capacity)[p] = i
    BY <2>1, ExtendedIs, ProbeIsBijection DEF TypeOK
  <2> QED BY <2>1, <2>2
<1> QED BY <1>1, TableTyped, PTL

LEMMA HeldIsFound ==
  ASSUME TypeOK, NEW i \in Occupied
  PROVE  /\ KeyOf(cell[i]) \in Keys /\ Holds(KeyOf(cell[i]), cell[i])
         /\ Found(KeyOf(cell[i])) # {}
<1>1. i \in 0 .. len - 1 /\ cell[i] \in Symbol
  BY DEF Occupied, TypeOK
<1>2. KeyOf(cell[i]) \in Keys /\ Holds(KeyOf(cell[i]), cell[i])
  BY <1>1, SymbolIs DEF Holds
<1>3. PICK p \in 0 .. len - 1 : Probe(KeyOf(cell[i]), len)[p] = i
  BY <1>1, <1>2, ProbeIsBijection DEF TypeOK, Length
<1>4. p \in Found(KeyOf(cell[i]))
  BY <1>2, <1>3 DEF Found, Hits
<1> QED BY <1>2, <1>4

\* The strengthening: what was taken over is what the cells hold, no more and no
\* less.
AcceptedStored == accepted = {cell[i] : i \in Occupied}

\* Growing keeps the cells where they are, and a symbol that is taken over is put
\* into a free one.
LEMMA InsertStores ==
  ASSUME TypeOK, AcceptedStored, NEW key \in Keys, NEW val \in Vals, Insert(key, val)
  PROVE  AcceptedStored'
<1> DEFINE i == InsertAt(key)
           s == <<key, val>>
<1>1. Capacity <= MaxLen
  BY DEF Insert
<1>2. /\ Extended \in Cells(Capacity) /\ len <= Capacity /\ len \in Nat
      /\ {j \in DOMAIN Extended : Extended[j] # Unused} = Occupied
  BY <1>1, ExtendedIs, BlockAssumption, IndexAssumption DEF TypeOK
<1>3. i \in 0 .. Capacity - 1
  BY <1>1, InsertStops
<1>4. \A j \in Occupied : j \in DOMAIN Extended /\ Extended[j] = cell[j]
  <2> SUFFICES ASSUME NEW j \in Occupied
               PROVE  j \in DOMAIN Extended /\ Extended[j] = cell[j]
    OBVIOUS
  <2>1. j \in 0 .. len - 1 /\ j \in DOMAIN Extended
    BY <1>2, OccupiedIsFinite
  <2> QED BY <1>2, <2>1 DEF Extended
<1> HIDE DEF i, s
<1>5. CASE /\ Extended[i] = Unused /\ cell' = [Extended EXCEPT ![i] = s]
           /\ accepted' = accepted \cup {s}
  <2>1. s # Unused
    BY SymbolIs DEF s, Symbol
  <2>2. /\ DOMAIN cell' = DOMAIN Extended /\ i \in DOMAIN Extended
        /\ \A j \in DOMAIN Extended : cell'[j] = IF j = i THEN s ELSE Extended[j]
    BY <1>2, <1>3, <1>5 DEF Cells
  <2>3. Occupied' = Occupied \cup {i} /\ i \notin Occupied
    BY <1>2, <1>5, <2>1, <2>2 DEF Occupied
  <2>4. cell'[i] = s /\ \A j \in Occupied : cell'[j] = cell[j]
    BY <1>4, <2>2, <2>3
  <2>5. {cell'[j] : j \in Occupied'} = {cell[j] : j \in Occupied} \cup {s}
    BY <2>3, <2>4
  <2> QED BY <1>5, <2>5 DEF AcceptedStored
<1>6. CASE cell' = Extended /\ accepted' = accepted
  <2>1. Occupied' = Occupied /\ \A j \in Occupied : cell'[j] = cell[j]
    BY <1>2, <1>4, <1>6 DEF Occupied
  <2> QED BY <1>6, <2>1 DEF AcceptedStored
<1>7. \/ /\ Extended[i] = Unused /\ cell' = [Extended EXCEPT ![i] = s]
         /\ accepted' = accepted \cup {s}
      \/ cell' = Extended /\ accepted' = accepted
  BY DEF Insert, Occupy, Refuse, i, s
<1> QED BY <1>5, <1>6, <1>7

\* What is found is a symbol of the table.
LEMMA FoundIsStored ==
  ASSUME TypeOK, NEW key \in Keys, Found(key) # {}
  PROVE  \E i \in Occupied : cell[i] = <<key, Lookup(key)>>
<1>1. PICK p \in 0 .. len - 1 :
        /\ Holds(key, cell[Probe(key, len)[p]])
        /\ Lookup(key) = ValOf(cell[Probe(key, len)[p]])
  BY LookupIs
<1> DEFINE i == Probe(key, len)[p]
<1>2. i \in 0 .. len - 1
  <2>1. hash \in Hashes /\ len \in Length
    BY DEF TypeOK, Length
  <2> QED BY <2>1, ProbeIsBijection, ZenonT(60)
<1> HIDE DEF i, Lookup
<1>3. cell[i] \in Symbol /\ i \in Occupied
  BY <1>1, <1>2 DEF TypeOK, Occupied, Holds, i
<1>4. cell[i] = <<key, Lookup(key)>>
  BY <1>1, <1>3 DEF Symbol, Holds, KeyOf, ValOf, i
<1> QED BY <1>3, <1>4

\* Every symbol that `insert_st` took over is found by `get_st`, however often the
\* table has grown, and with a value that was taken over for its key.
THEOREM EverySymbolFound == Spec => []NothingLost
<1>1. Init => AcceptedStored
  BY DEF Init, AcceptedStored, Occupied
<1>2. TypeOK /\ AcceptedStored /\ [Next]_vars => AcceptedStored'
  <2>1. CASE UNCHANGED vars
    BY <2>1 DEF vars, AcceptedStored, Occupied
  <2>2. ASSUME NEW key \in Keys, AcceptedStored, Get(key)
        PROVE  AcceptedStored'
    BY <2>2 DEF Get, AcceptedStored, Occupied
  <2> QED BY <2>1, <2>2, InsertStores DEF Next
<1>3. TypeOK /\ AcceptedStored => NothingLost
  <2> SUFFICES ASSUME TypeOK, AcceptedStored PROVE NothingLost
    OBVIOUS
  <2>1. \A symbol \in accepted : \E i \in Occupied : symbol = cell[i]
    BY DEF AcceptedStored
  <2>2. ASSUME NEW key \in Keys, Found(key) # {}
        PROVE  <<key, Lookup(key)>> \in accepted
    BY <2>2, FoundIsStored DEF AcceptedStored
  <2> QED BY <2>1, <2>2, HeldIsFound DEF NothingLost
<1> QED BY <1>1, <1>2, <1>3, TableTyped, PTL DEF Spec

-----------------------------------------------------------------------------
(* The map, until the table is reallocated. *)

At(key, p) == cell[Probe(key, len)[p]]

\* The strengthening: on the way to a symbol there is no free cell and no
\* other cell with its key.  The first reallocation ends it, because then the
\* keys are probed from elsewhere.
WayIntact ==
  \A key \in Keys, p \in 0 .. len - 1 :
    Holds(key, At(key, p)) =>
      \A q \in 0 .. p - 1 : At(key, q) # Unused /\ ~Holds(key, At(key, q))

IInv == TypeOK /\ (~Reallocated => WayIntact)

\* A key is met once, and what is met there is what `get_st` answers.
LEMMA MetOnce ==
  ASSUME TypeOK, WayIntact, NEW key \in Keys, NEW p \in 0 .. len - 1,
         Holds(key, At(key, p))
  PROVE  /\ Found(key) = {p}
         /\ Lookup(key) = ValOf(At(key, p))
<1>1. len \in Nat
  BY BlockAssumption, IndexAssumption DEF TypeOK
<1>2. \A q \in 0 .. len - 1 : Holds(key, At(key, q)) => q = p
  BY <1>1 DEF WayIntact
<1>3. Found(key) = {q \in 0 .. len - 1 : Holds(key, At(key, q))}
  BY DEF Found, Hits, At
<1>4. Found(key) = {p}
  BY <1>2, <1>3
<1> HIDE DEF Found
<1>5. First({p}) = p
  BY <1>1 DEF First
<1> QED BY <1>4, <1>5 DEF Lookup, At

\* The keys of the table are those that are found.
LEMMA TableIs ==
  ASSUME TypeOK, ~Reallocated
  PROVE  Table = [key \in {k \in Keys : Found(k) # {}} |-> Lookup(key)]
<1>1. {KeyOf(cell[i]) : i \in {j \in Occupied : ~Reallocated}}
        = {k \in Keys : Found(k) # {}}
  <2>1. ASSUME NEW i \in Occupied
        PROVE  KeyOf(cell[i]) \in Keys /\ Found(KeyOf(cell[i])) # {}
    BY HeldIsFound
  <2>2. ASSUME NEW k \in Keys, Found(k) # {}
        PROVE  \E i \in Occupied : KeyOf(cell[i]) = k
    <3>1. PICK p \in 0 .. len - 1 : Holds(k, cell[Probe(k, len)[p]])
      BY <2>2, LookupIs
    <3>2. Probe(k, len)[p] \in 0 .. len - 1
      <4>1. hash \in Hashes /\ len \in Length
        BY DEF TypeOK, Length
      <4> QED BY <4>1, ProbeIsBijection, ZenonT(60)
    <3>3. Probe(k, len)[p] \in Occupied
      BY <3>1, <3>2 DEF Occupied, TypeOK, Holds
    <3> QED BY <3>1, <3>3 DEF Holds
  <2> HIDE DEF Found
  <2> QED BY <2>1, <2>2
<1> QED BY <1>1 DEF Table

LEMMA TableIsNext ==
  (TypeOK /\ ~Reallocated
     => Table = [key \in {k \in Keys : Found(k) # {}} |-> Lookup(key)])'
<1>1. TypeOK /\ ~Reallocated
        => Table = [key \in {k \in Keys : Found(k) # {}} |-> Lookup(key)]
  BY TableIs
<1> QED BY <1>1, PTL

\* After a reallocation nothing is promised.
LEMMA LostIs ==
  ASSUME Reallocated
  PROVE  Table = Map!NoKeys /\ TableAnswer = <<"none">>
<1>1. {KeyOf(cell[i]) : i \in {j \in Occupied : ~Reallocated}} = {}
  OBVIOUS
<1> QED BY <1>1 DEF Table, TableAnswer, Map!NoKeys

LEMMA LostAfter ==
  ASSUME Reallocated'
  PROVE  Table' = Map!NoKeys /\ TableAnswer' = <<"none">>
<1>1. {KeyOf(cell[i]) : i \in {j \in Occupied : ~Reallocated}}' = {}
  OBVIOUS
<1> QED BY <1>1 DEF Table, TableAnswer, Map!NoKeys

LEMMA LengthGrows ==
  ASSUME TypeOK, Next, Reallocated
  PROVE  Reallocated'
<1>1. len' = len \/ len' = len + Block
  BY DEF Next, Get, Insert, Capacity
<1>2. len \in Nat /\ Block \in Nat
  BY BlockAssumption, IndexAssumption DEF TypeOK
<1> QED BY <1>1, <1>2 DEF Reallocated

\* The table has grown with this call.
LEMMA GrowthLoses ==
  ASSUME TypeOK, NEW key \in Keys, NEW val \in Vals, Insert(key, val), Capacity # len
  PROVE  Reallocated'
<1>1. len' = len + Block /\ len \in Nat /\ Block \in Nat /\ len >= Block + 1 /\ Block >= 4
  BY BlockAssumption, IndexAssumption DEF TypeOK, Insert, Capacity
<1> QED BY <1>1 DEF Reallocated

LEMMA NoGrowth ==
  ASSUME TypeOK, Capacity = len
  PROVE  Extended = cell
<1>1. len \in Nat /\ cell \in Cells(len)
  BY BlockAssumption, IndexAssumption DEF TypeOK, Cells
<1>2. \A i \in 0 .. len - 1 : Extended[i] = cell[i]
  BY <1>1 DEF Extended
<1> QED BY <1>1, <1>2 DEF Extended, Cells

\* A symbol that takes a free cell, all cells before it being others'.
LEMMA OccupyKeepsWay ==
  ASSUME TypeOK, WayIntact, ~Reallocated,
         NEW key \in Keys, NEW val \in Vals, NEW P \in 0 .. len - 1,
         At(key, P) = Unused,
         \A q \in 0 .. P - 1 : At(key, q) # Unused /\ ~Holds(key, At(key, q)),
         cell' = [cell EXCEPT ![Probe(key, len)[P]] = <<key, val>>],
         len' = len, hash' = hash
  PROVE  /\ Found(key) = {}
         /\ Found(key)' = {P} /\ Lookup(key)' = val
         /\ \A k \in Keys \ {key} : Found(k)' = Found(k)
         /\ \A k \in Keys \ {key} : Found(k) # {} => Lookup(k)' = Lookup(k)
         /\ WayIntact'
<1> DEFINE i == Probe(key, len)[P]
           s == <<key, val>>
<1>1. len \in Nat /\ len \in Length /\ hash \in Hashes /\ cell \in Cells(len)
  BY BlockAssumption, IndexAssumption DEF TypeOK, Length, Cells
<1>2. \A k \in Keys : Probe(k, len)' = Probe(k, len)
  BY DEF Probe
<1>3. \A k \in Keys : \A p \in 0 .. len - 1 : Probe(k, len)[p] \in 0 .. len - 1
  BY <1>1, ProbeIsBijection
<1>4. \A p \in 0 .. len - 1 : Probe(key, len)[p] = i <=> p = P
  BY <1>1, ProbeIsBijection
<1> HIDE DEF i
<1>5. i \in 0 .. len - 1 /\ cell[i] = Unused /\ cell' = [cell EXCEPT ![i] = s]
  BY <1>3 DEF At, i
<1>6. s # Unused /\ (\A k : Holds(k, s) <=> k = key) /\ ValOf(s) = val
  BY SymbolIs DEF Holds, KeyOf, ValOf, Symbol
<1> HIDE DEF s
<1>7. \A k \in Keys : \A p \in 0 .. len - 1 :
        At(k, p)' = IF Probe(k, len)[p] = i THEN s ELSE At(k, p)
  BY <1>1, <1>2, <1>3, <1>5, SMTT(60) DEF At, Cells
<1>8. \A k : ~Holds(k, Unused)
  BY DEF Holds
<1>9. \A k \in Keys : \A p \in 0 .. len - 1 : Probe(k, len)[p] = i => At(k, p) = Unused
  BY <1>5 DEF At
<1>10. \A k \in Keys \ {key}, p \in 0 .. len - 1 :
         Holds(k, At(k, p)') <=> Holds(k, At(k, p))
  BY <1>6, <1>7, <1>8, <1>9
<1>11. \A k \in Keys : Found(k) = {p \in 0 .. len - 1 : Holds(k, At(k, p))}
  BY DEF Found, Hits, At
<1>12. \A k \in Keys : Found(k)' = {p \in 0 .. len - 1 : Holds(k, At(k, p)')}
  BY DEF Found, Hits, At, Holds
<1>13. ASSUME NEW p \in 0 .. len - 1
       PROVE  ~Holds(key, At(key, p))
  <2>1. CASE p < P
    BY <1>1, <2>1
  <2>2. CASE p = P
    BY <1>8, <2>2
  <2>3. CASE p > P
    BY <1>1, <2>3 DEF WayIntact
  <2> QED BY <1>1, <2>1, <2>2, <2>3
<1>14. Found(key) = {}
  BY <1>11, <1>13
<1>15. \A p \in 0 .. len - 1 : Holds(key, At(key, p)') <=> p = P
  BY <1>4, <1>6, <1>7, <1>13
<1>16. Found(key)' = {P}
  BY <1>12, <1>15
<1>17. \A k \in Keys \ {key} : Found(k)' = Found(k)
  BY <1>10, <1>11, <1>12
<1>18. Lookup(key)' = val
  <2>1. First({P}) = P
    BY <1>1 DEF First
  <2>2. At(key, P)' = s
    BY <1>4, <1>7
  <2> HIDE DEF Found
  <2> QED BY <1>6, <1>16, <2>1, <2>2 DEF Lookup, At
<1>19. ASSUME NEW k \in Keys \ {key}, Found(k) # {}
       PROVE  Lookup(k)' = Lookup(k)
  <2>1. Found(k)' = Found(k)
    BY <1>17
  <2>2. PICK p \in 0 .. len - 1 : Holds(k, At(k, p))
    BY <1>11, <1>19
  <2>3. Found(k) = {p}
    BY <2>2, MetOnce
  <2>4. First({p}) = p
    BY <1>1 DEF First
  <2>5. At(k, p)' = At(k, p)
    BY <1>7, <1>8, <1>9, <2>2
  <2> HIDE DEF Found
  <2> QED BY <2>1, <2>3, <2>4, <2>5 DEF Lookup, At
<1>20. WayIntact'
  <2> SUFFICES ASSUME NEW k \in Keys, NEW p \in 0 .. len - 1, Holds(k, At(k, p)'),
                      NEW q \in 0 .. p - 1
               PROVE  At(k, q)' # Unused /\ ~Holds(k, At(k, q)')
    BY DEF WayIntact, Holds
  <2>1. q \in 0 .. len - 1
    BY <1>1
  <2>2. CASE k = key
    BY <1>1, <1>4, <1>7, <1>15, <2>1, <2>2
  <2>3. CASE k # key
    <3>1. At(k, q) # Unused /\ ~Holds(k, At(k, q))
      BY <1>10, <2>3 DEF WayIntact
    <3> QED BY <1>6, <1>7, <1>10, <2>1, <2>3, <3>1
  <2> QED BY <2>2, <2>3
<1> QED BY <1>14, <1>16, <1>17, <1>18, <1>19, <1>20

-----------------------------------------------------------------------------
(* Every call is a call of the map. *)

\* Where `insert_st` stops when it does not grow the table.
LEMMA StopsInTable ==
  ASSUME TypeOK, NEW key \in Keys, Capacity = len
  PROVE  \E P \in 0 .. len - 1 :
           /\ InsertAt(key) = Probe(key, len)[P] /\ Extended[InsertAt(key)] = At(key, P)
           /\ At(key, P) = Unused \/ Holds(key, At(key, P))
           /\ \A q \in 0 .. P - 1 : At(key, q) # Unused /\ ~Holds(key, At(key, q))
<1>1. Capacity <= MaxLen /\ Extended = cell
  BY NoGrowth, BlockAssumption, IndexAssumption DEF TypeOK
<1> HIDE DEF Capacity, Extended, InsertAt
<1> QED BY <1>1, InsertStops DEF At

\* A call of `insert_st` that does not grow the table.
LEMMA InsertMaps ==
  ASSUME IInv, ~Reallocated, NEW key \in Keys, NEW val \in Vals, Insert(key, val),
         Capacity = len
  PROVE  /\ WayIntact' /\ ~Reallocated'
         /\ Map!AInsertNew(key, val) \/ Map!AInsertOld(key, val)
<1>1. TypeOK /\ TypeOK' /\ WayIntact
  BY InsertTyped DEF IInv
<1>2. len' = len /\ hash' = hash /\ Extended = cell
  BY <1>1, NoGrowth DEF Insert
<1>3. ~Reallocated'
  BY <1>2 DEF Reallocated
<1>4. PICK P \in 0 .. len - 1 :
        /\ InsertAt(key) = Probe(key, len)[P] /\ Extended[InsertAt(key)] = At(key, P)
        /\ At(key, P) = Unused \/ Holds(key, At(key, P))
        /\ \A q \in 0 .. P - 1 : At(key, q) # Unused /\ ~Holds(key, At(key, q))
  BY <1>1, StopsInTable
<1>5. Table = [k \in {k \in Keys : Found(k) # {}} |-> Lookup(k)]
  BY <1>1, TableIs
<1>6. Table' = [k \in {k \in Keys : Found(k)' # {}} |-> Lookup(k)']
  BY <1>1, <1>3, TableIsNext
<1>7. TableAnswer' = answer'
  BY <1>3 DEF TableAnswer
<1>8. CASE At(key, P) = Unused
  <2>1. /\ cell' = [cell EXCEPT ![Probe(key, len)[P]] = <<key, val>>]
        /\ answer' = <<"OK">>
    BY <1>2, <1>4, <1>8 DEF Insert, Occupy, Holds
  <2>2. /\ Found(key) = {} /\ Found(key)' = {P} /\ Lookup(key)' = val
        /\ \A k \in Keys \ {key} : Found(k)' = Found(k)
        /\ \A k \in Keys \ {key} : Found(k) # {} => Lookup(k)' = Lookup(k)
        /\ WayIntact'
    BY <1>1, <1>2, <1>4, <1>8, <2>1, OccupyKeepsWay
  <2> HIDE DEF Found, Lookup
  <2>3. {k \in Keys : Found(k)' # {}} = {k \in Keys : Found(k) # {}} \cup {key}
    BY <2>2
  <2>4. key \notin DOMAIN Table /\ DOMAIN Table = {k \in Keys : Found(k) # {}}
    BY <1>5, <2>2
  <2>5. \A k \in DOMAIN Table \cup {key} :
          Lookup(k)' = IF k = key THEN val ELSE Table[k]
    BY <1>5, <2>2, <2>4
  <2>6. Table' = [k \in DOMAIN Table \cup {key} |-> IF k = key THEN val ELSE Table[k]]
    BY <1>6, <2>3, <2>4, <2>5
  <2> QED BY <1>3, <1>7, <2>1, <2>2, <2>4, <2>6 DEF Map!AInsertNew
<1>9. CASE Holds(key, At(key, P))
  <2>1. /\ cell' = cell
        /\ answer' = IF ValOf(At(key, P)) = val THEN <<"abort">> ELSE <<"EXISTS">>
    BY <1>2, <1>4, <1>9 DEF Insert, Refuse, Holds
  <2>2. Found(key) = {P} /\ Lookup(key) = ValOf(At(key, P))
    BY <1>1, <1>9, MetOnce
  <2>3. \A k \in Keys : Found(k)' = Found(k) /\ Lookup(k)' = Lookup(k)
    BY <1>2, <2>1 DEF Found, Hits, Lookup, Probe, Holds
  <2>4. WayIntact'
    <3>1. UNCHANGED <<hash, cell, len>>
      BY <1>2, <2>1
    <3>2. WayIntact' = WayIntact
      BY <3>1 DEF WayIntact, At, Probe, Holds
    <3> QED BY <1>1, <3>2
  <2> HIDE DEF Found, Lookup
  <2>5. Table' = Table
    BY <1>5, <1>6, <2>3
  <2>6. key \in DOMAIN Table /\ Table[key] = ValOf(At(key, P))
    BY <1>5, <2>2
  <2> QED BY <1>3, <1>7, <2>1, <2>4, <2>5, <2>6 DEF Map!AInsertOld
<1> QED BY <1>4, <1>8, <1>9

LEMMA GetMaps ==
  ASSUME IInv, ~Reallocated, NEW key \in Keys, Get(key)
  PROVE  WayIntact' /\ ~Reallocated' /\ Map!AGet(key)
<1>1. TypeOK /\ WayIntact /\ UNCHANGED <<hash, cell, len, used>>
  BY DEF IInv, Get
<1>2. WayIntact' /\ ~Reallocated'
  BY <1>1 DEF WayIntact, At, Probe, Holds, Reallocated
<1>3. \A k : Lookup(k)' = Lookup(k)
  BY <1>1 DEF Lookup, Found, Hits, Probe, Holds
<1>4. Table' = Table
  BY <1>1, <1>3 DEF Table, Occupied, Reallocated
<1>5. TableAnswer' = IF Found(key) = {} THEN <<"ERR">> ELSE <<"FOUND", Lookup(key)>>
  BY <1>2 DEF Get, TableAnswer
<1>6. Table = [k \in {k \in Keys : Found(k) # {}} |-> Lookup(k)]
  BY <1>1, TableIs
<1> HIDE DEF Found, Lookup
<1>7. key \in DOMAIN Table <=> Found(key) # {}
  BY <1>6
<1>8. key \in DOMAIN Table => Table[key] = Lookup(key)
  BY <1>6
<1> QED BY <1>2, <1>4, <1>5, <1>7, <1>8 DEF Map!AGet

LEMMA InitMaps ==
  ASSUME Init
  PROVE  IInv /\ Map!AInit
<1>1. TypeOK /\ ~Reallocated /\ Occupied = {}
  BY InitTyped DEF Init, Reallocated, Occupied
<1>2. WayIntact
  <2> SUFFICES ASSUME NEW key \in Keys, NEW p \in 0 .. len - 1, Holds(key, At(key, p))
               PROVE  FALSE
    BY DEF WayIntact
  <2>1. len \in Length /\ hash \in Hashes
    BY <1>1 DEF TypeOK, Length
  <2>2. Probe(key, len)[p] \in 0 .. len - 1
    BY <2>1, ProbeIsBijection, ZenonT(60)
  <2> QED BY <2>2 DEF Init, At, Holds
<1>3. Table = Map!NoKeys
  BY <1>1 DEF Table, Map!NoKeys
<1> QED BY <1>1, <1>2, <1>3 DEF IInv, Map!AInit, TableAnswer, Init

LEMMA StepMaps ==
  ASSUME IInv, [Next]_vars
  PROVE  IInv' /\ [Map!ANext]_<<Table, TableAnswer, Reallocated>>
<1>1. TypeOK'
  BY StepTyped DEF IInv
<1>2. CASE UNCHANGED vars
  <2>1. UNCHANGED <<hash, cell, len, used, answer>>
    BY <1>2 DEF vars
  <2>2. Reallocated' = Reallocated /\ WayIntact' = WayIntact
    BY <2>1 DEF Reallocated, WayIntact, At, Probe, Holds
  <2>3. \A k : Lookup(k)' = Lookup(k)
    BY <2>1 DEF Lookup, Found, Hits, Probe, Holds
  <2>4. Table' = Table /\ TableAnswer' = TableAnswer
    BY <2>1, <2>3 DEF Table, TableAnswer, Occupied, Reallocated
  <2> QED BY <1>1, <2>2, <2>4 DEF IInv
<1>3. CASE Reallocated /\ Reallocated'
  <2>1. UNCHANGED <<Table, TableAnswer>>
    BY <1>3, LostIs, LostAfter DEF Reallocated
  <2> QED BY <1>1, <1>3, <2>1 DEF IInv
<1>4. ASSUME ~Reallocated, Reallocated'
      PROVE  Map!ANext
  BY <1>4, LostAfter DEF Map!ANext, Map!ALose
<1>5. ASSUME Next, ~Reallocated, ~Reallocated'
      PROVE  WayIntact' /\ Map!ANext
  <2>a. UNCHANGED Reallocated
    BY <1>5 DEF Reallocated
  <2>1. CASE \E key \in Keys : Get(key)
    BY <1>5, <2>a, <2>1, GetMaps DEF Map!ANext, Map!ACall
  <2>2. CASE \E key \in Keys, val \in Vals : Insert(key, val)
    <3>1. PICK key \in Keys, val \in Vals : Insert(key, val)
      BY <2>2
    <3>2. Capacity = len
      BY <1>5, <3>1, GrowthLoses DEF IInv
    <3> QED BY <1>5, <2>a, <3>1, <3>2, InsertMaps DEF Map!ANext, Map!ACall
  <2> QED BY <1>5, <2>1, <2>2 DEF Next
<1>6. ASSUME Next, Reallocated
      PROVE  Reallocated'
  BY <1>6, LengthGrows DEF IInv
<1>7. CASE Next
  BY <1>1, <1>3, <1>4, <1>5, <1>6, <1>7 DEF IInv
<1> QED BY <1>2, <1>7

\* Until it is reallocated, the table is the map that st.h promises: `get_st`
\* answers what `insert_st` was first given for the key, and a key with other
\* data is refused.
THEOREM TableIsMap == Spec => ImplementsMap
<1>1. Init => IInv /\ Map!AInit
  BY InitMaps
<1>2. IInv /\ [Next]_vars => IInv' /\ [Map!ANext]_<<Table, TableAnswer, Reallocated>>
  BY StepMaps
<1> QED BY <1>1, <1>2, PTL DEF Spec, ImplementsMap, Map!ASpec
=============================================================================
