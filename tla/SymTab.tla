------------------------------- MODULE SymTab -------------------------------
(***************************************************************************)
(* The open-addressed symbol table of src/st.c: `insert_st` with its       *)
(* growth and linear probing, and `get_st`.  A key stands for an           *)
(* identifier and its kind, its hash for the product that `delim_hash`     *)
(* takes the top bits of.  `offset` is zero in every table the program     *)
(* makes, and left out.                                                    *)
(***************************************************************************)
EXTENDS Integers, FiniteSets

CONSTANTS
  Keys,      \* identifiers with their kind, label or function
  Vals,      \* instruction addresses with numbers of locals
  Block,     \* ST_BLOCK_SIZE
  HashBits,  \* the width of a hash: 64 in the program
  Hashes,    \* the hash functions considered, on Keys
  MaxLen     \* bound: no table has more cells than this

ASSUME BlockAssumption == Block \in Nat /\ Block >= 4
ASSUME HashAssumption ==
  /\ HashBits \in Nat
  /\ Hashes \subseteq [Keys -> 0 .. 2^HashBits - 1]

VARIABLES
  hash,    \* the hash of every key; never changes
  cell,    \* the cells, from 0 on: a symbol, or Unused
  len,     \* the number of cells
  used,    \* the number of cells in use
  answer,  \* the result of the last call
  accepted \* history, read by no action: the symbols answered with INRES_OK

vars == <<hash, cell, len, used, answer, accepted>>

Unused == <<>>
Symbol == Keys \X Vals
KeyOf(symbol) == symbol[1]
ValOf(symbol) == symbol[2]

FloorLog2(n) == CHOOSE k \in 0 .. n : 2^k <= n /\ n < 2^(k + 1)

\* `delim_hash`: the top log2(n) - 1 bits.
DelimHash(h, n) == h \div 2^(HashBits - (FloorLog2(n) - 1))

\* "Returns an index in the interval [0;len]": as 2^k <= n, the top k - 1 bits
\* are below n.  More cells than 2^HashBits would be shifted the wrong way.
ASSUME IndexAssumption ==
  /\ MaxLen \in Nat /\ MaxLen > Block
  /\ \A h \in 0 .. 2^HashBits - 1, n \in Block .. MaxLen - 1 : DelimHash(h, n) \in 0 .. n - 1

\* Mutant: the table grows one insertion too late.
Full_Late == used > len
Full == used >= len

Capacity == IF Full THEN len + Block ELSE len

\* Mutant: the new part is cleared from one cell too early on.
Extended_ClearsLast ==
  LET kept == IF Full THEN len - 1 ELSE len
  IN  [i \in 0 .. Capacity - 1 |-> IF i < kept THEN cell[i] ELSE Unused]

\* The cells after `realloc` and `memset`.
Extended == [i \in 0 .. Capacity - 1 |-> IF i < len THEN cell[i] ELSE Unused]

\* The cells in the order in which a table of n cells is probed for a key:
\* from the key's index to the end, then from the start.
Probe(key, n) == [p \in 0 .. n - 1 |-> (DelimHash(hash[key], n - 1) + p) % n]

\* The probes of a key that meet a wanted cell.
Hits(key, cells, n, Wanted(_)) ==
  {p \in 0 .. n - 1 : Wanted(cells[Probe(key, n)[p]])}

First(S) == CHOOSE p \in S : \A q \in S : p <= q

Holds(key, c) == c # Unused /\ KeyOf(c) = key

\* The cell where `insert_st`'s two loops stop.
InsertAt(key) ==
  LET Stops(c) == c = Unused \/ Holds(key, c)
  IN  Probe(key, Capacity)[First(Hits(key, Extended, Capacity, Stops))]

\* Mutant: the new data replaces the old.
Refuse_Overwrites(i, key, val) ==
  cell' = [Extended EXCEPT ![i] = <<key, val>>]
Refuse(i, key, val) == cell' = Extended

\* Mutant: a symbol that is taken over does not count.
Occupy_NotCounted(i, key, val) ==
  /\ cell' = [Extended EXCEPT ![i] = <<key, val>>]
  /\ used' = used
Occupy(i, key, val) ==
  /\ cell' = [Extended EXCEPT ![i] = <<key, val>>]
  /\ used' = used + 1

\* Both loops leave at a symbol with the same data by `break`, and the
\* assertion after them fails.
Insert(key, val) ==
  /\ answer # <<"abort">> /\ Capacity <= MaxLen
  /\ len' = Capacity
  /\ UNCHANGED hash
  /\ LET i == InsertAt(key)
     IN  \/ /\ Extended[i] = Unused
            /\ Occupy(i, key, val)
            /\ answer' = <<"OK">> /\ accepted' = accepted \cup {<<key, val>>}
         \/ /\ Holds(key, Extended[i]) /\ ValOf(Extended[i]) # val
            /\ Refuse(i, key, val)
            /\ answer' = <<"EXISTS">> /\ UNCHANGED <<used, accepted>>
         \/ /\ Holds(key, Extended[i]) /\ ValOf(Extended[i]) = val
            /\ answer' = <<"abort">> /\ cell' = Extended
            /\ UNCHANGED <<used, accepted>>

\* Mutant: the part of the table before the key's index is not searched.
Found_NoWrap(key) ==
  LET Is(c) == Holds(key, c)
  IN  {p \in Hits(key, cell, len, Is) : Probe(key, len)[0] <= Probe(key, len)[p]}

\* The probes at which `get_st` finds a key; unused cells do not stop it.
Found(key) == LET Is(c) == Holds(key, c) IN Hits(key, cell, len, Is)
Lookup(key) == ValOf(cell[Probe(key, len)[First(Found(key))]])

Get(key) ==
  /\ answer # <<"abort">>
  /\ answer' = IF Found(key) = {} THEN <<"ERR">> ELSE <<"FOUND", Lookup(key)>>
  /\ UNCHANGED <<hash, cell, len, used, accepted>>

Init ==
  /\ hash \in Hashes
  /\ len = Block + 1
  /\ cell = [i \in 0 .. len - 1 |-> Unused]
  /\ used = 0
  /\ answer = <<"none">>
  /\ accepted = {}

Next ==
  \E key \in Keys : Get(key) \/ \E val \in Vals : Insert(key, val)

Spec == Init /\ [][Next]_vars

-----------------------------------------------------------------------------
(* Properties. *)

Occupied == {i \in DOMAIN cell : cell[i] # Unused}

\* The type invariant: the cells are an array of `len` cells and `used`
\* counts those in use.
TypeOK ==
  /\ hash \in Hashes
  /\ len \in Block + 1 .. MaxLen
  /\ cell \in [0 .. len - 1 -> Symbol \cup {Unused}]
  /\ used = Cardinality(Occupied)
  /\ answer \in {<<"none">>, <<"OK">>, <<"EXISTS">>, <<"abort">>, <<"ERR">>}
                  \cup ({"FOUND"} \X Vals)
  /\ accepted \subseteq Symbol

\* The claim at the assertion of `insert_st`: as memory was allocated in time,
\* the two loops always find a free cell for a symbol that is not there yet.
\* The assertion fails for no other reason than a repeated insertion.
AssertionOnlyOnRepeat ==
  \A key \in Keys :
    (answer # <<"abort">> /\ Capacity <= MaxLen /\ Found(key) = {})
      => \E p \in 0 .. Capacity - 1 : Extended[Probe(key, Capacity)[p]] = Unused

\* No symbol is ever lost: `get_st` finds the key of every symbol that
\* `insert_st` took over (INRES_OK), also after the table has grown and the
\* cells are no longer where the hashes point, and what it answers is what was
\* taken over for this key: the one value there is, unless a second was accepted
\* after a reallocation (OneCellPerKey fails), and then one of them.
NothingLost ==
  /\ \A symbol \in accepted : Found(KeyOf(symbol)) # {}
  /\ \A key \in Keys : Found(key) # {} => <<key, Lookup(key)>> \in accepted

\* The table is a map that only grows, as SymMap has it, while it has not
\* been reallocated.
Reallocated == len > Block + 1
Table ==
  [key \in {KeyOf(cell[i]) : i \in {j \in Occupied : ~Reallocated}} |-> Lookup(key)]
TableAnswer == IF Reallocated THEN <<"none">> ELSE answer
Map == INSTANCE SymMap WITH map <- Table, answer <- TableAnswer, lost <- Reallocated
ImplementsMap == Map!ASpec

\* "INRES_EXISTS: the given symbol already exists with different data" (st.h):
\* two cells never hold the same key.
OneCellPerKey ==
  \A i, j \in Occupied : KeyOf(cell[i]) = KeyOf(cell[j]) => i = j

\* "Yes, do nothing. The content exists." (st.c): to insert the same data
\* again does not stop the program.
RepeatIsHarmless == answer # <<"abort">>
=============================================================================
