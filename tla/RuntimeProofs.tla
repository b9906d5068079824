---------------------------- MODULE RuntimeProofs ----------------------------
(***************************************************************************)
(* Proofs about what compiled programs compute with.                       *)
(*                                                                         *)
(* HashMap, for any set of keys, any hash function and any values: types;  *)
(* every entry can be found and no key is in the table twice; keys are     *)
(* owned once; the table implements the finite map of AbstractMap.         *)
(*                                                                         *)
(* Scalars, for every range of Integer and Tryte and every width of the    *)
(* word that holds twice Integer: the types are sound, the machine code is *)
(* the arithmetic and the logic of the libraries, powers are exact, and    *)
(* the variants for overflow keep the low trits or the nearest number.     *)
(*                                                                         *)
(* MultipliedOut and Weight are recursive functions.  That they solve      *)
(* their equations is shown by building the solution step by step, and     *)
(* what holds of all exponents or trits by looking at the least number of  *)
(* which it does not hold.                                                 *)
(***************************************************************************)
EXTENDS HashMap, Scalars, FiniteSetTheorems, SequenceTheorems, WellFoundedInduction, TLAPS

-----------------------------------------------------------------------------
(* Hash maps *)

Lookups == {"get", "contains", "remove"}
Growing == op \in {"rehash", "move"}

\* Which operations have a key, a value, a loop around them.
Request ==
  /\ op \in {"insert", "rehash", "move"} => arg \in Keys /\ new \in Values /\ cursor = NoLoop
  /\ op \in Lookups => arg \in Keys /\ new = Null
  /\ op \in {"idle", "drain"} => arg = Null /\ new = Null
  /\ op = "drain" => cursor # NoLoop

\* There is an old buffer while the table grows, and only then.
Buffers ==
  /\ Growing => IsTable(old.cap, old.slot, old.val)
  /\ ~Growing => old = NoBuffer /\ at = 0
  /\ op = "move" => at \in 0 .. old.cap - 1 /\ old.slot[at] \in Keys

\* Every entry has a value.
Valued ==
  /\ \A i \in Slots : Resident(i) => val[i] \in Values
  /\ \A j \in at .. old.cap - 1 : old.slot[j] \in Keys => old.val[j] \in Values

\* The entries still to be moved have different keys.
OldUnique ==
  \A i, j \in at .. old.cap - 1 : old.slot[i] \in Keys /\ old.slot[i] = old.slot[j] => i = j

\* A search for k that has come to p saw neither k nor an empty slot.
Passed(k, p) ==
  \A j \in Slots : OnTheWay(Home(k, cap), j, p) => slot[j] # Empty /\ slot[j] # k

Searched ==
  /\ op \in Lookups \cup {"insert"} => Passed(arg, probe)
  /\ op = "move" => Passed(old.slot[at], probe)

\* Behind the cursor of a drain loop there is nothing left.
Drained ==
  /\ cursor # NoLoop => \A i \in Slots : i < cursor => ~Resident(i)
  /\ op = "drain" => \A i \in Slots : i < probe => ~Resident(i)

TypeInv == TypeOK /\ Request /\ Buffers
TableInv == Valued /\ Findable /\ KeysUnique /\ OldUnique
SearchInv == Searched /\ Drained
IInv == TypeInv /\ TableInv /\ SearchInv

-----------------------------------------------------------------------------
(* The way round the table *)

\* A home is a slot, negative hashes included.
LEMMA HomeInTable ==
  ASSUME NEW k \in Keys, NEW c \in Nat \ {0}
  PROVE  Home(k, c) \in 0 .. c - 1
BY MapAssumption DEF Home

\* The slot after the last is the first.
LEMMA AfterInTable ==
  ASSUME cap \in Nat \ {0}, NEW i \in Slots
  PROVE  After(i) \in Slots /\ After(i) = IF i + 1 = cap THEN 0 ELSE i + 1
BY DEF After, Slots

\* Of two slots one comes first on the way from h.
LEMMA WaySplits ==
  ASSUME NEW n \in Nat, NEW h \in 0 .. n - 1, NEW i \in 0 .. n - 1, NEW j \in 0 .. n - 1, i # j
  PROVE  OnTheWay(h, i, j) \/ OnTheWay(h, j, i)
BY DEF OnTheWay

\* A way starts out empty, does not contain its end, and one step adds the
\* slot that is left.
LEMMA WayGrows ==
  ASSUME NEW n \in Nat, NEW h \in 0 .. n - 1, NEW i \in 0 .. n - 1, NEW j \in 0 .. n - 1
  PROVE  /\ ~OnTheWay(h, j, h)
         /\ ~OnTheWay(h, i, i)
         /\ OnTheWay(h, j, IF i + 1 = n THEN 0 ELSE i + 1) => OnTheWay(h, j, i) \/ j = i
BY DEF OnTheWay

-----------------------------------------------------------------------------
(* Types *)

\* A new table is one.
LEMMA FreshTypes ==
  ASSUME NEW c \in Nat, Fresh(c)
  PROVE  cap' = c /\ IsTable(cap', slot', val')
BY DEF Fresh, IsTable

\* The steps of insert keep the types.
LEMMA TypeInsert ==
  ASSUME TypeInv,
         \/ \E p \in Inserts : CallInsert(p[1], p[2])
         \/ RehashPass \/ RehashTake \/ RehashPlace \/ RehashDone
         \/ InsertUpdate \/ InsertFresh
  PROVE  TypeInv'
<1> USE MapAssumption
          DEF TypeInv, TypeOK, Request, Buffers, Growing, Lookups, Ops, table, moving,
              request, memory
<1>1. ASSUME NEW p \in Inserts, CallInsert(p[1], p[2])
      PROVE  TypeInv'
  <2>0. p[1] \in Keys /\ p[2] \in Values
    OBVIOUS
  <2>1. CASE len * 4 >= cap * 3
    <3>1. PICK c \in Nat \ {0} : Fresh(c)
      BY <1>1, <2>1 DEF CallInsert, MinCap
    <3>2. cap' = c /\ IsTable(cap', slot', val')
      BY <3>1, FreshTypes
    <3>3. old' = [cap |-> cap, slot |-> slot, val |-> val] /\ at' = 0 /\ op' = "rehash"
      BY <1>1, <2>1 DEF CallInsert
    <3>4. IsTable(old'.cap, old'.slot, old'.val)
      BY <3>3 DEF IsTable
    <3> QED
      BY <1>1, <2>0, <2>1, <3>1, <3>2, <3>3, <3>4 DEF CallInsert, Take, Keep, Nothing
  <2>2. CASE ~(len * 4 >= cap * 3)
    <3>1. Home(p[1], cap) \in Slots
      BY <2>0, HomeInTable DEF Slots
    <3> QED
      BY <1>1, <2>0, <2>2, <3>1 DEF CallInsert, Take, Keep, Nothing, Slots
  <2> QED
    BY <2>1, <2>2
<1>2. CASE RehashPass
  BY <1>2 DEF RehashPass, IsTable, NoBuffer, Slots
<1>3. CASE RehashTake
  <2>1. old.slot[at] \in Keys
    BY <1>3 DEF RehashTake
  <2>2. Home(old.slot[at], cap) \in Slots
    BY <2>1, HomeInTable DEF Slots
  <2>3. old.cap \in Nat
    BY <1>3 DEF RehashTake, IsTable
  <2> QED
    BY <1>3, <2>1, <2>2, <2>3 DEF RehashTake, Slots
<1>4. CASE RehashPlace
  <2>1. IsTable(cap, slot', val')
    BY <1>4 DEF RehashPlace, IsTable
  <2>2. old.cap \in Nat
    BY <1>4 DEF RehashPlace, IsTable
  <2> QED
    BY <1>4, <2>1, <2>2 DEF RehashPlace, Slots
<1>5. CASE RehashDone
  <2>1. Home(arg, cap) \in Slots
    BY <1>5, HomeInTable DEF RehashDone, Slots
  <2> QED
    BY <1>5, <2>1 DEF RehashDone, NoBuffer, Slots
<1>6. CASE InsertUpdate
  <2>1. IsTable(cap, slot', val')
    BY <1>6 DEF InsertUpdate, IsTable
  <2> QED
    BY <1>6, <2>1 DEF InsertUpdate, Return, Release, Slots
<1>7. CASE InsertFresh
  <2>1. IsTable(cap, slot', val')
    BY <1>7 DEF InsertFresh, IsTable
  <2> QED
    BY <1>7, <2>1 DEF InsertFresh, Return, Slots
<1> QED
  BY <1>1, <1>2, <1>3, <1>4, <1>5, <1>6, <1>7

\* The searches keep the types.
LEMMA TypeSearch ==
  ASSUME TypeInv,
         \/ \E kind \in Lookups, k \in Keys : CallLookup(kind, k)
         \/ Probe \/ Miss \/ GetHit \/ ContainsHit \/ RemoveHit
  PROVE  TypeInv'
<1> USE MapAssumption
          DEF TypeInv, TypeOK, Request, Buffers, Growing, Lookups, Ops, table, moving,
              request, memory
<1>1. ASSUME NEW kind \in Lookups, NEW k \in Keys, CallLookup(kind, k)
      PROVE  TypeInv'
  <2>1. Home(k, cap) \in Slots
    BY HomeInTable DEF Slots
  <2> QED
    BY <1>1, <2>1 DEF CallLookup, Nothing, Slots
<1>2. CASE Probe
  <2>1. probe' \in Slots
    BY <1>2, AfterInTable DEF Probe
  <2> QED
    BY <1>2, <2>1 DEF Probe, Slots
<1>3. CASE Miss
  BY <1>3 DEF Miss, Return, Slots
<1>4. CASE GetHit
  <2>1. val[probe] \in Values \cup {Null}
    BY <1>4 DEF GetHit, IsTable, Slots
  <2> QED
    BY <1>4, <2>1 DEF GetHit, Return, Slots
<1>5. CASE ContainsHit
  BY <1>5 DEF ContainsHit, Return, Slots
<1>6. CASE RemoveHit
  <2>1. val[probe] \in Values \cup {Null} /\ IsTable(cap, slot', val')
    BY <1>6 DEF RemoveHit, IsTable, Slots
  <2> QED
    BY <1>6, <2>1 DEF RemoveHit, Return, Release, Keep, Slots
<1> QED
  BY <1>1, <1>2, <1>3, <1>4, <1>5, <1>6

\* The drain loop and the end of the map keep the types.
LEMMA TypeDrain ==
  ASSUME TypeInv,
         \/ StartLoop \/ BreakLoop \/ CallDrain \/ DrainPass \/ DrainTake \/ DrainDone
         \/ DropMap
  PROVE  TypeInv'
<1> USE MapAssumption
          DEF TypeInv, TypeOK, Request, Buffers, Growing, Lookups, Ops, table, moving,
              request, memory
<1>1. CASE StartLoop
  BY <1>1 DEF StartLoop, NoLoop, Slots
<1>2. CASE BreakLoop
  BY <1>2 DEF BreakLoop, NoLoop, Slots
<1>3. CASE CallDrain
  BY <1>3 DEF CallDrain, NoLoop, Nothing, Slots
<1>4. CASE DrainPass
  BY <1>4 DEF DrainPass, Slots
<1>5. CASE DrainTake
  <2>1. /\ slot[probe] \in Keys /\ val[probe] \in Values \cup {Null}
        /\ IsTable(cap, slot', val')
    BY <1>5 DEF DrainTake, Resident, IsTable, Slots
  <2>2. key_live' \in [Keys -> Int] /\ held' \in Int
    BY <1>5, <2>1 DEF DrainTake, Release, Keep
  <2>3. cursor' \in Nat /\ answer' \in [key : Keys \cup {Null}, value : Values \cup {Null}]
    BY <1>5, <2>1 DEF DrainTake, Return, Slots
  <2>4. op' = "idle" /\ arg' = Null /\ new' = Null /\ probe' = 0
    BY <1>5 DEF DrainTake, Return
  <2>5. op = "drain" /\ len' = len - 1 /\ UNCHANGED <<cap, old, at>>
    BY <1>5 DEF DrainTake
  <2> QED
    BY <2>1, <2>2, <2>3, <2>4, <2>5
<1>6. CASE DrainDone
  BY <1>6 DEF DrainDone, Return, NoLoop, Slots
<1>7. CASE DropMap
  <2>1. cap' = MinCap /\ IsTable(cap', slot', val') /\ MinCap \in Nat \ {0}
    BY <1>7, FreshTypes DEF DropMap, MinCap
  <2>2. \A S \in SUBSET Slots : Cardinality(S) \in Nat
    <3>1. IsFiniteSet(Slots)
      BY FS_Interval DEF Slots
    <3> QED
      BY <3>1, FS_Subset, FS_CardinalityType
  <2>3. \A k \in Keys : Cardinality({i \in Slots : slot[i] = k}) \in Nat
    BY <2>2
  <2>4. Cardinality({i \in Slots : Resident(i)}) \in Nat
    BY <2>2
  <2>5. key_live' \in [Keys -> Int]
    BY <1>7, <2>3 DEF DropMap
  <2>6. held' \in Int
    BY <1>7, <2>4 DEF DropMap, Keep
  <2> QED
    BY <1>7, <2>1, <2>5, <2>6 DEF DropMap, Nothing, Slots
<1> QED
  BY <1>1, <1>2, <1>3, <1>4, <1>5, <1>6, <1>7

\* Every step keeps the types.
LEMMA TypeStep == ASSUME TypeInv, [Next]_vars PROVE TypeInv'
<1>1. CASE Next
  BY <1>1, TypeInsert, TypeSearch, TypeDrain DEF Next, Client, Work, Lookups
<1>2. CASE UNCHANGED vars
  BY <1>2 DEF vars, table, moving, request, memory, TypeInv, TypeOK, Request, Buffers,
              Growing, Lookups, Slots
<1> QED
  BY <1>1, <1>2

\* A new map has the types.
LEMMA TypeInit == ASSUME Init PROVE TypeInv
BY DEF Init, TypeInv, TypeOK, Request, Buffers, Growing, Lookups, Ops, IsTable, MinCap, NoLoop,
       NoBuffer, Nothing, Slots

\* Whatever the keys, values and hashes, the variables keep their types: no
\* search leaves the table.
THEOREM TypeCorrect == Spec => []TypeOK
<1>1. Init => TypeInv
  BY TypeInit
<1>2. TypeInv /\ [Next]_vars => TypeInv'
  BY TypeStep
<1>3. TypeInv => TypeOK
  BY DEF TypeInv
<1> QED
  BY <1>1, <1>2, <1>3, PTL DEF Spec

-----------------------------------------------------------------------------
(* The table *)

\* A search that has come to an empty slot has seen every place its key
\* could be found in: were the key further on, the empty slot would lie
\* between its home and itself.
LEMMA SearchEnds ==
  ASSUME TypeInv, Findable, NEW k \in Keys, NEW p \in Slots, Passed(k, p), slot[p] = Empty
  PROVE  \A i \in Slots : slot[i] # k
<1> SUFFICES ASSUME NEW i \in Slots, slot[i] = k
             PROVE  FALSE
  OBVIOUS
<1>1. cap \in Nat \ {0} /\ Home(k, cap) \in Slots
  BY HomeInTable DEF TypeInv, TypeOK, Slots
<1>2. i # p
  BY MapAssumption
<1>3. OnTheWay(Home(k, cap), i, p) \/ OnTheWay(Home(k, cap), p, i)
  BY <1>1, <1>2, WaySplits DEF Slots
<1>4. ~OnTheWay(Home(k, cap), i, p)
  BY DEF Passed
<1>5. ~OnTheWay(Home(k, cap), p, i)
  BY DEF Findable, Resident
<1> QED
  BY <1>3, <1>4, <1>5

\* A key that is nowhere in the table or waiting takes the empty slot its
\* search came to; the buffer may be left behind as far as m.
LEMMA TablePlace ==
  ASSUME TypeInv, TableInv,
         NEW k \in Keys, NEW v \in Values, NEW p \in Slots, NEW m \in {at, at + 1},
         slot[p] = Empty, Passed(k, p),
         \A j \in m .. old.cap - 1 : old.slot[j] # k,
         slot' = [slot EXCEPT ![p] = k], val' = [val EXCEPT ![p] = v],
         cap' = cap, old' = old, at' = m
  PROVE  TableInv'
<1> USE MapAssumption
<1>1. /\ at \in Nat /\ cap \in Nat \ {0} /\ IsTable(cap, slot, val)
      /\ old.cap \in Nat
  BY DEF TypeInv, TypeOK, IsTable, NoBuffer
<1>2. /\ Slots' = Slots
      /\ \A i \in Slots : slot'[i] = IF i = p THEN k ELSE slot[i]
      /\ \A i \in Slots : val'[i] = IF i = p THEN v ELSE val[i]
  BY <1>1 DEF IsTable, Slots
<1>3. m .. old.cap - 1 \subseteq at .. old.cap - 1
  BY <1>1
<1>4. \A i \in Slots : slot[i] # k
  BY SearchEnds DEF TableInv
<1>5. Valued'
  BY <1>2, <1>3 DEF TableInv, Valued, Resident
<1>6. Findable'
  <2> SUFFICES ASSUME NEW i \in Slots, NEW j \in Slots, slot'[i] \in Keys,
                      OnTheWay(Home(slot'[i], cap), j, i)
               PROVE  slot'[j] # Empty
    BY <1>2 DEF Findable, Resident, Home
  <2>1. CASE i = p
    BY <2>1, <1>2 DEF Passed
  <2>2. CASE i # p
    BY <2>2, <1>2 DEF TableInv, Findable, Resident
  <2> QED
    BY <2>1, <2>2
<1>7. KeysUnique'
  <2>1. \A i, j \in Slots : slot'[i] \in Keys /\ slot'[i] = slot'[j] => i = j
    BY <1>2, <1>4 DEF TableInv, KeysUnique, Resident
  <2>2. \A i \in Slots : \A j \in m .. old.cap - 1 : slot'[i] \in Keys => slot'[i] # old.slot[j]
    BY <1>2, <1>3 DEF TableInv, KeysUnique, Resident
  <2> QED
    BY <1>2, <2>1, <2>2 DEF KeysUnique, Resident
<1>8. OldUnique'
  BY <1>3 DEF TableInv, OldUnique
<1> QED
  BY <1>5, <1>6, <1>7, <1>8 DEF TableInv

\* An entry that becomes a tombstone does not cut the way to another.
LEMMA TableTomb ==
  ASSUME TypeInv, TableInv, NEW p \in Slots,
         slot' = [slot EXCEPT ![p] = Tomb], val' = [val EXCEPT ![p] = Null],
         UNCHANGED <<cap, old, at>>
  PROVE  TableInv'
<1> USE MapAssumption
<1>1. IsTable(cap, slot, val) /\ Slots' = Slots
  BY DEF TypeInv, TypeOK, Slots
<1>2. /\ \A i \in Slots : slot'[i] = IF i = p THEN Tomb ELSE slot[i]
      /\ \A i \in Slots : val'[i] = IF i = p THEN Null ELSE val[i]
  BY <1>1 DEF IsTable, Slots
<1>3. Valued' /\ OldUnique'
  BY <1>1, <1>2 DEF TableInv, Valued, OldUnique, Resident
<1>4. Findable'
  BY <1>1, <1>2 DEF TableInv, Findable, Resident, Home
<1>5. KeysUnique'
  BY <1>1, <1>2 DEF TableInv, KeysUnique, Resident
<1> QED
  BY <1>3, <1>4, <1>5 DEF TableInv

\* A step that leaves both buffers alone leaves alone what is said of them.
LEMMA TableKept ==
  ASSUME TableInv, UNCHANGED <<cap, slot, val, old, at>>
  PROVE  TableInv'
BY DEF TableInv, Valued, Findable, KeysUnique, OldUnique, Resident, Slots, Home

\* There is nothing to say of an empty table.
LEMMA TableFresh ==
  ASSUME NEW c \in Nat \ {0}, Fresh(c)
  PROVE  Findable' /\ \A i \in Slots' : slot'[i] = Empty /\ ~Resident(i)'
BY MapAssumption DEF Fresh, Findable, Slots, Resident

\* The steps of insert keep the table in order.
LEMMA TableInsert ==
  ASSUME TypeInv, TableInv, Searched,
         \/ \E p \in Inserts : CallInsert(p[1], p[2])
         \/ RehashPass \/ RehashTake \/ RehashPlace \/ RehashDone
         \/ InsertUpdate \/ InsertFresh
  PROVE  TableInv'
<1> USE MapAssumption
<1>0. /\ cap \in Nat \ {0} /\ at \in Nat /\ old.cap \in Nat
      /\ IsTable(cap, slot, val)
      /\ op \notin {"rehash", "move"} => at .. old.cap - 1 = {}
  BY DEF TypeInv, TypeOK, Buffers, Growing, IsTable, NoBuffer
<1>1. ASSUME NEW p \in Inserts, CallInsert(p[1], p[2])
      PROVE  TableInv'
  <2>1. CASE len * 4 >= cap * 3
    <3>1. PICK c \in Nat \ {0} : Fresh(c)
      BY <1>0, <1>1, <2>1 DEF CallInsert, MinCap
    <3>2. Findable' /\ \A i \in Slots' : slot'[i] = Empty /\ ~Resident(i)'
      BY <3>1, TableFresh
    <3>3. /\ old'.cap = cap /\ old'.slot = slot /\ old'.val = val
          /\ at' .. old'.cap - 1 = Slots
      BY <1>0, <1>1, <2>1 DEF CallInsert, Slots
    <3>4. Valued' /\ OldUnique'
      BY <3>2, <3>3 DEF TableInv, Valued, KeysUnique, OldUnique, Resident
    <3>5. KeysUnique'
      BY <3>2 DEF KeysUnique
    <3> QED
      BY <3>2, <3>4, <3>5 DEF TableInv
  <2>2. CASE ~(len * 4 >= cap * 3)
    BY <1>1, <2>2, TableKept DEF CallInsert, table, moving
  <2> QED
    BY <2>1, <2>2
<1>2. CASE RehashPass
  <2>1. at' .. old'.cap - 1 \subseteq at .. old.cap - 1 /\ UNCHANGED <<cap, slot, val, old>>
    BY <1>0, <1>2 DEF RehashPass, table
  <2> QED
    BY <2>1 DEF TableInv, Valued, Findable, KeysUnique, OldUnique, Resident, Slots, Home
<1>3. CASE RehashTake
  BY <1>3, TableKept DEF RehashTake, table, moving
<1>4. CASE RehashPlace
  <2>1. /\ at \in 0 .. old.cap - 1 /\ old.slot[at] \in Keys /\ probe \in Slots
        /\ at \in at .. old.cap - 1
    BY <1>0, <1>4 DEF RehashPlace, TypeInv, TypeOK, Buffers
  <2>2. old.val[at] \in Values
    BY <2>1 DEF TableInv, Valued
  <2>3. \A j \in at + 1 .. old.cap - 1 : old.slot[j] # old.slot[at]
    <3> SUFFICES ASSUME NEW j \in at + 1 .. old.cap - 1, old.slot[j] = old.slot[at]
                 PROVE  FALSE
      OBVIOUS
    <3>1. j \in at .. old.cap - 1 /\ j # at
      BY <1>0
    <3> QED
      BY <2>1, <3>1 DEF TableInv, OldUnique
  <2>4. Passed(old.slot[at], probe)
    BY <1>4 DEF RehashPlace, Searched
  <2>5. /\ slot[probe] = Empty
        /\ slot' = [slot EXCEPT ![probe] = old.slot[at]]
        /\ val' = [val EXCEPT ![probe] = old.val[at]]
        /\ cap' = cap /\ old' = old /\ at' = at + 1
    BY <1>4 DEF RehashPlace
  <2> QED
    BY <2>1, <2>2, <2>3, <2>4, <2>5, TablePlace
<1>5. CASE RehashDone
  <2>1. UNCHANGED <<cap, slot, val>> /\ at' .. old'.cap - 1 = {}
    BY <1>5 DEF RehashDone, table, NoBuffer
  <2> QED
    BY <2>1 DEF TableInv, Valued, Findable, KeysUnique, OldUnique, Resident, Slots, Home
<1>6. CASE InsertUpdate
  <2>1. /\ UNCHANGED <<cap, slot, old, at>> /\ new \in Values
        /\ \A i \in Slots : val'[i] = IF i = probe THEN new ELSE val[i]
    BY <1>0, <1>6 DEF InsertUpdate, moving, TypeInv, Request, IsTable, Slots
  <2> QED
    BY <2>1 DEF TableInv, Valued, Findable, KeysUnique, OldUnique, Resident, Slots, Home
<1>7. CASE InsertFresh
  <2>1. /\ arg \in Keys /\ new \in Values /\ probe \in Slots /\ Passed(arg, probe)
        /\ at .. old.cap - 1 = {}
    BY <1>0, <1>7 DEF InsertFresh, TypeInv, TypeOK, Request, Searched
  <2>2. /\ slot[probe] = Empty
        /\ slot' = [slot EXCEPT ![probe] = arg] /\ val' = [val EXCEPT ![probe] = new]
        /\ cap' = cap /\ old' = old /\ at' = at
    BY <1>7 DEF InsertFresh, moving
  <2> QED
    BY <2>1, <2>2, TablePlace
<1> QED
  BY <1>1, <1>2, <1>3, <1>4, <1>5, <1>6, <1>7

\* Every step keeps the table in order.
LEMMA TableStep ==
  ASSUME TypeInv, TableInv, Searched, [Next]_vars
  PROVE  TableInv'
<1>1. CASE UNCHANGED <<cap, slot, val, old, at>>
  BY <1>1, TableKept
<1>2. CASE RemoveHit
  <2>1. probe \in Slots
    BY <1>2 DEF RemoveHit, TypeInv, TypeOK
  <2>2. /\ slot' = [slot EXCEPT ![probe] = Tomb] /\ val' = [val EXCEPT ![probe] = Null]
        /\ UNCHANGED <<cap, old, at>>
    BY <1>2 DEF RemoveHit, moving
  <2> QED
    BY <2>1, <2>2, TableTomb
<1>3. CASE DrainTake
  <2>1. /\ probe \in Slots
        /\ slot' = [slot EXCEPT ![probe] = Tomb] /\ val' = [val EXCEPT ![probe] = Null]
        /\ UNCHANGED <<cap, old, at>>
    BY <1>3 DEF DrainTake, moving
  <2> QED
    BY <2>1, TableTomb
<1>4. CASE DropMap
  <2>1. Findable' /\ \A i \in Slots' : slot'[i] = Empty /\ ~Resident(i)'
    BY <1>4, TableFresh DEF DropMap, MinCap
  <2>2. at' .. old'.cap - 1 = {}
    BY <1>4 DEF DropMap, TypeInv, Buffers, Growing, NoBuffer, moving
  <2> QED
    BY <2>1, <2>2 DEF TableInv, Valued, KeysUnique, OldUnique
<1>5. CASE \/ \E p \in Inserts : CallInsert(p[1], p[2])
           \/ RehashPass \/ RehashTake \/ RehashPlace \/ RehashDone
           \/ InsertUpdate \/ InsertFresh
  BY <1>5, TableInsert
<1> QED
  BY <1>1, <1>2, <1>3, <1>4, <1>5
  DEF Next, Client, Work, CallLookup, Probe, Miss, GetHit, ContainsHit, StartLoop, BreakLoop,
      CallDrain, DrainPass, DrainDone, vars, table, moving


-----------------------------------------------------------------------------
(* The searches *)

\* A search starts out having passed nothing, and goes on from a slot that is
\* neither empty nor its key.
LEMMA PassedStarts ==
  ASSUME NEW k \in Keys, NEW c \in Nat \ {0}, NEW j \in 0 .. c - 1
  PROVE  ~OnTheWay(Home(k, c), j, Home(k, c))
BY HomeInTable, WayGrows

\* Each further slot of a search is passed as well.
LEMMA PassedGrows ==
  ASSUME cap \in Nat \ {0}, NEW k \in Keys, NEW p \in Slots, Passed(k, p),
         slot[p] # Empty, slot[p] # k
  PROVE  Passed(k, After(p))
<1>1. Home(k, cap) \in Slots /\ After(p) = IF p + 1 = cap THEN 0 ELSE p + 1
  BY HomeInTable, AfterInTable DEF Slots
<1>2. ASSUME NEW j \in Slots, OnTheWay(Home(k, cap), j, After(p))
      PROVE  OnTheWay(Home(k, cap), j, p) \/ j = p
  BY <1>1, <1>2, WayGrows DEF Slots
<1> QED
  BY <1>2 DEF Passed

\* Every step keeps what the searches have seen.
LEMMA SearchStep ==
  ASSUME TypeInv, TableInv, Searched, [Next]_vars
  PROVE  Searched'
<1> USE MapAssumption
<1>0. cap \in Nat \ {0}
  BY DEF TypeInv, TypeOK
<1>1. ASSUME NEW p \in Inserts, CallInsert(p[1], p[2])
      PROVE  Searched'
  <2>1. CASE len * 4 >= cap * 3
    BY <1>1, <2>1 DEF CallInsert, Searched, Lookups
  <2>2. CASE ~(len * 4 >= cap * 3)
    <3>1. p[1] \in Keys /\ op' = "insert" /\ arg' = p[1] /\ probe' = Home(p[1], cap) /\ cap' = cap
      BY <1>1, <2>2 DEF CallInsert, table
    <3> QED
      BY <1>0, <3>1, PassedStarts DEF Searched, Passed, Slots, Home
  <2> QED
    BY <2>1, <2>2
<1>2. CASE RehashTake
  <2>1. /\ old.slot[at] \in Keys /\ op' = "move" /\ probe' = Home(old.slot[at], cap)
        /\ UNCHANGED <<cap, old, at>>
    BY <1>2 DEF RehashTake, table, moving
  <2> QED
    BY <1>0, <2>1, PassedStarts DEF Searched, Passed, Slots, Home, Lookups
<1>3. CASE RehashDone
  <2>1. arg \in Keys /\ op' = "insert" /\ probe' = Home(arg, cap) /\ UNCHANGED <<cap, arg>>
    BY <1>3 DEF RehashDone, table, TypeInv, Request
  <2> QED
    BY <1>0, <2>1, PassedStarts DEF Searched, Passed, Slots, Home
<1>4. ASSUME NEW kind \in Lookups, NEW k \in Keys, CallLookup(kind, k)
      PROVE  Searched'
  <2>1. op' = kind /\ arg' = k /\ probe' = Home(k, cap) /\ cap' = cap
    BY <1>4 DEF CallLookup, table
  <2> QED
    BY <1>0, <2>1, PassedStarts DEF Searched, Passed, Slots, Home, Lookups
<1>5. CASE Probe
  <2>0. /\ probe' = After(probe) /\ probe \in Slots /\ slot[probe] # Empty
        /\ UNCHANGED <<cap, slot, old, at, op, arg>>
    BY <1>5 DEF Probe, TypeInv, TypeOK, table, moving, request
  <2>1. CASE op = "move"
    <3>1. /\ at \in at .. old.cap - 1 /\ old.slot[at] \in Keys
      BY <2>1 DEF TypeInv, Buffers
    <3>2. slot[probe] # old.slot[at]
      BY <2>0, <3>1 DEF TableInv, KeysUnique, Resident
    <3>3. Passed(old.slot[at], After(probe))
      BY <1>0, <2>0, <2>1, <3>1, <3>2, PassedGrows DEF Searched
    <3> QED
      BY <2>0, <2>1, <3>3 DEF Searched, Passed, Slots, Home, Lookups
  <2>2. CASE op # "move"
    <3>1. /\ arg \in Keys /\ op \in Lookups \cup {"insert"} /\ slot[probe] # arg
      BY <1>5, <2>2 DEF Probe, Sought, TypeInv, Request, Lookups
    <3>2. Passed(arg, After(probe))
      BY <1>0, <2>0, <3>1, PassedGrows DEF Searched
    <3> QED
      BY <2>0, <2>2, <3>2 DEF Searched, Passed, Slots, Home, Lookups
  <2> QED
    BY <2>1, <2>2
<1>6. CASE op' \in {"idle", "rehash", "drain"}
  BY <1>6 DEF Searched, Lookups
<1>7. CASE UNCHANGED vars
  BY <1>7 DEF Searched, Passed, Slots, Home, vars, table, moving, request
<1> QED
  BY <1>1, <1>2, <1>3, <1>4, <1>5, <1>6, <1>7
  DEF Next, Client, Work, Lookups, RehashPass, RehashPlace, InsertUpdate, InsertFresh, Miss,
      GetHit, ContainsHit, RemoveHit, StartLoop, BreakLoop, CallDrain, DrainPass, DrainTake,
      DrainDone, DropMap, Return, request

\* Every step keeps the slots behind the cursor clear.
LEMMA DrainStep ==
  ASSUME TypeInv, Drained, [Next]_vars
  PROVE  Drained'
<1> USE MapAssumption
<1>0. /\ cap \in Nat \ {0} /\ IsTable(cap, slot, val) /\ probe \in Nat
      /\ cursor \in Nat \cup {NoLoop}
  BY DEF TypeInv, TypeOK
<1>1. CASE cursor' = NoLoop /\ op' # "drain"
  BY <1>1 DEF Drained
<1>2. CASE UNCHANGED <<cap, slot, cursor>> /\ op' # "drain"
  BY <1>2 DEF Drained, Slots, Resident
<1>3. CASE RemoveHit
  <2>1. /\ op' = "idle" /\ UNCHANGED <<cap, cursor>>
        /\ \A i \in Slots : slot'[i] \in {slot[i], Tomb}
    BY <1>0, <1>3 DEF RemoveHit, Return, IsTable, Slots
  <2> QED
    BY <2>1 DEF Drained, Slots, Resident
<1>4. CASE StartLoop
  BY <1>0, <1>4 DEF StartLoop, Drained, Slots, request
<1>5. CASE CallDrain
  BY <1>5 DEF CallDrain, Drained, Slots, Resident, table
<1>6. CASE DrainPass
  <2>1. /\ ~Resident(probe) /\ probe' = probe + 1 /\ UNCHANGED <<cap, slot, cursor>>
        /\ \A i \in Slots : i < probe + 1 => i < probe \/ i = probe
    BY <1>0, <1>6 DEF DrainPass, table, Slots
  <2> QED
    BY <1>6, <2>1 DEF DrainPass, Drained, Slots, Resident, request
<1>7. CASE DrainTake
  <2>1. /\ cursor' = probe + 1 /\ op' = "idle" /\ cap' = cap
        /\ \A i \in Slots : slot'[i] = IF i = probe THEN Tomb ELSE slot[i]
        /\ \A i \in Slots : i < probe + 1 => i < probe \/ i = probe
    BY <1>0, <1>7 DEF DrainTake, Return, IsTable, Slots
  <2> QED
    BY <1>7, <2>1 DEF DrainTake, Drained, Slots, Resident
<1>8. CASE UNCHANGED vars
  BY <1>8 DEF Drained, Slots, Resident, vars, table, request
<1> QED
  BY <1>1, <1>2, <1>3, <1>4, <1>5, <1>6, <1>7, <1>8
  DEF Next, Client, Work, CallInsert, CallLookup, RehashPass, RehashTake, RehashPlace, RehashDone,
      InsertUpdate, InsertFresh, Probe, Miss, GetHit, ContainsHit, BreakLoop, DrainDone, DropMap,
      Return, table, request, TypeInv, Request, Lookups

-----------------------------------------------------------------------------
(* Theorems *)

\* A new map satisfies the invariant.
LEMMA IInvInit == ASSUME Init PROVE IInv
<1> USE MapAssumption
<1>1. TypeInv
  BY TypeInit
<1>2. /\ \A i \in Slots : slot[i] = Empty /\ ~Resident(i)
      /\ at .. old.cap - 1 = {}
  BY DEF Init, MinCap, Slots, Resident, NoBuffer
<1>3. TableInv
  BY <1>2 DEF TableInv, Valued, Findable, KeysUnique, OldUnique
<1>4. SearchInv
  BY DEF Init, SearchInv, Searched, Drained, Lookups
<1> QED
  BY <1>1, <1>3, <1>4 DEF IInv

\* Every step keeps the invariant: types, table and searches rest on each other.
LEMMA IInvStep == ASSUME IInv, [Next]_vars PROVE IInv'
BY TypeStep, TableStep, SearchStep, DrainStep DEF IInv, SearchInv

\* Types, order of the table and what the searches know hold throughout.
LEMMA IInvHolds == Spec => []IInv
BY IInvInit, IInvStep, PTL DEF Spec

\* Whatever is inserted, removed and drained, and while a rehash is half
\* done: no slot between an entry and its home is empty, so a search for it
\* reaches it.
THEOREM EntriesFindable == Spec => []Findable
<1>1. IInv => Findable
  BY DEF IInv, TableInv
<1> QED
  BY <1>1, IInvHolds, PTL

\* A key is never twice in the table, nor in it and still to be moved.
THEOREM NoKeyTwice == Spec => []KeysUnique
<1>1. IInv => KeysUnique
  BY DEF IInv, TableInv
<1> QED
  BY <1>1, IInvHolds, PTL

-----------------------------------------------------------------------------
(* Keys owned, entries counted *)

Residents == {i \in Slots : Resident(i)}
Waiting   == {j \in at .. old.cap - 1 : old.slot[j] \in Keys}

\* In the table or waiting to be moved.
Holds(k) == \/ \E i \in Slots : slot[i] = k
            \/ \E j \in at .. old.cap - 1 : old.slot[j] = k

Inserting == op \in {"insert", "rehash", "move"}

\* An allocation of a key is either behind an entry or on its way into an
\* insert, and an entry is in the table or still to be moved.
Accounted ==
  /\ key_live \in [Keys -> Int]
  /\ \A k \in Keys : key_live[k] = (IF Holds(k) THEN 1 ELSE 0)
                                   + (IF Inserting /\ arg = k THEN 1 ELSE 0)
  /\ len = Cardinality(Residents) + Cardinality(Waiting)

LEMMA EntriesFinite ==
  ASSUME TypeInv
  PROVE  /\ IsFiniteSet(Residents) /\ Cardinality(Residents) \in Nat
         /\ IsFiniteSet(Waiting) /\ Cardinality(Waiting) \in Nat
<1>1. cap \in Nat /\ old.cap \in Nat /\ at \in Nat
  BY DEF TypeInv, TypeOK, NoBuffer, IsTable
<1>2. IsFiniteSet(Slots) /\ IsFiniteSet(at .. old.cap - 1)
  BY <1>1, FS_Interval DEF Slots
<1> QED
  BY <1>2, FS_Subset, FS_CardinalityType DEF Residents, Waiting

\* Nothing waits but while the table grows.
LEMMA NobodyWaits == ASSUME TypeInv, ~Growing PROVE at .. old.cap - 1 = {} /\ Waiting = {}
BY DEF TypeInv, Buffers, NoBuffer, Waiting

LEMMA AccountInit == ASSUME Init PROVE Accounted
<1>1. /\ \A i \in Slots : slot[i] = Empty
      /\ at .. old.cap - 1 = {}
  BY DEF Init, MinCap, Slots, NoBuffer
<1>2. Residents = {} /\ Waiting = {} /\ \A k \in Keys : ~Holds(k)
  BY <1>1, MapAssumption DEF Residents, Waiting, Holds, Resident
<1> QED
  BY <1>2, FS_EmptySet DEF Init, Accounted, Inserting

\* Steps that neither take nor free a key, nor change what the buffers hold.
LEMMA AccountSame ==
  ASSUME Accounted, Residents' = Residents, Waiting' = Waiting,
         \A k \in Keys : Holds(k)' <=> Holds(k),
         Inserting' <=> Inserting, Inserting => arg' = arg,
         UNCHANGED <<len, key_live>>
  PROVE  Accounted'
BY DEF Accounted

LEMMA AccountHidden ==
  ASSUME IInv, Accounted,
         \/ UNCHANGED vars \/ RehashPass \/ RehashTake \/ RehashDone \/ Probe
         \/ Miss \/ GetHit \/ ContainsHit \/ DrainPass \/ DrainDone
         \/ \E kind \in Lookups, k \in Keys : CallLookup(kind, k)
         \/ StartLoop \/ BreakLoop \/ CallDrain
  PROVE  Accounted'
<1> USE DEF table, moving, request, memory
<1>1. UNCHANGED <<cap, slot, len, key_live>>
  BY DEF vars, RehashPass, RehashTake, RehashDone, Probe, Miss, GetHit, ContainsHit, DrainPass,
         DrainDone, CallLookup, StartLoop, BreakLoop, CallDrain
<1>2. (Inserting' <=> Inserting) /\ (Inserting => arg' = arg)
  BY DEF vars, RehashPass, RehashTake, RehashDone, Probe, Miss, GetHit, ContainsHit, DrainPass,
         DrainDone, CallLookup, StartLoop, BreakLoop, CallDrain, Inserting, Return, Lookups
<1>3. \/ UNCHANGED <<old, at>>
      \/ RehashPass
      \/ RehashDone
  BY DEF vars, RehashTake, Probe, Miss, GetHit, ContainsHit, DrainPass,
         DrainDone, CallLookup, StartLoop, BreakLoop, CallDrain
<1>4. Waiting' = Waiting /\ \A k \in Keys : Holds(k)' <=> Holds(k)
  <2>1. CASE UNCHANGED <<old, at>>
    BY <1>1, <2>1 DEF Waiting, Holds, Slots
  <2>2. CASE RehashPass
    <3>1. /\ at \in Nat /\ old.cap \in Nat /\ at < old.cap
          /\ at' = at + 1 /\ old' = old /\ old.slot[at] \notin Keys
      BY <2>2 DEF RehashPass, IInv, TypeInv, TypeOK, Buffers, Growing, IsTable
    <3>2. at .. old.cap - 1 = {at} \cup (at + 1 .. old.cap - 1)
      BY <3>1
    <3> QED
      BY <1>1, <3>1, <3>2 DEF Waiting, Holds, Slots
  <2>3. CASE RehashDone
    <3>1. at .. old.cap - 1 = {} /\ at' .. old'.cap - 1 = {}
      BY <2>3 DEF RehashDone, NoBuffer, IInv, TypeInv, TypeOK, Buffers, Growing, IsTable
    <3> QED
      BY <1>1, <3>1 DEF Waiting, Holds, Slots
  <2> QED
    BY <1>3, <2>1, <2>2, <2>3
<1>5. Residents' = Residents
  BY <1>1 DEF Residents, Resident, Slots
<1> QED
  BY <1>1, <1>2, <1>4, <1>5, AccountSame

\* The key that is handed over is accounted for, whether the table grows or not.
LEMMA AccountCall ==
  ASSUME IInv, Accounted, NEW k \in Keys, NEW v \in Values, CallInsert(k, v)
  PROVE  Accounted'
<1>1. op = "idle" /\ Inserting' /\ arg' = k /\ len' = len
  BY DEF CallInsert, Inserting, table
<1>2. /\ key_live' \in [Keys -> Int]
      /\ \A x \in Keys : key_live'[x] = key_live[x] + (IF x = k THEN 1 ELSE 0)
  BY DEF CallInsert, Take, Accounted
<1>3. at .. old.cap - 1 = {} /\ Waiting = {}
  BY <1>1, NobodyWaits DEF IInv, Growing
<1>4. CASE UNCHANGED <<table, moving>>
  <2>1. Residents' = Residents /\ Waiting' = Waiting /\ \A x \in Keys : Holds(x)' <=> Holds(x)
    BY <1>4 DEF table, moving, Residents, Resident, Slots, Waiting, Holds
  <2> QED
    BY <1>1, <1>2, <2>1 DEF Accounted, Inserting
<1>5. CASE ~UNCHANGED <<table, moving>>
  <2>1. PICK c \in Nat \ {0} : Fresh(c)
    BY <1>5 DEF CallInsert, MinCap, IInv, TypeInv, TypeOK
  <2>2. old' = [cap |-> cap, slot |-> slot, val |-> val] /\ at' = 0
    BY <1>5 DEF CallInsert
  <2>3. \A i \in Slots' : slot'[i] = Empty /\ ~Resident(i)'
    BY <2>1, TableFresh
  <2>4. Residents' = {} /\ Waiting' = Residents
    BY <2>2, <2>3 DEF Residents, Resident, Waiting, Slots
  <2>5. \A x \in Keys : Holds(x)' <=> Holds(x)
    BY <1>3, <2>2, <2>3, MapAssumption DEF Holds, Slots
  <2>6. len' = Cardinality(Residents') + Cardinality(Waiting')
    BY <1>1, <1>3, <2>4, FS_EmptySet, EntriesFinite DEF Accounted, IInv
  <2> QED
    BY <1>1, <1>2, <2>5, <2>6 DEF Accounted, Inserting
<1> QED
  BY <1>4, <1>5

\* An entry that waited is in the table.
LEMMA AccountMove ==
  ASSUME IInv, Accounted, RehashPlace
  PROVE  Accounted'
<1>1. /\ at \in Nat /\ old.cap \in Nat /\ at \in 0 .. old.cap - 1 /\ old.slot[at] \in Keys
      /\ op = "move" /\ probe \in Slots /\ slot[probe] = Empty
  BY DEF RehashPlace, IInv, TypeInv, TypeOK, Buffers, Growing, IsTable
<1>2. /\ slot' = [slot EXCEPT ![probe] = old.slot[at]] /\ at' = at + 1 /\ op' = "rehash"
      /\ UNCHANGED <<cap, len, old, arg, key_live>>
  BY DEF RehashPlace, memory
<1>3. at .. old.cap - 1 = {at} \cup (at + 1 .. old.cap - 1) /\ at \notin at + 1 .. old.cap - 1
  BY <1>1
<1>4. /\ Slots' = Slots
      /\ \A i \in Slots : slot'[i] = IF i = probe THEN old.slot[at] ELSE slot[i]
  BY <1>2 DEF Slots, IInv, TypeInv, TypeOK, IsTable
<1>5. Residents' = Residents \cup {probe} /\ probe \notin Residents
  BY <1>1, <1>4, MapAssumption DEF Residents, Resident
<1>6. Waiting' = Waiting \ {at} /\ at \in Waiting
  BY <1>1, <1>2, <1>3 DEF Waiting
<1>7. \A k \in Keys : Holds(k)' <=> Holds(k)
  BY <1>1, <1>2, <1>3, <1>4, MapAssumption DEF Holds
<1>8. /\ Cardinality(Residents') = Cardinality(Residents) + 1
      /\ Cardinality(Waiting') = Cardinality(Waiting) - 1
      /\ Cardinality(Residents) \in Nat /\ Cardinality(Waiting) \in Nat
  BY <1>5, <1>6, EntriesFinite, FS_AddElement, FS_RemoveElement DEF IInv
<1> QED
  BY <1>1, <1>2, <1>7, <1>8 DEF Accounted, Inserting

\* An insert ends with its key in the table once, the second one freed.
LEMMA AccountInsert ==
  ASSUME IInv, Accounted, InsertUpdate \/ InsertFresh
  PROVE  Accounted'
<1>1. /\ op = "insert" /\ arg \in Keys /\ probe \in Slots /\ op' = "idle"
      /\ UNCHANGED <<cap, old, at>>
  BY DEF InsertUpdate, InsertFresh, Return, moving, IInv, TypeInv, TypeOK, Request
<1>2. at .. old.cap - 1 = {} /\ Waiting = {}
  BY <1>1, NobodyWaits DEF IInv, Growing
<1>3. ~Inserting' /\ Inserting /\ Waiting' = Waiting /\ Slots' = Slots
  BY <1>1 DEF Inserting, Waiting, Slots
<1>4. CASE InsertUpdate
  <2>1. /\ slot[probe] = arg /\ UNCHANGED <<slot, len>>
        /\ key_live' \in [Keys -> Int]
        /\ \A x \in Keys : key_live'[x] = key_live[x] - (IF x = arg THEN 1 ELSE 0)
    BY <1>1, <1>4 DEF InsertUpdate, Release, Accounted
  <2>2. Residents' = Residents /\ \A x \in Keys : Holds(x)' <=> Holds(x)
    BY <1>1, <1>3, <2>1 DEF Residents, Resident, Holds
  <2> QED
    BY <1>3, <2>1, <2>2 DEF Accounted
<1>5. CASE InsertFresh
  <2>1. /\ slot[probe] = Empty /\ slot' = [slot EXCEPT ![probe] = arg] /\ len' = len + 1
        /\ UNCHANGED key_live
    BY <1>5 DEF InsertFresh, memory
  <2>2. \A i \in Slots : slot'[i] = IF i = probe THEN arg ELSE slot[i]
    BY <2>1 DEF Slots, IInv, TypeInv, TypeOK, IsTable
  <2>3. Residents' = Residents \cup {probe} /\ probe \notin Residents
    BY <1>1, <1>3, <2>1, <2>2, MapAssumption DEF Residents, Resident
  <2>4. Passed(arg, probe)
    BY <1>1 DEF IInv, SearchInv, Searched
  <2>5. ~Holds(arg)
    BY <1>1, <1>2, <2>1, <2>4, SearchEnds DEF Holds, IInv, TableInv
  <2>6. \A x \in Keys : Holds(x)' <=> Holds(x) \/ x = arg
    <3>1. slot'[probe] = arg /\ at' .. old'.cap - 1 = {}
      BY <1>1, <1>2, <2>2
    <3>2. \A x \in Keys : Holds(x) <=> \E i \in Slots : slot[i] = x
      BY <1>2 DEF Holds
    <3>3. \A x \in Keys : Holds(x)' <=> \E i \in Slots : slot'[i] = x
      BY <1>3, <3>1 DEF Holds
    <3>4. \A x \in Keys : x # slot[probe]
      BY <2>1, MapAssumption
    <3> QED
      BY <1>1, <2>2, <3>1, <3>2, <3>3, <3>4
  <2>7. Cardinality(Residents') = Cardinality(Residents) + 1 /\ Cardinality(Residents) \in Nat
    BY <2>3, EntriesFinite, FS_AddElement DEF IInv
  <2>8. Cardinality(Waiting') = Cardinality(Waiting) /\ Cardinality(Waiting) \in Nat
    BY <1>3, EntriesFinite DEF IInv
  <2>9. len' = Cardinality(Residents') + Cardinality(Waiting')
    BY <2>1, <2>7, <2>8 DEF Accounted
  <2> QED
    <3>1. ASSUME NEW x \in Keys
          PROVE  key_live'[x] = IF Holds(x)' THEN 1 ELSE 0
      <4>1. key_live[x] = (IF Holds(x) THEN 1 ELSE 0) + (IF x = arg THEN 1 ELSE 0)
        BY <1>3 DEF Accounted
      <4> QED
        BY <2>1, <2>5, <2>6, <4>1
    <3>2. key_live' \in [Keys -> Int]
      BY <2>1 DEF Accounted
    <3> QED
      BY <1>3, <2>9, <3>1, <3>2 DEF Accounted
<1> QED
  BY <1>4, <1>5

\* An entry that is taken out takes its key with it: there was no second one.
LEMMA AccountTomb ==
  ASSUME IInv, Accounted, RemoveHit \/ DrainTake
  PROVE  Accounted'
<1>1. /\ op \in {"remove", "drain"} /\ op' = "idle" /\ probe \in Slots /\ slot[probe] \in Keys
      /\ slot' = [slot EXCEPT ![probe] = Tomb] /\ len' = len - 1 /\ Release(slot[probe])
      /\ UNCHANGED <<cap, old, at>>
  BY DEF RemoveHit, DrainTake, Return, moving, IInv, TypeInv, TypeOK, Request, Lookups, Resident
<1>2. at .. old.cap - 1 = {} /\ Waiting = {} /\ Waiting' = Waiting /\ Slots' = Slots
  BY <1>1, NobodyWaits DEF IInv, Growing, Waiting, Slots
<1>3. ~Inserting /\ ~Inserting'
  BY <1>1 DEF Inserting
<1>4. \A i \in Slots : slot'[i] = IF i = probe THEN Tomb ELSE slot[i]
  BY <1>1 DEF Slots, IInv, TypeInv, TypeOK, IsTable
<1>5. Residents' = Residents \ {probe} /\ probe \in Residents
  BY <1>1, <1>2, <1>4, MapAssumption DEF Residents, Resident
<1>6. Holds(slot[probe])
  BY <1>1 DEF Holds
<1>7. \A x \in Keys : Holds(x)' <=> Holds(x) /\ x # slot[probe]
  <2>1. at' .. old'.cap - 1 = {}
    BY <1>1, <1>2
  <2>2. \A x \in Keys : Holds(x) <=> \E i \in Slots : slot[i] = x
    BY <1>2 DEF Holds
  <2>3. \A x \in Keys : Holds(x)' <=> \E i \in Slots : slot'[i] = x
    BY <1>2, <2>1 DEF Holds
  <2>4. \A i \in Slots : slot[i] = slot[probe] => i = probe
    BY <1>1 DEF IInv, TableInv, KeysUnique, Resident
  <2>5. \A x \in Keys : x # Tomb
    BY MapAssumption
  <2> QED
    BY <1>1, <1>4, <2>2, <2>3, <2>4, <2>5
<1>8. /\ key_live' \in [Keys -> Int]
      /\ \A x \in Keys : key_live'[x] = key_live[x] - (IF x = slot[probe] THEN 1 ELSE 0)
  BY <1>1 DEF Release, Accounted
<1>9. /\ Cardinality(Residents') = Cardinality(Residents) - 1 /\ Cardinality(Residents) \in Nat
      /\ Cardinality(Waiting') = Cardinality(Waiting) /\ Cardinality(Waiting) \in Nat
  BY <1>2, <1>5, EntriesFinite, FS_RemoveElement DEF IInv
<1>10. len' = Cardinality(Residents') + Cardinality(Waiting')
  BY <1>1, <1>9 DEF Accounted
<1> QED
  <2>1. ASSUME NEW x \in Keys
        PROVE  key_live'[x] = IF Holds(x)' THEN 1 ELSE 0
    <3>1. key_live[x] = IF Holds(x) THEN 1 ELSE 0
      BY <1>3 DEF Accounted
    <3> QED
      BY <1>6, <1>7, <1>8, <3>1
  <2> QED
    BY <1>3, <1>8, <1>10, <2>1 DEF Accounted

\* The map that is dropped frees the one key of each entry.
LEMMA AccountDrop ==
  ASSUME IInv, Accounted, DropMap
  PROVE  Accounted'
<1>1. op = "idle" /\ Fresh(MinCap) /\ len' = 0 /\ UNCHANGED <<old, at, op>>
  BY DEF DropMap, moving, request
<1>2. at .. old.cap - 1 = {} /\ Waiting = {} /\ Waiting' = {}
  BY <1>1, NobodyWaits DEF IInv, Growing, Waiting
<1>3. \A i \in Slots' : slot'[i] = Empty /\ ~Resident(i)'
  BY <1>1, TableFresh DEF MinCap
<1>4. Residents' = {} /\ \A k \in Keys : ~Holds(k)'
  BY <1>1, <1>2, <1>3, MapAssumption DEF Residents, Holds
<1>5. ~Inserting /\ ~Inserting'
  BY <1>1 DEF Inserting
<1>6. ASSUME NEW k \in Keys
      PROVE  Cardinality({i \in Slots : slot[i] = k}) = IF Holds(k) THEN 1 ELSE 0
  <2>1. CASE \E i \in Slots : slot[i] = k
    <3>1. PICK i \in Slots : slot[i] = k
      BY <2>1
    <3>2. {j \in Slots : slot[j] = k} = {i}
      BY <3>1 DEF IInv, TableInv, KeysUnique, Resident
    <3> QED
      BY <2>1, <3>2, FS_Singleton DEF Holds
  <2>2. CASE \A i \in Slots : slot[i] # k
    <3>1. {j \in Slots : slot[j] = k} = {} /\ ~Holds(k)
      BY <1>2, <2>2 DEF Holds
    <3> QED
      BY <3>1, FS_EmptySet
  <2> QED
    BY <2>1, <2>2
<1>7. /\ key_live' = [k \in Keys |-> key_live[k] - Cardinality({i \in Slots : slot[i] = k})]
  BY DEF DropMap
<1>8. \A k \in Keys : key_live'[k] = 0
  BY <1>5, <1>6, <1>7 DEF Accounted
<1>9. key_live' \in [Keys -> Int]
  BY <1>7, <1>8
<1> QED
  BY <1>1, <1>2, <1>4, <1>5, <1>8, <1>9, FS_EmptySet DEF Accounted

LEMMA AccountStep == ASSUME IInv, Accounted, [Next]_vars PROVE Accounted'
<1>1. ASSUME NEW p \in Inserts, CallInsert(p[1], p[2]) PROVE Accounted'
  <2>1. p[1] \in Keys /\ p[2] \in Values
    BY MapAssumption
  <2> QED
    BY <1>1, <2>1, AccountCall
<1> QED
  BY <1>1, AccountHidden, AccountMove, AccountInsert, AccountTomb, AccountDrop
  DEF Next, Client, Work, Lookups

\* Between operations the map answers for one allocation of each key it holds
\* and of no other, and len counts the entries: for any keys, hash function
\* and sequence of inserts, updates, removals, drains and drops.
THEOREM OneAllocationEach == Spec => []KeysOwned
<1>1. Init => IInv /\ Accounted
  BY IInvInit, AccountInit
<1>2. IInv /\ Accounted /\ [Next]_vars => IInv' /\ Accounted'
  BY IInvStep, AccountStep
<1>3. IInv /\ Accounted => KeysOwned
  <2> SUFFICES ASSUME IInv, Accounted, op = "idle" PROVE KeysOwned
    BY DEF KeysOwned
  <2>1. at .. old.cap - 1 = {} /\ Waiting = {} /\ ~Inserting
    BY NobodyWaits DEF IInv, Growing, Inserting
  <2>2. \A k \in Keys : key_live[k] = IF \E i \in Slots : slot[i] = k THEN 1 ELSE 0
    BY <2>1 DEF Accounted, Holds
  <2>3. len = Cardinality(Residents)
    BY <2>1, EntriesFinite, FS_EmptySet DEF Accounted, IInv
  <2> QED
    BY <2>2, <2>3 DEF KeysOwned, Residents
<1> QED
  BY <1>1, <1>2, <1>3, PTL DEF Spec


-----------------------------------------------------------------------------
(* The table as a map *)

\* Where Content gets its values from.
Tracks ==
  /\ Content = [k \in Keys |-> Content[k]]
  /\ \A i \in Slots : Resident(i) => Content[slot[i]] = val[i]
  /\ \A j \in at .. old.cap - 1 : old.slot[j] \in Keys => Content[old.slot[j]] = old.val[j]
  /\ \A k \in Keys :
       (\A i \in Slots : slot[i] # k) /\ (\A j \in at .. old.cap - 1 : old.slot[j] # k)
         => Content[k] = Null

\* Keys being unique, the content of a key is the value next to it.
LEMMA ContentTracks == KeysUnique /\ OldUnique => Tracks
<1> SUFFICES ASSUME KeysUnique, OldUnique
             PROVE  Tracks
  OBVIOUS
<1>1. Content = [k \in Keys |-> Content[k]]
  BY DEF Content
<1>2. ASSUME NEW i \in Slots, Resident(i)
      PROVE  Content[slot[i]] = val[i]
  <2>1. Place(slot[i]) \in Slots /\ slot[Place(slot[i])] = slot[i]
    BY DEF Place
  <2>2. Place(slot[i]) = i
    BY <1>2, <2>1 DEF KeysUnique, Resident
  <2> QED
    BY <1>2, <2>2 DEF Content, Resident
<1>3. ASSUME NEW j \in at .. old.cap - 1, old.slot[j] \in Keys
      PROVE  Content[old.slot[j]] = old.val[j]
  <2>1. \A i \in Slots : slot[i] # old.slot[j]
    BY <1>3 DEF KeysUnique, Resident
  <2>2. /\ OldPlace(old.slot[j]) \in at .. old.cap - 1
        /\ old.slot[OldPlace(old.slot[j])] = old.slot[j]
    BY DEF OldPlace
  <2>3. OldPlace(old.slot[j]) = j
    BY <1>3, <2>2 DEF OldUnique
  <2> QED
    BY <1>3, <2>1, <2>3 DEF Content
<1>4. ASSUME NEW k \in Keys, \A i \in Slots : slot[i] # k,
             \A j \in at .. old.cap - 1 : old.slot[j] # k
      PROVE  Content[k] = Null
  BY <1>4 DEF Content
<1> QED
  BY <1>1, <1>2, <1>3, <1>4 DEF Tracks

\* The same of the next state.
LEMMA ContentTracksNext == (KeysUnique /\ OldUnique)' => Tracks'
BY ContentTracks, PTL


\* The content is the same if every entry, in the table or waiting, has
\* stayed in the table or waiting, with its value.
LEMMA ContentSame ==
  ASSUME Tracks, Tracks',
         \A i \in Slots : Resident(i) =>
           \/ \E m \in Slots' : slot'[m] = slot[i] /\ val'[m] = val[i]
           \/ \E m \in at' .. old'.cap - 1 : old'.slot[m] = slot[i] /\ old'.val[m] = val[i],
         \A j \in at .. old.cap - 1 : old.slot[j] \in Keys =>
           \/ \E m \in Slots' : slot'[m] = old.slot[j] /\ val'[m] = old.val[j]
           \/ \E m \in at' .. old'.cap - 1 :
                old'.slot[m] = old.slot[j] /\ old'.val[m] = old.val[j],
         \A m \in Slots' : slot'[m] \in Keys =>
           \/ \E i \in Slots : slot[i] = slot'[m]
           \/ \E j \in at .. old.cap - 1 : old.slot[j] = slot'[m],
         \A m \in at' .. old'.cap - 1 : old'.slot[m] \in Keys =>
           \/ \E i \in Slots : slot[i] = old'.slot[m]
           \/ \E j \in at .. old.cap - 1 : old.slot[j] = old'.slot[m]
  PROVE  Content' = Content
<1> SUFFICES ASSUME NEW k \in Keys
             PROVE  Content'[k] = Content[k]
  BY DEF Tracks
<1>1. CASE \E i \in Slots : slot[i] = k
  <2>1. PICK i \in Slots : slot[i] = k
    BY <1>1
  <2>2. Content[k] = val[i]
    BY <2>1 DEF Tracks, Resident
  <2>3. CASE \E m \in Slots' : slot'[m] = k /\ val'[m] = val[i]
    BY <2>2, <2>3 DEF Tracks, Resident
  <2>4. CASE \E m \in at' .. old'.cap - 1 : old'.slot[m] = k /\ old'.val[m] = val[i]
    BY <2>2, <2>4 DEF Tracks
  <2> QED
    BY <2>1, <2>3, <2>4 DEF Resident
<1>2. CASE \E j \in at .. old.cap - 1 : old.slot[j] = k
  <2>1. PICK j \in at .. old.cap - 1 : old.slot[j] = k
    BY <1>2
  <2>2. Content[k] = old.val[j]
    BY <2>1 DEF Tracks
  <2>3. CASE \E m \in Slots' : slot'[m] = k /\ val'[m] = old.val[j]
    BY <2>2, <2>3 DEF Tracks, Resident
  <2>4. CASE \E m \in at' .. old'.cap - 1 : old'.slot[m] = k /\ old'.val[m] = old.val[j]
    BY <2>2, <2>4 DEF Tracks
  <2> QED
    BY <2>1, <2>3, <2>4
<1>3. CASE /\ \A i \in Slots : slot[i] # k
           /\ \A j \in at .. old.cap - 1 : old.slot[j] # k
  <2>1. /\ \A i \in Slots' : slot'[i] # k
        /\ \A j \in at' .. old'.cap - 1 : old'.slot[j] # k
    BY <1>3
  <2> QED
    BY <1>3, <2>1 DEF Tracks
<1> QED
  BY <1>1, <1>2, <1>3

\* One entry written, the old buffer out of play.
LEMMA ContentPut ==
  ASSUME TypeInv, Tracks, Tracks', KeysUnique',
         at .. old.cap - 1 = {}, UNCHANGED <<cap, old, at>>,
         NEW k \in Keys, NEW v \in Values, NEW p \in Slots, slot[p] \in {Empty, k},
         slot' = [slot EXCEPT ![p] = k], val' = [val EXCEPT ![p] = v]
  PROVE  Content' = [Content EXCEPT ![k] = v]
<1> USE MapAssumption
<1>1. /\ Slots' = Slots
      /\ \A i \in Slots : slot'[i] = IF i = p THEN k ELSE slot[i]
      /\ \A i \in Slots : val'[i] = IF i = p THEN v ELSE val[i]
  BY DEF TypeInv, TypeOK, IsTable, Slots
<1>2. Content'[k] = v
  BY <1>1 DEF Tracks, Resident
<1>3. ASSUME NEW l \in Keys, l # k
      PROVE  Content'[l] = Content[l]
  <2>1. CASE \E i \in Slots : slot[i] = l
    <3>1. PICK i \in Slots : slot[i] = l
      BY <2>1
    <3>2. i # p
      BY <1>3, <3>1
    <3>3. slot[i] \in Keys /\ slot'[i] = l /\ slot'[i] \in Keys /\ val'[i] = val[i]
      BY <1>1, <1>3, <3>1, <3>2
    <3>4. Resident(i) /\ Resident(i)'
      BY <3>3 DEF Resident
    <3>5. Content[l] = val[i]
      BY <3>1, <3>4 DEF Tracks
    <3>6. Content'[l] = val'[i]
      BY <1>1, <3>3, <3>4 DEF Tracks
    <3> QED
      BY <3>3, <3>5, <3>6
  <2>2. CASE \A i \in Slots : slot[i] # l
    BY <1>1, <1>3, <2>2 DEF Tracks
  <2> QED
    BY <2>1, <2>2
<1> QED
  BY <1>2, <1>3 DEF Tracks

\* One entry turned into a tombstone.
LEMMA ContentDelete ==
  ASSUME TypeInv, Tracks, Tracks', KeysUnique,
         at .. old.cap - 1 = {}, UNCHANGED <<cap, old, at>>,
         NEW p \in Slots, Resident(p),
         slot' = [slot EXCEPT ![p] = Tomb], val' = [val EXCEPT ![p] = Null]
  PROVE  Content' = [Content EXCEPT ![slot[p]] = Null]
<1> USE MapAssumption
<1>1. /\ Slots' = Slots
      /\ \A i \in Slots : slot'[i] = IF i = p THEN Tomb ELSE slot[i]
      /\ \A i \in Slots : val'[i] = IF i = p THEN Null ELSE val[i]
  BY DEF TypeInv, TypeOK, IsTable, Slots
<1>2. Content'[slot[p]] = Null
  <2>1. \A i \in Slots : slot'[i] # slot[p]
    BY <1>1 DEF KeysUnique, Resident
  <2> QED
    BY <1>1, <2>1 DEF Tracks, Resident
<1>3. ASSUME NEW l \in Keys, l # slot[p]
      PROVE  Content'[l] = Content[l]
  <2>1. CASE \E i \in Slots : slot[i] = l
    <3>1. PICK i \in Slots : slot[i] = l
      BY <2>1
    <3>2. i # p
      BY <1>3, <3>1
    <3>3. slot'[i] = l /\ val'[i] = val[i]
      BY <1>1, <3>1, <3>2
    <3>4. Content[l] = val[i]
      BY <3>1 DEF Tracks, Resident
    <3>5. Content'[l] = val'[i]
      BY <1>1, <3>3 DEF Tracks, Resident
    <3> QED
      BY <3>3, <3>4, <3>5
  <2>2. CASE \A i \in Slots : slot[i] # l
    <3>1. /\ \A i \in Slots : slot'[i] # l
          /\ \A j \in at .. old.cap - 1 : old.slot[j] # l
      BY <1>1, <1>3, <2>2
    <3>2. Content[l] = Null
      BY <2>2, <3>1 DEF Tracks
    <3>3. Content'[l] = Null
      BY <1>1, <3>1 DEF Tracks
    <3> QED
      BY <3>2, <3>3
  <2> QED
    BY <2>1, <2>2
<1> QED
  BY <1>2, <1>3 DEF Tracks, Resident


\* What a search for k that ends at an empty slot means.
LEMMA NothingFound ==
  ASSUME IInv, Tracks, op \in Lookups \cup {"insert"}, slot[probe] = Empty
  PROVE  Content[arg] = Null /\ \A i \in Slots : slot[i] # arg
<1>1. arg \in Keys /\ probe \in Slots /\ Passed(arg, probe) /\ at .. old.cap - 1 = {}
  BY DEF IInv, TypeInv, TypeOK, Request, Buffers, Growing, NoBuffer, SearchInv, Searched, Lookups
<1>2. \A i \in Slots : slot[i] # arg
  BY <1>1, SearchEnds DEF IInv, TableInv
<1> QED
  BY <1>1, <1>2 DEF Tracks

\* Calls are calls of the map; the growth of the table does not show.
LEMMA RefineCall ==
  ASSUME IInv, IInv', Tracks, Tracks',
         \/ \E p \in Inserts : CallInsert(p[1], p[2])
         \/ \E kind \in Lookups, k \in Keys : CallLookup(kind, k)
         \/ CallDrain
  PROVE  Map!Call
<1> USE MapAssumption
<1>0. op = "idle" /\ Pending = Map!Nobody /\ answer' = Map!Nothing
  <2>1. op = "idle" /\ answer' = Map!Nothing
    BY DEF CallInsert, CallLookup, CallDrain, Nothing, Map!Nothing
  <2> QED
    BY <2>1 DEF IInv, TypeInv, Request, Pending, Map!Nobody
<1>1. ASSUME NEW p \in Inserts, CallInsert(p[1], p[2])
      PROVE  Content' = Content /\ Pending' \in Map!Calls
  <2>1. p[1] \in Keys /\ p[2] \in Values /\ arg' = p[1] /\ new' = p[2]
        /\ op' \in {"insert", "rehash"}
    BY <1>1 DEF CallInsert
  <2>2. Pending' \in Map!Calls
    BY <2>1 DEF Pending, Map!Calls
  <2>3. CASE len * 4 >= cap * 3
    <3>1. PICK c \in Nat \ {0} : Fresh(c)
      BY <1>1, <2>3 DEF CallInsert, MinCap, IInv, TypeInv, TypeOK
    <3>2. \A i \in Slots' : slot'[i] = Empty
      BY <3>1, TableFresh
    <3>3. old'.slot = slot /\ old'.val = val /\ at' .. old'.cap - 1 = Slots
      BY <1>1, <2>3 DEF CallInsert, Slots, IInv, TypeInv, TypeOK
    <3>4. at .. old.cap - 1 = {}
      BY <1>0 DEF IInv, TypeInv, Buffers, Growing, NoBuffer
    <3> QED
      BY <2>2, <3>2, <3>3, <3>4, ContentSame DEF Resident
  <2>4. CASE ~(len * 4 >= cap * 3)
    <3>1. UNCHANGED <<cap, slot, val, old, at>>
      BY <1>1, <2>4 DEF CallInsert, table, moving
    <3> QED
      BY <2>2, <3>1, ContentSame DEF Slots
  <2> QED
    BY <2>3, <2>4
<1>2. ASSUME \/ \E kind \in Lookups, k \in Keys : CallLookup(kind, k)
             \/ CallDrain
      PROVE  Content' = Content /\ Pending' \in Map!Calls
  <2>1. UNCHANGED <<cap, slot, val, old, at>>
    BY <1>2 DEF CallLookup, CallDrain, table, moving
  <2>2. Content' = Content
    BY <2>1, ContentSame DEF Slots
  <2>3. CASE \E kind \in Lookups, k \in Keys : CallLookup(kind, k)
    <3>1. PICK kind \in Lookups, k \in Keys : CallLookup(kind, k)
      BY <2>3
    <3>2. op' = kind /\ arg' = k /\ new' = Null
      BY <1>0, <3>1 DEF CallLookup, IInv, TypeInv, Request
    <3> QED
      BY <2>2, <3>2 DEF Pending, Map!Calls, Lookups
  <2>4. CASE CallDrain
    <3>1. op' = "drain" /\ arg' = Null /\ new' = Null
      BY <1>0, <2>4 DEF CallDrain, IInv, TypeInv, Request
    <3> QED
      BY <2>2, <3>1 DEF Pending, Map!Calls
  <2> QED
    BY <1>2, <2>3, <2>4
<1> QED
  BY <1>0, <1>1, <1>2 DEF Map!Call

\* What a rehash or a search does before it ends is not seen.
LEMMA RefineHidden ==
  ASSUME IInv, IInv', Tracks, Tracks',
         \/ RehashPass \/ RehashTake \/ RehashPlace \/ RehashDone \/ Probe
         \/ StartLoop \/ BreakLoop \/ DrainPass \/ UNCHANGED vars
  PROVE  UNCHANGED Map!vars
<1> USE MapAssumption
<1>0. at \in Nat /\ old.cap \in Nat
  BY DEF IInv, TypeInv, TypeOK, IsTable, NoBuffer
<1>1. Pending' = Pending /\ answer' = answer
  BY DEF RehashPass, RehashTake, RehashPlace, RehashDone, Probe, StartLoop, BreakLoop, DrainPass,
         vars, request, Pending
<1>2. CASE RehashPass
  <2>1. /\ UNCHANGED <<cap, slot, val, old>> /\ old.slot[at] \notin Keys
        /\ at' .. old'.cap - 1 \subseteq at .. old.cap - 1
        /\ \A j \in at .. old.cap - 1 : j # at => j \in at' .. old'.cap - 1
    BY <1>0, <1>2 DEF RehashPass, table
  <2> QED
    BY <1>1, <2>1, ContentSame DEF Slots, Map!vars
<1>3. CASE RehashPlace
  <2>1. /\ probe \in Slots /\ UNCHANGED <<cap, old>> /\ at' = at + 1
        /\ slot' = [slot EXCEPT ![probe] = old.slot[at]]
        /\ val' = [val EXCEPT ![probe] = old.val[at]]
        /\ slot[probe] = Empty
    BY <1>0, <1>3 DEF RehashPlace, IInv, TypeInv, TypeOK
  <2>2. at \in 0 .. old.cap - 1 /\ old.cap \in Int
    BY <1>0, <1>3 DEF RehashPlace, IInv, TypeInv, Buffers, IsTable
  <2>3. /\ at \in at .. old.cap - 1
        /\ at' .. old'.cap - 1 \subseteq at .. old.cap - 1
        /\ \A j \in at .. old.cap - 1 : j # at => j \in at' .. old'.cap - 1
    BY <2>1, <2>2
  <2>4. slot \in [Slots -> Keys \cup {Empty, Tomb}] /\ val \in [Slots -> Values \cup {Null}]
    BY <1>0 DEF IInv, TypeInv, TypeOK, IsTable, Slots
  <2>5. /\ probe \in Slots /\ UNCHANGED <<cap, old>> /\ at \in at .. old.cap - 1
        /\ slot[probe] = Empty
        /\ at' .. old'.cap - 1 \subseteq at .. old.cap - 1
        /\ \A j \in at .. old.cap - 1 : j # at => j \in at' .. old'.cap - 1
        /\ \A i \in Slots : slot'[i] = IF i = probe THEN old.slot[at] ELSE slot[i]
        /\ \A i \in Slots : val'[i] = IF i = probe THEN old.val[at] ELSE val[i]
    BY <2>1, <2>3, <2>4
  <2>6. Slots' = Slots
    BY <2>5 DEF Slots
  <2> QED
    BY <1>1, <2>5, <2>6, ContentSame DEF Resident, Map!vars
<1>4. CASE RehashDone
  <2>1. UNCHANGED <<cap, slot, val>> /\ at .. old.cap - 1 = {} /\ at' .. old'.cap - 1 = {}
    BY <1>0, <1>4 DEF RehashDone, table, NoBuffer
  <2> QED
    BY <1>1, <2>1, ContentSame DEF Slots, Map!vars
<1>5. CASE UNCHANGED <<cap, slot, val, old, at>>
  BY <1>1, <1>5, ContentSame DEF Slots, Map!vars
<1> QED
  BY <1>2, <1>3, <1>4, <1>5
  DEF RehashTake, Probe, StartLoop, BreakLoop, DrainPass, vars, table, moving


\* An operation that ends leaves no call behind.
LEMMA Returned ==
  ASSUME NEW k, NEW v, Return(k, v)
  PROVE  Map!Return(k, v) /\ op' = "idle"
BY DEF Return, Pending, Map!Return, Map!Nobody

\* While no table grows, the content is what the table holds.
LEMMA ContentNow ==
  ASSUME IInv, Tracks, ~Growing
  PROVE  /\ at .. old.cap - 1 = {}
         /\ \A i \in Slots : Resident(i) => Content[slot[i]] = val[i] /\ val[i] \in Values
BY DEF IInv, TypeInv, Buffers, Growing, NoBuffer, TableInv, Valued, Tracks

\* insert ends with the pair in the map.
LEMMA RefineInsert ==
  ASSUME IInv, IInv', Tracks, Tracks', InsertUpdate \/ InsertFresh
  PROVE  Map!Insert
<1>1. /\ op = "insert" /\ arg \in Keys /\ new \in Values /\ probe \in Slots
      /\ at .. old.cap - 1 = {} /\ slot[probe] \in {Empty, arg}
      /\ UNCHANGED <<cap, old, at>> /\ val' = [val EXCEPT ![probe] = new]
      /\ Return(Null, Null)
  BY ContentNow DEF InsertUpdate, InsertFresh, moving, Growing, IInv, TypeInv, TypeOK, Request
<1>2. slot' = [slot EXCEPT ![probe] = arg]
  <2>1. CASE InsertFresh
    BY <2>1 DEF InsertFresh
  <2>2. CASE InsertUpdate
    BY <1>1, <2>2 DEF InsertUpdate, IInv, TypeInv, TypeOK, IsTable
  <2> QED
    BY <2>1, <2>2
<1>3. Content' = [Content EXCEPT ![arg] = new]
  BY <1>1, <1>2, ContentPut DEF IInv, TableInv
<1>4. Pending = [op |-> "insert", key |-> arg, value |-> new]
  BY <1>1 DEF Pending
<1> QED
  BY <1>1, <1>3, <1>4, Returned DEF Map!Insert

\* The lookups answer what the map holds; remove takes the pair away.
LEMMA RefineLookup ==
  ASSUME IInv, IInv', Tracks, Tracks', Miss \/ GetHit \/ ContainsHit \/ RemoveHit
  PROVE  Map!Get \/ Map!Contains \/ Map!Remove
<1> USE MapAssumption
<1>1. /\ op \in Lookups /\ arg \in Keys /\ probe \in Slots
      /\ Pending = [op |-> op, key |-> arg, value |-> new] /\ ~Growing
  BY DEF Miss, GetHit, ContainsHit, RemoveHit, IInv, TypeInv, TypeOK, Request, Lookups, Pending,
         Growing
<1>2. Content = [k \in Keys |-> Content[k]]
  BY DEF Tracks
<1>3. ASSUME UNCHANGED <<table, moving>>
      PROVE  Content' = Content
  BY <1>3, ContentSame DEF table, moving, Slots
<1>4. CASE Miss
  <2>1. Content[arg] = Null
    BY <1>1, <1>4, NothingFound DEF Miss
  <2>2. Content' = Content /\ Return(Null, Null)
    BY <1>3, <1>4 DEF Miss
  <2>3. [Content EXCEPT ![arg] = Null] = Content
    BY <1>2, <2>1
  <2> QED
    BY <1>1, <2>1, <2>2, <2>3, Returned
    DEF Map!Get, Map!Contains, Map!Remove, Map!Present, Lookups
<1>5. CASE GetHit
  <2>1. Content[arg] = val[probe] /\ Content' = Content
    BY <1>1, <1>3, <1>5, ContentNow DEF GetHit, Resident
  <2>2. Return(Null, val[probe]) /\ op = "get"
    BY <1>5 DEF GetHit
  <2> QED
    BY <1>1, <2>1, <2>2, Returned DEF Map!Get
<1>6. CASE ContainsHit
  <2>1. Content[arg] # Null /\ Content' = Content
    BY <1>1, <1>3, <1>6, ContentNow DEF ContainsHit, Resident
  <2>2. Return(arg, Null) /\ op = "contains"
    BY <1>6 DEF ContainsHit
  <2> QED
    BY <1>1, <2>1, <2>2, Returned DEF Map!Contains, Map!Present
<1>7. CASE RemoveHit
  <2>1. /\ slot[probe] = arg /\ op = "remove" /\ Return(Null, val[probe])
        /\ slot' = [slot EXCEPT ![probe] = Tomb] /\ val' = [val EXCEPT ![probe] = Null]
        /\ UNCHANGED <<cap, old, at>>
    BY <1>7 DEF RemoveHit, moving
  <2>2. Content[arg] = val[probe] /\ at .. old.cap - 1 = {}
    BY <1>1, <2>1, ContentNow DEF Resident
  <2>3. Content' = [Content EXCEPT ![arg] = Null]
    BY <1>1, <2>1, <2>2, ContentDelete DEF Resident, IInv, TableInv
  <2> QED
    BY <1>1, <2>1, <2>2, <2>3, Returned DEF Map!Remove
<1> QED
  BY <1>4, <1>5, <1>6, <1>7

\* A turn of a drain loop hands over an entry; the loop ends when the map is
\* empty, because the slots behind its cursor stay clear.
LEMMA RefineDrain ==
  ASSUME IInv, IInv', Tracks, Tracks', DrainTake \/ DrainDone
  PROVE  Map!Drain
<1> USE MapAssumption
<1>1. op = "drain" /\ Pending.op = "drain" /\ ~Growing
  BY DEF DrainTake, DrainDone, Pending, Growing
<1>2. CASE DrainTake
  <2>1. /\ probe \in Slots /\ Resident(probe) /\ slot[probe] \in Keys
        /\ Return(slot[probe], val[probe])
        /\ slot' = [slot EXCEPT ![probe] = Tomb] /\ val' = [val EXCEPT ![probe] = Null]
        /\ UNCHANGED <<cap, old, at>>
    BY <1>2 DEF DrainTake, moving, Resident
  <2>2. Content[slot[probe]] = val[probe] /\ val[probe] # Null /\ at .. old.cap - 1 = {}
    BY <1>1, <2>1, ContentNow
  <2>3. Content' = [Content EXCEPT ![slot[probe]] = Null]
    BY <2>1, <2>2, ContentDelete DEF IInv, TableInv
  <2> QED
    BY <1>1, <2>1, <2>2, <2>3, Returned DEF Map!Drain, Map!Present
<1>3. CASE DrainDone
  <2>1. probe \in Nat /\ cap \in Nat /\ probe \notin Slots /\ Return(Null, Null)
    BY <1>3 DEF DrainDone, IInv, TypeInv, TypeOK
  <2>2. \A i \in Slots : ~Resident(i)
    BY <1>1, <2>1 DEF IInv, SearchInv, Drained, Slots
  <2>3. \A k \in Keys : Content[k] = Null
    BY <1>1, <2>2, ContentNow DEF Tracks, Resident
  <2>4. Content' = Content
    BY <1>3, ContentSame DEF DrainDone, table, moving, Slots
  <2> QED
    BY <1>1, <2>1, <2>3, <2>4, Returned DEF Map!Drain, Map!Present
<1> QED
  BY <1>2, <1>3

\* A map that goes out of scope leaves an empty one.
LEMMA RefineDrop ==
  ASSUME IInv, IInv', Tracks', DropMap
  PROVE  Map!Drop
<1>1. op = "idle" /\ Pending = Map!Nobody /\ Pending' = Pending /\ answer' = Map!Nothing
  BY DEF DropMap, IInv, TypeInv, Request, Pending, request, Map!Nobody, Nothing, Map!Nothing
<1>2. \A i \in Slots' : slot'[i] = Empty
  BY TableFresh DEF DropMap, MinCap
<1>3. at' .. old'.cap - 1 = {}
  BY DEF DropMap, moving, IInv, TypeInv, Buffers, Growing, NoBuffer
<1>4. Content' = [k \in Keys |-> Null]
  BY MapAssumption, <1>2, <1>3 DEF Tracks
<1> QED
  BY <1>1, <1>4 DEF Map!Drop

\* Seen from a program the table is a finite map: whatever the hashes, the
\* capacity and the tombstones, every operation that returns has done to the
\* map of AbstractMap what it promises, and a rehash is never noticed.
THEOREM TableIsAMap == Spec => ImplementsMap
<1>1. ASSUME Init, Tracks PROVE Map!Init
  <2>1. /\ \A i \in Slots : slot[i] = Empty
        /\ at .. old.cap - 1 = {}
    BY <1>1 DEF Init, MinCap, Slots, NoBuffer
  <2>2. Content = [k \in Keys |-> Null]
    BY <1>1, <2>1, MapAssumption DEF Tracks
  <2> QED
    BY <1>1, <2>2 DEF Init, Pending, Nothing, Map!Init, Map!Nobody, Map!Nothing
<1>2. ASSUME IInv, IInv', Tracks, Tracks', [Next]_vars
      PROVE  [Map!Next]_(Map!vars)
  <2>1. CASE UNCHANGED vars
    BY <1>2, <2>1, RefineHidden
  <2>2. CASE Client
    BY <1>2, <2>2, RefineCall, RefineHidden, RefineDrop DEF Client, Map!Next, Lookups
  <2>3. CASE Work
    BY <1>2, <2>3, RefineHidden, RefineInsert, RefineLookup, RefineDrain DEF Work, Map!Next
  <2> QED
    BY <1>2, <2>1, <2>2, <2>3 DEF Next
<1>3. IInv => KeysUnique /\ OldUnique
  BY DEF IInv, TableInv
<1>4. Spec => []Tracks
  BY <1>3, IInvHolds, ContentTracks, PTL
<1> QED
  BY <1>1, <1>2, <1>4, IInvHolds, PTL DEF Spec, ImplementsMap, Map!Spec

-----------------------------------------------------------------------------
(* Scalars *)

Value(v, t) == v = Trap \/ (t.null /\ v = NullWord) \/ v \in Admits(t.base)

\* What every operand on the stack is.
Good == {e \in [ty : Types, opt : BOOLEAN, val : Word \cup {Trap}] :
            (e.opt => e.ty.null) /\ Value(e.val, e.ty)}

\* The registers of a running call, and the operands it was called with.
Registers ==
    shim = Idle \/
    (/\ shim \in [running : {TRUE}, result : Within(Max), e : Nat, b : Int]
     /\ Len(stack) = 2 /\ IsNumeric(Below.ty))

Stacked == stack \in Seq(Good)

ScalarsInv == Stacked /\ Len(stack) <= 3 /\ Registers

------------------------------------------------------------------------------

LEMMA DivisionFacts ==
    ASSUME NEW m \in Nat, NEW d \in Nat \ {0}
    PROVE  /\ m \div d \in 0 .. m
           /\ d * (m \div d) \in 0 .. m
<1> DEFINE k == m \div d
<1>1. k \in Int /\ m = d * k + (m % d) /\ m % d \in 0 .. d - 1
  BY SMT
<1>2. k >= 0
  <2> SUFFICES ASSUME k <= -1 PROVE FALSE
    BY <1>1
  <2>1. d * k <= -d
    BY <1>1, SMT
  <2> QED BY <1>1, <2>1, SMT
<1>3. d * k >= k
  BY <1>1, <1>2, SMT
<1>4. d * k <= m
  BY <1>1, SMT
<1> QED BY <1>1, <1>2, <1>3, <1>4, SMT

LEMMA QuotientFacts ==
    ASSUME NEW a \in Int, NEW b \in Int \ {0}
    PROVE  /\ Quotient(a, b) \in Int /\ Remainder(a, b) \in Int
           /\ Magnitude(Quotient(a, b)) <= Magnitude(a)
           /\ Magnitude(Remainder(a, b)) <= Magnitude(a)
<1> DEFINE m == Magnitude(a)
           d == Magnitude(b)
           k == m \div d
<1>1. m \in Nat /\ d \in Nat \ {0}
  BY DEF Magnitude
<1>2. k \in 0 .. m /\ d * k \in 0 .. m
  BY <1>1, DivisionFacts
<1>3. Quotient(a, b) = IF (a < 0) = (b < 0) THEN k ELSE -k
  BY DEF Quotient
<1>4. b * Quotient(a, b) = IF a < 0 THEN -(d * k) ELSE d * k
  <2> HIDE DEF k
  <2> QED BY <1>2, <1>3, SMT DEF Magnitude
<1>5. Quotient(a, b) \in Int /\ Magnitude(Quotient(a, b)) <= m
  <2> HIDE DEF k
  <2> QED BY <1>1, <1>2, <1>3, SMT DEF Magnitude
<1>6. Remainder(a, b) \in Int /\ Magnitude(Remainder(a, b)) <= m
  <2> DEFINE p == d * k
  <2>1. p \in 0 .. m /\ Remainder(a, b) = IF a < 0 THEN a + p ELSE a - p
    <3>1. b * Quotient(a, b) \in Int
      BY <1>5
    <3> HIDE DEF k, m, d
    <3> QED BY <1>2, <1>4, <3>1, SMT DEF Remainder
  <2> HIDE DEF p
  <2> QED BY <2>1, SMT DEF Magnitude
<1> QED BY <1>5, <1>6

LEMMA NullIsNoValue ==
    /\ NullWord \in Word /\ NullWord \in Int
    /\ \A base \in Numbers \cup Trileans : Admits(base) \subseteq Word \ {NullWord}
    /\ Within(Max) \subseteq Int /\ Word \subseteq Int /\ Trap \notin Int
BY RangesFit DEF Admits, Word, NullWord, Within, Numbers, Trileans, Truth

\* A place that accepts a type admits its values.
LEMMA MatchesWidens ==
    ASSUME NEW s \in Types, NEW t \in Types, Matches(s, t), NEW v, Value(v, t)
    PROVE  Value(v, s)
<1>1. s.base \in Numbers \cup Trileans /\ t.base \in Numbers \cup Trileans
  BY DEF Types
<1>2. Accepts(s.base, t.base) => Admits(t.base) \subseteq Admits(s.base)
  BY <1>1, RangesFit DEF Accepts, Admits, Within, Truth, Numbers, Trileans
<1>3. s.base = t.base => Admits(t.base) \subseteq Admits(s.base)
  OBVIOUS
<1>4. s.null \in BOOLEAN /\ t.null \in BOOLEAN
  BY DEF Types
<1> QED BY <1>2, <1>3, <1>4 DEF Matches, Value


\* An `if' has a type that admits what either arm admits.
LEMMA UnifiedWidens ==
    ASSUME NEW a \in Types, NEW b \in Types, NEW t \in Unified(a, b)
    PROVE  /\ t \in Types /\ (a.null => t.null)
           /\ \A v : Value(v, a) \/ Value(v, b) => Value(v, t)
<1> DEFINE W(x) == [x EXCEPT !.null = TRUE]
<1>1. W(a) \in Types /\ W(b) \in Types /\ W(a).null /\ W(b).null
  BY DEF Types
<1>2. \A v : (Value(v, a) => Value(v, W(a))) /\ (Value(v, b) => Value(v, W(b)))
  BY DEF Types, Value
<1>3. Matches(a, a) /\ Matches(b, b) /\ Matches(W(a), W(a)) /\ Matches(W(b), W(b))
  BY DEF Matches, Accepts
<1>4. \/ t = a /\ Matches(t, b)
      \/ t = b /\ Matches(t, a)
      \/ t = W(b) /\ Matches(t, a)
      \/ t = W(a) /\ Matches(t, b)
  BY DEF Unified
<1>5. t \in Types
  BY <1>1, <1>4
<1>6. \A v : Value(v, a) \/ Value(v, b) => Value(v, t)
  BY <1>1, <1>2, <1>4, MatchesWidens
<1>7. a.null => t.null
  BY <1>1, <1>4 DEF Matches
<1> QED BY <1>5, <1>6, <1>7

\* A place of base type a has every value of the base type it accepts.
LEMMA NumericOperands ==
    ASSUME NEW l \in Types, NEW r \in Types, IsNumeric(l), IsNumeric(r), Matches(l, r)
    PROVE  l = r
BY DEF IsNumeric, Matches, Accepts, Types, Numbers

\* Arithmetic on two values of one number type leaves a value of it.
LEMMA ArithmeticSound ==
    ASSUME NEW base \in Numbers, NEW a \in Admits(base), NEW b \in Admits(base),
           NEW o \in Arith
    PROVE  Execute(o, a, b) \in Admits(base) \cup {Trap}
<1>1. /\ a \in Int /\ b \in Int /\ a # NullWord /\ b # NullWord
      /\ Max \in Nat /\ Bound \in Nat /\ Max < Bound
  <2>1. a \in Word \ {NullWord} /\ b \in Word \ {NullWord}
    BY NullIsNoValue
  <2> QED BY <2>1, NullIsNoValue, RangesFit
<1>2. Within(Max) \subseteq Admits(base)
  BY RangesFit DEF Admits, Numbers, Within, Word, NullWord
<1>3. \A v : Checked(v, Max) \in Within(Max) \cup {Trap}
  BY DEF Checked
<1>4. \A v \in Int : Magnitude(v) <= Magnitude(a) => v \in Admits(base)
  <2>1. CASE base = "Long"
    BY <2>1, <1>1 DEF Admits, Magnitude, Word, NullWord
  <2>2. CASE base # "Long"
    BY <2>2, <1>1 DEF Admits, Magnitude, Within, Numbers
  <2> QED BY <2>1, <2>2
<1>5. CASE o \in {"+", "-", "*"}
  BY <1>2, <1>3, <1>5 DEF Execute, Multiplied
<1>6. CASE o = "/"
  BY <1>1, <1>4, <1>6, QuotientFacts DEF Execute, Divided
<1>7. CASE o = "%"
  BY <1>1, <1>4, <1>7, QuotientFacts DEF Execute, Modulo
<1> QED BY <1>5, <1>6, <1>7 DEF Arith

\* A connective of truth values is one, and of known truth values a known one.
LEMMA LogicSound ==
    ASSUME NEW a \in Truth, NEW b \in Truth, NEW o \in Logic
    PROVE  /\ Execute(o, a, b) \in Truth
           /\ a # 0 /\ b # 0 => Execute(o, a, b) \in {-1, 1}
<1>0. \A x, y \in Truth : /\ Less(x, y) \in Truth /\ -x \in Truth
                          /\ x # 0 /\ y # 0 => Less(x, y) # 0 /\ -x # 0
                          /\ ImpliedBy(x, y) \in Truth
                          /\ x # 0 /\ y # 0 => ImpliedBy(x, y) # 0
  BY SMT DEF Less, ImpliedBy, Truth
<1>1. CASE o = "and"
  BY <1>1, SMT DEF Execute, Less, Truth
<1>2. CASE o = "or"
  BY <1>2, SMT DEF Execute, Greater, Truth
<1>3. CASE o = "implies"
  BY <1>3, SMT DEF Execute, ImpliedBy, Truth
<1>4. CASE o = "iff"
  BY <1>0, <1>4 DEF Execute, Truth
<1>5. CASE o = "xor"
  BY <1>0, <1>5 DEF Execute, Truth
<1>6. CASE o = "k_implies"
  BY <1>6, SMT DEF Execute, Greater, Truth
<1>7. CASE o = "k_iff"
  BY <1>7, SMT DEF Execute, Less, Greater, Truth
<1>8. CASE o = "k_xor"
  BY <1>8, SMT DEF Execute, Less, Greater, Truth
<1> QED BY <1>1, <1>2, <1>3, <1>4, <1>5, <1>6, <1>7, <1>8 DEF Logic

\* A comparison is decided.
LEMMA ComparisonSound ==
    ASSUME NEW a, NEW b, NEW o \in Equality \cup Order
    PROVE  Execute(o, a, b) \in {-1, 1}
BY DEF Execute, Decided, Equality, Order

\* A strict operator leaves a value of the type the checker gave its result.
LEMMA BinarySound ==
    ASSUME NEW l \in Types, NEW r \in Types, NEW o \in Operators \ {"**"}, Typed(o, l, r),
           NEW a, NEW b, Value(a, l), Value(b, r)
    PROVE  ResultType(o, l, r) \in Types /\ Value(Strict(o, a, b), ResultType(o, l, r))
<1> DEFINE t == ResultType(o, l, r)
<1>1. t \in Types
  BY DEF ResultType, Types, Plain, Trileans
<1>2. CASE Trap \in {a, b}
  BY <1>1, <1>2 DEF Strict, Value
<1>3. CASE Trap \notin {a, b} /\ o \in Arith
  <2>1. l = r /\ l.base \in Numbers /\ ~l.null
    BY <1>3, NumericOperands DEF Typed, IsNumeric, Arith, Equality, Logic
  <2>2. a \in Admits(l.base) /\ b \in Admits(l.base)
    BY <1>3, <2>1 DEF Value
  <2>3. t = l
    BY <1>3 DEF ResultType
  <2> QED BY <1>1, <1>3, <2>1, <2>2, <2>3, ArithmeticSound DEF Strict, Value
<1>4. CASE Trap \notin {a, b} /\ o \in Equality \cup Order
  <2>1. t \in {Plain("Trilean"), Plain("Trilean!")}
    BY <1>4 DEF ResultType, Arith, Equality, Order
  <2>2. {-1, 1} \subseteq Admits(t.base)
    BY <2>1 DEF Plain, Admits, Truth
  <2> QED BY <1>1, <1>4, <2>2, ComparisonSound DEF Strict, Value
<1>5. CASE Trap \notin {a, b} /\ o \in Logic
  <2>1. IsTrilean(l) /\ IsTrilean(r)
    BY <1>5 DEF Typed, Arith, Equality, Order, Logic
  <2>2. a \in Truth /\ b \in Truth
    BY <1>5, <2>1 DEF Value, IsTrilean, Trileans, Admits, Truth
  <2>3. CASE "Trilean" \in {l.base, r.base}
    <3>1. t = Plain("Trilean")
      BY <1>5, <2>3 DEF ResultType, MayBeUnknown, Arith, Logic
    <3> QED BY <1>1, <1>5, <2>2, <3>1, LogicSound DEF Strict, Value, Plain, Admits
  <2>4. CASE "Trilean" \notin {l.base, r.base}
    <3>1. l.base = "Trilean!" /\ r.base = "Trilean!"
      BY <2>1, <2>4 DEF IsTrilean, Trileans
    <3>2. a # 0 /\ b # 0
      BY <1>5, <2>1, <3>1 DEF Value, IsTrilean, Admits
    <3>3. t = Plain("Trilean!")
      BY <1>5, <2>4 DEF ResultType, MayBeUnknown, Arith, Equality, Logic
    <3> QED BY <1>1, <1>5, <2>2, <3>2, <3>3, LogicSound DEF Strict, Value, Plain, Admits
  <2> QED BY <2>3, <2>4
<1> QED BY <1>1, <1>2, <1>3, <1>4, <1>5 DEF Operators

------------------------------------------------------------------------------

LEMMA ReplaceKeeps ==
    ASSUME Stacked, NEW n \in 1 .. Len(stack), NEW e \in Good, Replace(n, e)
    PROVE  Stacked' /\ Len(stack') = Len(stack) - n + 1
<1> DEFINE kept == SubSeq(stack, 1, Len(stack) - n)
<1>1. kept \in Seq(Good) /\ Len(kept) = Len(stack) - n
  BY SubSeqProperties DEF Stacked
<1> HIDE DEF kept
<1>2. Append(kept, e) \in Seq(Good) /\ Len(Append(kept, e)) = Len(kept) + 1
  BY <1>1, AppendProperties
<1> QED BY <1>1, <1>2 DEF Replace, kept, Stacked

\* The operands that a step looks at.
LEMMA OperandsGood ==
    ASSUME Stacked
    PROVE  /\ Len(stack) >= 1 => Top \in Good
           /\ Len(stack) >= 2 => Below \in Good
           /\ \A i \in 1 .. Len(stack) : stack[i] \in Good
<1>1. Len(stack) \in Nat /\ \A i \in 1 .. Len(stack) : stack[i] \in Good
  BY LenProperties, ElementOfSeq DEF Stacked
<1> QED BY <1>1 DEF Top, Below

LEMMA GoodEntry ==
    ASSUME NEW ty \in Types, NEW opt \in BOOLEAN, opt => ty.null, NEW v, Value(v, ty)
    PROVE  Entry(ty, opt, v) \in Good
<1>1. v \in Word \cup {Trap}
  BY NullIsNoValue DEF Value, Types
<1> QED BY <1>1 DEF Entry, Good

LEMMA GoodFacts ==
    ASSUME NEW e \in Good
    PROVE  /\ e.ty \in Types /\ e.opt \in BOOLEAN /\ (e.opt => e.ty.null)
           /\ Value(e.val, e.ty) /\ e.val \in Word \cup {Trap}
           /\ e.ty.base \in Numbers \cup Trileans /\ Inner(e.ty) \in Types
BY DEF Good, Types, Inner, Plain

\* What is left of a nullable value when it is not null is a plain one.
LEMMA NotNull ==
    ASSUME NEW t \in Types, NEW v, Value(v, t), v # NullWord
    PROVE  Value(v, Inner(t))
BY DEF Value, Inner, Plain, Types

LEMMA TestNull ==
    ASSUME NEW v, NEW x, NEW y
    PROVE  Branch(Strict("==", v, NullWord), x, y)
             = IF v = Trap THEN Trap ELSE IF v = NullWord THEN x ELSE y
<1>1. NullWord # Trap
  BY NullIsNoValue
<1>2. CASE v = Trap
  BY <1>2 DEF Branch, Strict
<1>3. CASE v # Trap
  <2>1. Strict("==", v, NullWord) = IF v = NullWord THEN 1 ELSE -1
    BY <1>1, <1>3 DEF Strict, Execute, Decided
  <2>2. 1 # Trap /\ -1 # Trap
    BY RangesFit
  <2> QED BY <1>3, <2>1, <2>2 DEF Branch
<1> QED BY <1>2, <1>3

\* A step that leaves no call running and a good operand in place of the last n.
LEMMA ReplaceTyped ==
    ASSUME ScalarsInv, NEW n \in 1 .. Len(stack), NEW e \in Good, Replace(n, e), shim' = Idle
    PROVE  ScalarsInv'
<1>1. Stacked /\ Len(stack) \in Nat /\ Len(stack) <= 3
  BY LenProperties DEF ScalarsInv, Stacked
<1>2. Stacked' /\ Len(stack') = Len(stack) - n + 1
  BY <1>1, ReplaceKeeps
<1>3. Len(stack') <= 3
  BY <1>1, <1>2
<1>4. Registers'
  BY DEF Registers, Idle
<1> QED BY <1>2, <1>3, <1>4 DEF ScalarsInv

\* So does a step that pushes one.
LEMMA PushTyped ==
    ASSUME ScalarsInv, NEW e \in Good, Push(e)
    PROVE  ScalarsInv'
<1>1. Stacked /\ Len(stack) \in Nat /\ Len(stack) <= 3
  BY LenProperties DEF ScalarsInv, Stacked
<1>2. Len(stack) <= 2 /\ stack' = Append(stack, e) /\ UNCHANGED shim
  BY <1>1 DEF Push
<1>3. Stacked' /\ Len(stack') = Len(stack) + 1
  BY <1>1, <1>2, AppendProperties DEF Stacked
<1>4. Registers'
  <2>1. shim = Idle
    BY DEF ScalarsInv, Registers, Push, Idle
  <2> QED BY <1>2, <2>1 DEF Registers, Idle
<1>5. Len(stack') <= 3
  BY <1>1, <1>2, <1>3
<1> QED BY <1>3, <1>4, <1>5 DEF ScalarsInv

\* What a step that needs n evaluated operands finds on the stack.
LEMMA ReadyFacts ==
    ASSUME ScalarsInv, NEW n \in Nat \ {0}, Ready(n)
    PROVE  /\ n \in 1 .. Len(stack) /\ Top \in Good /\ (n = 2 => Below \in Good)
           /\ shim = Idle /\ (n = 2 => Len(stack) = 2)
<1>1. Stacked /\ Len(stack) \in Nat /\ Len(stack) <= 3
  BY LenProperties DEF ScalarsInv, Stacked
<1>2. n <= Len(stack) /\ Len(stack) <= 2
  BY DEF Ready
<1>3. shim = Idle
  BY DEF ScalarsInv, Registers, Ready, Idle
<1>4. n \in Nat /\ n # 0
  OBVIOUS
<1>5. n \in 1 .. Len(stack) /\ (n = 2 => Len(stack) = 2)
  <2> DEFINE k == Len(stack)
  <2> HIDE DEF k
  <2>1. k \in Nat /\ n <= k /\ k <= 2
    BY <1>1, <1>2 DEF k
  <2>2. n \in 1 .. k /\ (n = 2 => k = 2)
    BY <1>4, <2>1
  <2> QED BY <2>2 DEF k
<1>6. Len(stack) >= 1 /\ (n = 2 => Len(stack) >= 2)
  BY <1>1, <1>5
<1>7. Top \in Good /\ (n = 2 => Below \in Good)
  BY <1>1, <1>6, OperandsGood
<1> QED BY <1>3, <1>5, <1>7

LEMMA InitScalars == ScalarsInit => ScalarsInv
BY EmptySeq DEF ScalarsInit, ScalarsInv, Stacked, Registers, Idle

\* Every step keeps the operands good and the running call's registers in range.
LEMMA NextScalars == ScalarsInv /\ [ScalarsNext]_scalars => ScalarsInv'
<1> SUFFICES ASSUME ScalarsInv, [ScalarsNext]_scalars PROVE ScalarsInv'
  OBVIOUS
<1>0. /\ Stacked /\ Len(stack) <= 3 /\ Registers
      /\ ~shim.running => shim = Idle
  BY DEF ScalarsInv, Registers, Idle
<1>1. CASE Literal
  <2>1. PICK base \in Numbers \cup Trileans : \E v \in LiteralsOf(base) :
            Push(Entry(Plain(base), FALSE, v))
    BY <1>1 DEF Literal
  <2>2. PICK v \in LiteralsOf(base) : Push(Entry(Plain(base), FALSE, v))
    BY <2>1
  <2>3. v \in Admits(base)
    BY RangesFit DEF LiteralsOf, Admits, Within, Truth, Word, NullWord, Numbers, Trileans
  <2>4. Entry(Plain(base), FALSE, v) \in Good
    BY <2>3, GoodEntry DEF Plain, Types, Value
  <2> QED BY <2>2, <2>4, PushTyped
<1>2. CASE Absent
  <2>1. PICK base \in Numbers \cup Trileans :
            Push(Entry([base |-> base, null |-> TRUE], TRUE, NullWord))
    BY <1>2 DEF Absent
  <2>2. Entry([base |-> base, null |-> TRUE], TRUE, NullWord) \in Good
    BY GoodEntry DEF Types, Value
  <2> QED BY <2>1, <2>2, PushTyped
<1>3. CASE Annotate
  <2>1. PICK t \in Types : /\ Ready(1) /\ Matches(t, Top.ty)
                           /\ Replace(1, Entry(t, t.null, Top.val)) /\ UNCHANGED shim
    BY <1>3 DEF Annotate
  <2>2. 1 \in 1 .. Len(stack) /\ Top \in Good /\ shim = Idle
    BY <2>1, ReadyFacts
  <2>3. Value(Top.val, t) /\ t.null \in BOOLEAN
    BY <2>1, <2>2, GoodFacts, MatchesWidens DEF Types
  <2>4. Entry(t, t.null, Top.val) \in Good
    BY <2>3, GoodEntry
  <2> QED BY <2>1, <2>2, <2>4, ReplaceTyped
<1>4. CASE Negate
  <2>1. /\ 1 \in 1 .. Len(stack) /\ Top \in Good /\ shim = Idle
        /\ IsNumeric(Top.ty) \/ IsTrilean(Top.ty)
    BY <1>4, ReadyFacts DEF Negate
  <2> DEFINE v == Top.val
             base == Top.ty.base
  <2>2. base \in Numbers \cup Trileans /\ ~Top.ty.null /\ (v = Trap \/ v \in Admits(base))
    BY <2>1, GoodFacts DEF IsNumeric, IsTrilean, Value
  <2>3. Value(Strict("-", 0, v), Top.ty)
    <3>1. CASE v = Trap
      BY <3>1 DEF Strict, Value
    <3>2. CASE v # Trap
      <4>0. v \in Word \ {NullWord}
        BY <2>2, <3>2, NullIsNoValue
      <4>1. v \in Admits(base) /\ v \in Int /\ v # NullWord /\ 0 # Trap
        <5>1. v \in Int /\ v # NullWord
          BY <4>0, NullIsNoValue
        <5>2. 0 # Trap
          BY RangesFit
        <5> QED BY <2>2, <3>2, <5>1, <5>2
      <4>2. Strict("-", 0, v) = Checked(Overflowing(0 - v), Max)
        BY <3>2, <4>1 DEF Strict, Execute
      <4>3. CASE base \in Trileans
        <5>0. v \in Truth
          BY <4>1, <4>3 DEF Admits, Trileans, Truth
        <5>1. -v \in Within(Max) /\ Overflowing(0 - v) = -v
          BY <5>0, RangesFit DEF Truth, Within, Overflowing
        <5>2. -v \in Admits(base)
          BY <4>1, <4>3 DEF Admits, Trileans, Truth
        <5> QED BY <4>2, <5>1, <5>2 DEF Checked, Value
      <4>4. CASE base \in Numbers
        <5>1. Within(Max) \subseteq Admits(base)
          BY <4>4, RangesFit DEF Admits, Numbers, Within, Word, NullWord
        <5> QED BY <4>2, <5>1 DEF Checked, Value
      <4> QED BY <2>2, <4>3, <4>4
    <3> QED BY <3>1, <3>2
  <2>4. Entry(Top.ty, FALSE, Strict("-", 0, v)) \in Good
    BY <2>1, <2>3, GoodFacts, GoodEntry
  <2>5. Replace(1, Entry(Top.ty, FALSE, Strict("-", 0, v))) /\ UNCHANGED shim
    BY <1>4 DEF Negate
  <2> QED BY <2>1, <2>4, <2>5, ReplaceTyped
<1>5. CASE Binary
  <2>1. PICK o \in Operators \ {"**"} :
          /\ Ready(2) /\ Typed(o, Below.ty, Top.ty)
          /\ Replace(2, Entry(ResultType(o, Below.ty, Top.ty), FALSE,
                              Strict(o, Below.val, Top.val)))
          /\ UNCHANGED shim
    BY <1>5 DEF Binary
  <2> DEFINE ty == ResultType(o, Below.ty, Top.ty)
             v == Strict(o, Below.val, Top.val)
  <2>2. 2 \in 1 .. Len(stack) /\ Top \in Good /\ Below \in Good /\ shim = Idle
    BY <2>1, ReadyFacts
  <2>3. ty \in Types /\ Value(v, ty)
    BY <2>1, <2>2, GoodFacts, BinarySound
  <2> HIDE DEF ty, v
  <2>4. Entry(ty, FALSE, v) \in Good
    BY <2>3, GoodEntry
  <2>5. Replace(2, Entry(ty, FALSE, v)) /\ UNCHANGED shim
    BY <2>1 DEF ty, v
  <2> QED BY <2>2, <2>4, <2>5, ReplaceTyped
<1>6. CASE Power
  <2>1. /\ 2 \in 1 .. Len(stack) /\ Len(stack) = 2 /\ Top \in Good /\ Below \in Good
        /\ shim = Idle /\ Typed("**", Below.ty, Top.ty)
    BY <1>6, ReadyFacts DEF Power
  <2>2. IsNumeric(Below.ty) /\ IsNumeric(Top.ty)
    BY <2>1 DEF Typed, Arith, Equality, Order, Logic
  <2>3. CASE Trap \in {Below.val, Top.val} \/ Top.val < 0
    <3> DEFINE v == IF Trap \in {Below.val, Top.val} THEN Trap ELSE 0
    <3>1. 0 \in Admits(Below.ty.base)
      BY <2>2, RangesFit DEF IsNumeric, Admits, Numbers, Within, Word, NullWord
    <3>2. Value(v, Below.ty) /\ Below.ty \in Types
      BY <2>1, <3>1, GoodFacts DEF Value
    <3>3. Replace(2, Entry(Below.ty, FALSE, v)) /\ UNCHANGED shim
      BY <1>6, <2>3 DEF Power
    <3> HIDE DEF v
    <3>4. Entry(Below.ty, FALSE, v) \in Good
      BY <3>2, GoodEntry
    <3> QED BY <2>1, <3>3, <3>4, ReplaceTyped
  <2>4. CASE ~(Trap \in {Below.val, Top.val} \/ Top.val < 0)
    <3>1. UNCHANGED stack
          /\ shim' = [running |-> TRUE, result |-> 1, e |-> Top.val, b |-> Below.val]
      BY <1>6, <2>4 DEF Power
    <3>2. Top.val \in Int /\ Below.val \in Int
      BY <2>1, <2>4, GoodFacts, NullIsNoValue
    <3>3. Top.val \in Nat /\ 1 \in Within(Max)
      BY <2>4, <3>2, RangesFit DEF Within
    <3>4. Registers'
      BY <2>1, <2>2, <3>1, <3>2, <3>3 DEF Registers, Below
    <3> QED BY <1>0, <3>1, <3>4 DEF ScalarsInv, Stacked
  <2> QED BY <2>3, <2>4
<1>7. CASE PowLoop
  <2>1. /\ shim \in [running : {TRUE}, result : Within(Max), e : Nat, b : Int]
        /\ Len(stack) = 2 /\ IsNumeric(Below.ty)
    <3>1. shim.running
      BY <1>7 DEF PowLoop
    <3>2. shim # Idle
      BY <3>1 DEF Idle
    <3> QED BY <1>0, <3>2 DEF Registers
  <2>0. Below \in Good
    BY <1>0, <2>1, OperandsGood
  <2>2. ASSUME NEW v \in Within(Max) \cup {Trap}, PowReturn(v) PROVE ScalarsInv'
    <3>1. Within(Max) \subseteq Admits(Below.ty.base)
      BY <2>1, RangesFit DEF IsNumeric, Admits, Numbers, Within, Word, NullWord
    <3>2. Value(v, Below.ty) /\ Below.ty \in Types
      BY <2>0, <3>1, GoodFacts DEF Value
    <3>3. Entry(Below.ty, FALSE, v) \in Good
      BY <3>2, GoodEntry
    <3>4. 2 \in 1 .. Len(stack)
      BY <2>1
    <3> QED BY <2>2, <3>3, <3>4, ReplaceTyped DEF PowReturn
  <2> DEFINE r == IF shim.e % 2 = 1 THEN Checked(shim.result * shim.b, Max) ELSE shim.result
             b == Squared(shim.b, shim.e \div 2)
  <2>3. shim.e \div 2 \in Nat /\ shim.result \in Within(Max)
    BY <2>1
  <2>4. r \in Within(Max) \cup {Trap} /\ b \in Int \cup {Trap}
    BY <2>1, NullIsNoValue DEF Checked, Squared
  <2>5. CASE shim.e = 0
    BY <1>7, <2>2, <2>3, <2>5 DEF PowLoop
  <2>6. CASE shim.e # 0 /\ Trap \in {r, b}
    BY <1>7, <2>2, <2>6 DEF PowLoop
  <2>7. CASE shim.e # 0 /\ Trap \notin {r, b}
    <3>1. /\ shim' = [shim EXCEPT !.result = r, !.e = @ \div 2, !.b = b]
          /\ UNCHANGED stack
      BY <1>7, <2>7 DEF PowLoop
    <3>2. r \in Within(Max) /\ b \in Int
      BY <2>4, <2>7
    <3> HIDE DEF r, b
    <3>3. Registers'
      BY <2>1, <2>3, <3>1, <3>2 DEF Registers, Below
    <3> QED BY <1>0, <3>1, <3>3 DEF ScalarsInv, Stacked
  <2> QED BY <2>5, <2>6, <2>7
<1>8. CASE Elvis
  <2> DEFINE v == Branch(Strict("==", Below.val, NullWord), Top.val, Below.val)
             e == Entry(Inner(Below.ty), FALSE, v)
  <2>1. /\ 2 \in 1 .. Len(stack) /\ Top \in Good /\ Below \in Good /\ shim = Idle
        /\ Matches(Inner(Below.ty), Top.ty)
    BY <1>8, ReadyFacts DEF Elvis
  <2>2. Value(v, Inner(Below.ty))
    <3>1. Below.ty \in Types /\ Inner(Below.ty) \in Types /\ Top.ty \in Types
      BY <2>1, GoodFacts
    <3>2. Value(Below.val, Below.ty) /\ Value(Top.val, Inner(Below.ty))
      BY <2>1, <3>1, GoodFacts, MatchesWidens
    <3>3. Value(Trap, Inner(Below.ty)) /\ (Below.val # NullWord => Value(Below.val, Inner(Below.ty)))
      BY <3>1, <3>2, NotNull DEF Value
    <3>4. v = IF Below.val = Trap THEN Trap ELSE IF Below.val = NullWord THEN Top.val ELSE Below.val
      BY TestNull
    <3> HIDE DEF v
    <3> QED BY <3>2, <3>3, <3>4
  <2>3. Replace(2, e) /\ UNCHANGED shim
    BY <1>8 DEF Elvis
  <2> HIDE DEF v
  <2>4. e \in Good
    BY <2>1, <2>2, GoodFacts, GoodEntry
  <2> QED BY <2>1, <2>3, <2>4, ReplaceTyped
<1>9. CASE ForceUnwrap
  <2> DEFINE v == Branch(Strict("==", Top.val, NullWord), Trap, Top.val)
             e == Entry(Inner(Top.ty), FALSE, v)
  <2>1. 1 \in 1 .. Len(stack) /\ Top \in Good /\ shim = Idle
    BY <1>9, ReadyFacts DEF ForceUnwrap
  <2>2. Value(v, Inner(Top.ty))
    <3>1. Value(Trap, Inner(Top.ty)) /\ (Top.val # NullWord => Value(Top.val, Inner(Top.ty)))
      BY <2>1, GoodFacts, NotNull DEF Value
    <3>2. v = IF Top.val = Trap THEN Trap ELSE IF Top.val = NullWord THEN Trap ELSE Top.val
      BY TestNull
    <3> HIDE DEF v
    <3> QED BY <3>1, <3>2
  <2>3. Replace(1, e) /\ UNCHANGED shim
    BY <1>9 DEF ForceUnwrap
  <2> HIDE DEF v
  <2>4. e \in Good
    BY <2>1, <2>2, GoodFacts, GoodEntry
  <2> QED BY <2>1, <2>3, <2>4, ReplaceTyped
<1>10. CASE IfElse
  <2>1. ~shim.running /\ Len(stack) = 3 /\ UNCHANGED shim
    BY <1>10 DEF IfElse
  <2>2. PICK t \in Unified(Below.ty, Top.ty) :
             Replace(3, Entry(t, Below.opt, Branch(stack[1].val, Below.val, Top.val)))
    BY <1>10 DEF IfElse
  <2> DEFINE v == Branch(stack[1].val, Below.val, Top.val)
  <2>3. Top \in Good /\ Below \in Good /\ 3 \in 1 .. Len(stack) /\ shim = Idle
    BY <1>0, <2>1, OperandsGood
  <2>4. /\ Below.ty \in Types /\ Top.ty \in Types /\ Below.opt \in BOOLEAN
        /\ Below.opt => Below.ty.null
        /\ Value(Below.val, Below.ty) /\ Value(Top.val, Top.ty)
    BY <2>3, GoodFacts
  <2>5. /\ t \in Types /\ (Below.ty.null => t.null)
        /\ Value(Below.val, t) /\ Value(Top.val, t)
    BY <2>4, UnifiedWidens
  <2>6. Value(v, t)
    BY <2>5 DEF Branch, Value
  <2> HIDE DEF v
  <2>7. Entry(t, Below.opt, v) \in Good
    BY <2>4, <2>5, <2>6, GoodEntry
  <2>8. Replace(3, Entry(t, Below.opt, v)) /\ shim' = Idle
    BY <2>1, <2>2, <2>3 DEF v
  <2> QED BY <2>3, <2>7, <2>8, ReplaceTyped
<1>11. CASE UNCHANGED scalars
  BY <1>0, <1>11 DEF scalars, ScalarsInv, Stacked, Registers, Below
<1> QED
  BY <1>1, <1>2, <1>3, <1>4, <1>5, <1>6, <1>7, <1>8, <1>9, <1>10, <1>11 DEF ScalarsNext

LEMMA SpecScalars == ScalarsSpec => []ScalarsInv
BY InitScalars, NextScalars, PTL DEF ScalarsSpec

------------------------------------------------------------------------------

\* Every expression has a type, and lowering calls nullable only what the checker does.
THEOREM ScalarsTypes == ScalarsSpec => []ScalarsTypeOK
<1>1. ScalarsInv => ScalarsTypeOK
  <2> SUFFICES ASSUME ScalarsInv PROVE ScalarsTypeOK
    OBVIOUS
  <2>1. Stacked /\ Len(stack) <= 3
    BY DEF ScalarsInv
  <2>2. \A i \in 1 .. Len(stack) : stack[i] \in Good
    BY <2>1, OperandsGood
  <2> QED BY <2>1, <2>2 DEF ScalarsTypeOK, Good
<1> QED BY <1>1, SpecScalars, PTL

\* Types are sound: what an expression evaluates to is a value of its type, whatever the
\* range of Integer and the width of the word (no Unknown in a Trilean!, no Integer out
\* of its range, no null in a type that is not nullable).
THEOREM ScalarsSound == ScalarsSpec => []Sound
<1>1. ScalarsInv => Sound
  <2> SUFFICES ASSUME ScalarsInv PROVE Sound
    OBVIOUS
  <2>1. Stacked
    BY DEF ScalarsInv
  <2>2. \A i \in 1 .. Len(stack) : stack[i] \in Good
    BY <2>1, OperandsGood
  <2> QED BY <2>2, GoodFacts DEF Sound, Value
<1> QED BY <1>1, SpecScalars, PTL

\* The code of an operator on Integers in range is the library's operator.
LEMMA ArithmeticAgrees ==
    ASSUME NEW a \in Within(Max), NEW b \in Within(Max), NEW o \in Arith
    PROVE  Execute(o, a, b) = Arithmetic(o, a, b, Max)
<1>1. /\ a \in Int /\ b \in Int /\ a # NullWord /\ Max \in Nat /\ Bound \in Nat
      /\ -Max <= a /\ a <= Max /\ -Max <= b /\ b <= Max /\ 2 * Max < Bound
  BY RangesFit DEF Within, NullWord
<1>2. CASE o = "+"
  <2>1. Overflowing(a + b) = a + b
    BY <1>1 DEF Overflowing
  <2> QED BY <1>2, <2>1 DEF Execute, Arithmetic, Exact
<1>3. CASE o = "-"
  <2>1. Overflowing(a - b) = a - b
    BY <1>1 DEF Overflowing
  <2> QED BY <1>3, <2>1 DEF Execute, Arithmetic, Exact
<1>4. CASE o = "*"
  <2>1. Within(Max) \subseteq Word
    BY <1>1 DEF Within, Word
  <2>2. Multiplied(a, b) = Checked(a * b, Max)
    BY <2>1 DEF Multiplied, Checked
  <2> QED BY <1>4, <2>2 DEF Execute, Arithmetic, Exact
<1>5. CASE o = "/"
  BY <1>1, <1>5 DEF Execute, Arithmetic, Divided
<1>6. CASE o = "%"
  BY <1>1, <1>6 DEF Execute, Arithmetic, Modulo
<1> QED BY <1>2, <1>3, <1>4, <1>5, <1>6 DEF Arith

\* The code of a connective is the library's truth table.
LEMMA LogicAgrees ==
    ASSUME NEW a \in Truth, NEW b \in Truth, NEW o \in Logic
    PROVE  Execute(o, a, b) = Connective(o, a, b)
<1>0. \A x, y \in Truth :
        /\ Less(x, y) = And(x, y) /\ Greater(x, y) = Or(x, y)
        /\ ImpliedBy(x, y) = Implies(x, y)
        /\ Implies(x, y) \in Truth /\ Or(x, y) \in Truth /\ -x \in Truth
  BY SMT DEF Less, Greater, ImpliedBy, And, Or, Implies, Truth
<1>1. CASE o \in {"and", "or", "implies"}
  BY <1>0, <1>1 DEF Execute, Connective
<1>2. CASE o \in {"iff", "xor"}
  BY <1>0, <1>2, ZenonT(30) DEF Execute, Connective, Iff, Not
<1>3. CASE o \in {"k_implies", "k_iff", "k_xor"}
  <2>1. \A x, y \in Truth : Greater(-x, y) = KleeneImplies(x, y) /\ KleeneImplies(x, y) \in Truth
    BY <1>0 DEF KleeneImplies, Not
  <2> QED BY <1>0, <1>3, <2>1 DEF Execute, Connective, KleeneIff, Not
<1> QED BY <1>1, <1>2, <1>3 DEF Logic

\* Operators compute what the libraries define, and stop exactly when they panic, on every
\* Integer an expression can produce and on every truth value.
THEOREM ScalarsAgree == ScalarsSpec => []AgreesWithCore
<1>1. ScalarsInv => AgreesWithCore
  <2> SUFFICES ASSUME ScalarsInv PROVE AgreesWithCore
    OBVIOUS
  <2>1. Stacked
    BY DEF ScalarsInv
  <2>2. Len(stack) >= 2 => /\ Value(Below.val, Below.ty) /\ Value(Top.val, Top.ty)
    BY <2>1, OperandsGood, GoodFacts
       , LenProperties DEF Stacked
  <2>3. ASSUME Operands("Integer"), NEW o \in Arith
        PROVE  Execute(o, Below.val, Top.val) = Arithmetic(o, Below.val, Top.val, Max)
    <3>1. Below.val \in Within(Max) /\ Top.val \in Within(Max)
      BY <2>2, <2>3 DEF Operands, Value, Plain, Admits
    <3> QED BY <3>1, ArithmeticAgrees
  <2>4. ASSUME NEW l \in Trileans, NEW r \in Trileans, NEW o \in Logic,
               Len(stack) >= 2, Below.ty = Plain(l), Top.ty = Plain(r),
               Trap \notin {Below.val, Top.val}
        PROVE  Execute(o, Below.val, Top.val) = Connective(o, Below.val, Top.val)
    <3>1. Below.val \in Truth /\ Top.val \in Truth
      BY <2>2, <2>4 DEF Value, Plain, Admits, Trileans, Truth
    <3> QED BY <3>1, LogicAgrees
  <2> QED BY <2>3, <2>4 DEF AgreesWithCore
<1> QED BY <1>1, SpecScalars, PTL

------------------------------------------------------------------------------
(* Induction over the naturals, for sets: the numbers a statement holds of *)

\* A set of naturals that is not empty has a least element.
LEMMA LeastOf ==
    ASSUME NEW S \in SUBSET Nat, S # {}
    PROVE  \E m \in S : \A k \in S : m <= k
<1> DEFINE R == OpToRel(<, Nat)
<1>1. IsWellFoundedOn(R, Nat)
  BY NatLessThanWellFounded
<1>2. \A x, y \in Nat : y < x => <<y, x>> \in R
  BY SMT DEF OpToRel
<1> HIDE DEF R
<1>3. PICK m \in S : \A k \in S : ~ (<<k, m>> \in R)
  BY <1>1, WFMin
<1>4. m \in Nat /\ \A k \in S : k \in Nat
  OBVIOUS
<1>5. ASSUME NEW k \in S PROVE m <= k
  <2>1. k \in Nat /\ m \in Nat /\ ~ (k < m)
    BY <1>2, <1>3, <1>4
  <2> QED BY <2>1, SMT
<1> QED BY <1>5

\* Induction, for the set of the numbers a statement holds of.
LEMMA AllNaturals ==
    ASSUME NEW S \in SUBSET Nat, 0 \in S, \A n \in S : n + 1 \in S
    PROVE  S = Nat
<1> SUFFICES ASSUME Nat \ S # {} PROVE FALSE
  OBVIOUS
<1>1. PICK m \in Nat \ S : \A k \in Nat \ S : m <= k
  BY LeastOf, Nat \ S \in SUBSET Nat
<1>2. m - 1 \in Nat
  BY <1>1
<1>3. m - 1 \in S
  BY <1>1, <1>2
<1> QED BY <1>1, <1>2, <1>3

\* A step repeated from c: the sequence of its results exists.
Iterations(S, c, G) ==
    {f \in [Nat -> S] : f[0] = c /\ \A k \in Nat : f[k + 1] = G[f[k]]}

LEMMA Iterates ==
    ASSUME NEW S, NEW c \in S, NEW G \in [S -> S]
    PROVE  Iterations(S, c, G) # {}
<1> DEFINE Upto(n) == {f \in [Nat -> S] : f[0] = c /\ \A k \in Nat : k < n => f[k + 1] = G[f[k]]}
           I == {n \in Nat : Upto(n) # {}}
<1>1. 0 \in I
  <2>1. [k \in Nat |-> c] \in Upto(0)
    BY SMT
  <2> QED BY <2>1
<1>2. ASSUME NEW n \in I PROVE n + 1 \in I
  <2>1. PICK f \in Upto(n) : TRUE
    OBVIOUS
  <2> DEFINE g == [f EXCEPT ![n + 1] = G[f[n]]]
  <2>2. n \in Nat /\ f \in [Nat -> S] /\ f[0] = c /\ \A k \in Nat : k < n => f[k + 1] = G[f[k]]
    BY <2>1
  <2>3. G[f[n]] \in S
    BY <2>2
  <2>4. g \in [Nat -> S] /\ g[n + 1] = G[f[n]] /\ \A k \in Nat : k # n + 1 => g[k] = f[k]
    BY <2>2, <2>3
  <2> HIDE DEF g
  <2>5. g[0] = c
    BY <2>2, <2>4
  <2>6. ASSUME NEW k \in Nat, k < n + 1 PROVE g[k + 1] = G[g[k]]
    <3>1. g[k] = f[k]
      BY <2>2, <2>4, <2>6
    <3>2. CASE k = n
      BY <2>4, <3>1, <3>2
    <3>3. CASE k # n
      <4>1. k < n /\ k + 1 # n + 1 /\ k + 1 \in Nat
        BY <2>2, <2>6, <3>3
      <4> QED BY <2>2, <2>4, <3>1, <4>1
    <3> QED BY <3>2, <3>3
  <2>7. g \in Upto(n + 1)
    BY <2>4, <2>5, <2>6
  <2> QED BY <2>2, <2>7
<1>3. I = Nat
  <2> HIDE DEF I
  <2>1. I \in SUBSET Nat
    BY DEF I
  <2> QED BY <1>1, <1>2, <2>1, AllNaturals
<1> DEFINE h == [n \in Nat |-> CHOOSE f \in Upto(n) : TRUE]
<1>4. \A n \in Nat : h[n] \in Upto(n)
  BY <1>3
<1> HIDE DEF h, I
<1>5. \A n \in Nat : h[n] \in [Nat -> S] /\ h[n][0] = c /\ \A k \in Nat : k < n => h[n][k + 1] = G[h[n][k]]
  BY <1>4
<1> HIDE DEF Upto
<1>6. ASSUME NEW n \in Nat PROVE \A k \in Nat : k <= n => h[n + 1][k] = h[n][k]
  <2> DEFINE J == {k \in Nat : k <= n => h[n + 1][k] = h[n][k]}
  <2>1. 0 \in J
    BY <1>5
  <2>2. ASSUME NEW k \in J PROVE k + 1 \in J
    <3>1. k \in Nat /\ k + 1 \in Nat
      OBVIOUS
    <3> SUFFICES ASSUME k + 1 <= n PROVE h[n + 1][k + 1] = h[n][k + 1]
      BY <3>1
    <3>2. k < n /\ k < n + 1 /\ k <= n /\ n + 1 \in Nat
      BY <3>1
    <3>3. h[n + 1][k + 1] = G[h[n + 1][k]] /\ h[n][k + 1] = G[h[n][k]]
      BY <1>5, <3>1, <3>2
    <3>4. h[n + 1][k] = h[n][k]
      BY <3>2
    <3> QED BY <3>3, <3>4
  <2>3. J = Nat
    <3> HIDE DEF J
    <3>1. J \in SUBSET Nat
      BY DEF J
    <3> QED BY <2>1, <2>2, <3>1, AllNaturals
  <2> QED BY <2>3
<1> DEFINE F == [n \in Nat |-> h[n][n]]
<1>7. F \in [Nat -> S] /\ F[0] = c
  BY <1>5
<1>8. ASSUME NEW n \in Nat PROVE F[n + 1] = G[F[n]]
  <2>1. F[n + 1] = h[n + 1][n + 1] /\ F[n] = h[n][n] /\ n + 1 \in Nat /\ n < n + 1 /\ n <= n
    BY SMT
  <2>2. h[n + 1][n + 1] = G[h[n + 1][n]]
    BY <1>5, <2>1
  <2>3. h[n + 1][n] = h[n][n]
    BY <1>6, <2>1
  <2> QED BY <2>1, <2>2, <2>3
<1> HIDE DEF F
<1>9. F \in Iterations(S, c, G)
  BY <1>7, <1>8 DEF Iterations
<1> QED BY <1>9

------------------------------------------------------------------------------
(* __triet_pow *)

\* The powers of b.
Powers(b) == CHOOSE f : f \in Iterations(Int, 1, [x \in Int |-> x * b])

LEMMA PowersStep ==
    ASSUME NEW b \in Int
    PROVE  /\ Powers(b) \in [Nat -> Int]
           /\ Powers(b)[0] = 1
           /\ \A k \in Nat : Powers(b)[k + 1] = Powers(b)[k] * b
<1> DEFINE G == [x \in Int |-> x * b]
<1>1. G \in [Int -> Int] /\ \A x \in Int : G[x] = x * b
  BY SMT
<1> HIDE DEF G
<1>2. Iterations(Int, 1, G) # {}
  BY <1>1, Iterates, 1 \in Int
<1>3. Powers(b) \in Iterations(Int, 1, G)
  BY <1>2 DEF Powers, G
<1> QED BY <1>1, <1>3 DEF Iterations

\* An even power is a power of the square.
LEMMA EvenPower ==
    ASSUME NEW b \in Int, NEW e \in Nat
    PROVE  Powers(b)[2 * e] = Powers(b * b)[e]
<1> DEFINE p == Powers(b)
           q == Powers(b * b)
           J == {k \in Nat : p[2 * k] = q[k]}
<1>1. /\ p \in [Nat -> Int] /\ p[0] = 1 /\ \A k \in Nat : p[k + 1] = p[k] * b
      /\ q \in [Nat -> Int] /\ q[0] = 1 /\ \A k \in Nat : q[k + 1] = q[k] * (b * b)
  BY PowersStep, b * b \in Int
<1> HIDE DEF p, q
<1>2. 0 \in J
  BY <1>1
<1>3. ASSUME NEW k \in J PROVE k + 1 \in J
  <2>1. k \in Nat /\ p[2 * k] = q[k] /\ 2 * k \in Nat /\ 2 * k + 1 \in Nat
    OBVIOUS
  <2>2. p[2 * k + 1] = p[2 * k] * b /\ p[(2 * k + 1) + 1] = p[2 * k + 1] * b
    BY <1>1, <2>1
  <2>3. 2 * (k + 1) = (2 * k + 1) + 1
    BY <2>1
  <2>4. p[2 * (k + 1)] = (q[k] * b) * b
    BY <2>1, <2>2, <2>3
  <2>5. q[k] \in Int
    BY <1>1, <2>1
  <2>6. (q[k] * b) * b = q[k] * (b * b)
    BY <2>5, SMT
  <2>7. q[k + 1] = q[k] * (b * b)
    BY <1>1, <2>1
  <2> QED BY <2>1, <2>4, <2>6, <2>7
<1>4. J = Nat
  <2> HIDE DEF J
  <2>1. J \in SUBSET Nat
    BY DEF J
  <2> QED BY <1>2, <1>3, <2>1, AllNaturals
<1> QED BY <1>4 DEF p, q

\* The factors that are left do not make the product smaller, unless it is 0.
LEMMA Farther ==
    ASSUME NEW a \in Int, NEW b \in Int, b # 0
    PROVE  Magnitude(a) <= Magnitude(a * b)
BY SMT DEF Magnitude

LEMMA PowerNotZero ==
    ASSUME NEW b \in Int, b # 0, NEW e \in Nat
    PROVE  Powers(b)[e] # 0
<1> DEFINE p == Powers(b)
           J == {k \in Nat : p[k] # 0}
<1>1. p \in [Nat -> Int] /\ p[0] = 1 /\ \A k \in Nat : p[k + 1] = p[k] * b
  BY PowersStep
<1> HIDE DEF p
<1>2. 0 \in J
  BY <1>1
<1>3. ASSUME NEW k \in J PROVE k + 1 \in J
  <2>1. k \in Nat /\ p[k] \in Int /\ p[k] # 0 /\ p[k + 1] = p[k] * b
    BY <1>1
  <2>2. p[k] * b # 0
    BY <2>1, SMT
  <2> QED BY <2>1, <2>2
<1>4. J = Nat
  <2> HIDE DEF J
  <2>1. J \in SUBSET Nat
    BY DEF J
  <2> QED BY <1>2, <1>3, <2>1, AllNaturals
<1> QED BY <1>4 DEF p

LEMMA PowerOfZero ==
    ASSUME NEW e \in Nat
    PROVE  Powers(0)[e] \in {0, 1}
<1>1. CASE e = 0
  <2>1. Powers(0)[0] = 1
    BY PowersStep
  <2> QED BY <1>1, <2>1
<1>2. CASE e # 0
  <2>1. e - 1 \in Nat /\ Powers(0)[(e - 1) + 1] = Powers(0)[e - 1] * 0 /\ Powers(0)[e - 1] \in Int
    BY <1>2, PowersStep
  <2> QED BY <2>1, SMT
<1> QED BY <1>1, <1>2

\* Factor by factor with a check after each, or all at once and checked in
\* the end: a product that has left the range does not come back.
LEMMA MultipliedOutIsPower ==
    ASSUME NEW base \in Int, NEW n \in Nat
    PROVE  MultipliedOut(base, n) = Checked(Powers(base)[n], Max)
<1> DEFINE p == Powers(base)
           c == [k \in 0 .. n |-> Checked(p[k], Max)]
           Rec(f) == [k \in 0 .. n |-> IF k = 0 THEN 1
                        ELSE LET q == f[k - 1]
                             IN  IF q = Trap THEN Trap ELSE Checked(q * base, Max)]
<1>1. p \in [Nat -> Int] /\ p[0] = 1 /\ \A k \in Nat : p[k + 1] = p[k] * base
  BY PowersStep
<1>2. base = 0 => \A k \in Nat : p[k] \in {0, 1}
  BY PowerOfZero
<1>0. Max \in Nat \ {0} /\ Trap \notin Int
  BY RangesFit
<1>p. MultipliedOut(base, n) = (CHOOSE f : f = Rec(f))[n]
  BY Zenon DEF MultipliedOut
<1> HIDE DEF p
<1>3. \A k \in Nat : Checked(p[k], Max) = (IF p[k] \in Within(Max) THEN p[k] ELSE Trap)
  BY DEF Checked
<1>4. Checked(p[0], Max) = 1
  BY <1>0, <1>1, SMT DEF Checked, Within
<1>5. ASSUME NEW k \in Nat, k # 0
      PROVE  Checked(p[k], Max) = IF Checked(p[k - 1], Max) = Trap THEN Trap
                                  ELSE Checked(Checked(p[k - 1], Max) * base, Max)
  <2>1. k - 1 \in Nat /\ p[k - 1] \in Int /\ p[k] = p[k - 1] * base
    <3>1. k - 1 \in Nat /\ (k - 1) + 1 = k
      BY <1>5
    <3> QED BY <1>1, <3>1
  <2>2. CASE p[k - 1] \in Within(Max)
    <3>1. Checked(p[k - 1], Max) = p[k - 1] /\ p[k - 1] # Trap
      BY <1>0, <2>1, <2>2 DEF Checked
    <3> QED BY <2>1, <3>1
  <2>3. CASE p[k - 1] \notin Within(Max)
    <3>1. Checked(p[k - 1], Max) = Trap
      BY <2>3 DEF Checked
    <3>2. base # 0
      BY <1>0, <1>2, <2>1, <2>3, SMT DEF Within
    <3>3. Magnitude(p[k - 1]) <= Magnitude(p[k - 1] * base)
      BY <2>1, <3>2, Farther
    <3>4. p[k] \notin Within(Max)
      BY <1>0, <2>1, <2>3, <3>3, SMT DEF Within, Magnitude
    <3> QED BY <3>1, <3>4 DEF Checked
  <2> QED BY <2>2, <2>3
<1>6. c = Rec(c)
  <2>1. ASSUME NEW k \in 0 .. n
        PROVE  c[k] = Rec(c)[k]
    <3>1. CASE k = 0
      BY <1>4, <3>1
    <3>2. CASE k # 0
      <4>1. k \in Nat /\ k - 1 \in 0 .. n
        BY <3>2
      <4>2. c[k - 1] = Checked(p[k - 1], Max)
        BY <4>1
      <4> QED BY <1>5, <3>2, <4>1, <4>2
    <3> QED BY <3>1, <3>2
  <2> QED BY <2>1
<1> DEFINE f == CHOOSE f : f = Rec(f)
<1>7. f = Rec(f)
  BY <1>6, Zenon
<1>8. ASSUME NEW J, J = {k \in Nat : k <= n => f[k] = c[k]} PROVE J = Nat
  <2>1. 0 \in J
    <3>1. f[0] = 1 /\ c[0] = 1
      <4> HIDE DEF f
      <4>1. 0 \in 0 .. n
        OBVIOUS
      <4>2. Rec(f)[0] = 1
        BY <4>1
      <4> QED BY <1>4, <1>7, <4>1, <4>2
    <3> QED BY <1>8, <3>1
  <2>2. ASSUME NEW k \in J PROVE k + 1 \in J
    <3> HIDE DEF f
    <3>1. k \in Nat /\ k + 1 \in Nat
      BY <1>8
    <3>2. CASE k + 1 <= n
      <4>1. k <= n /\ k \in 0 .. n /\ k + 1 \in 0 .. n /\ (k + 1) - 1 = k /\ k + 1 # 0
        BY <3>1, <3>2
      <4>2. f[k] = c[k]
        BY <1>8, <4>1
      <4>3. Rec(f)[k + 1] = IF f[k] = Trap THEN Trap ELSE Checked(f[k] * base, Max)
        BY <4>1
      <4>4. f[k + 1] = IF f[k] = Trap THEN Trap ELSE Checked(f[k] * base, Max)
        <5> HIDE DEF Rec
        <5>1. f[k + 1] = Rec(f)[k + 1]
          BY <1>7, Zenon
        <5> QED BY <4>3, <5>1, Zenon
      <4>5. Rec(c)[k + 1] = IF c[k] = Trap THEN Trap ELSE Checked(c[k] * base, Max)
        BY <4>1
      <4>6. c[k + 1] = IF c[k] = Trap THEN Trap ELSE Checked(c[k] * base, Max)
        BY <1>6, <4>5
      <4>7. f[k + 1] = c[k + 1]
        BY <4>2, <4>4, <4>6
      <4> QED BY <1>8, <3>1, <4>7
    <3>3. CASE ~ (k + 1 <= n)
      BY <1>8, <3>1, <3>3
    <3> QED BY <3>2, <3>3
  <2>3. J \in SUBSET Nat
    BY <1>8
  <2> QED BY <2>1, <2>2, <2>3, AllNaturals
<1>9. f[n] = c[n]
  <2>1. {k \in Nat : k <= n => f[k] = c[k]} = Nat
    BY <1>8
  <2> HIDE DEF f, c
  <2> QED BY <2>1
<1>10. c[n] = Checked(p[n], Max)
  OBVIOUS
<1> QED BY <1>p, <1>9, <1>10 DEF p
LEMMA PowerInt ==
    ASSUME NEW b \in Int, NEW e \in Nat
    PROVE  Powers(b)[e] \in Int
BY PowersStep

LEMMA Halves ==
    ASSUME NEW e \in Nat \ {0}
    PROVE  /\ e \div 2 \in Nat
           /\ e % 2 = 1 => e = 2 * (e \div 2) + 1
           /\ e % 2 # 1 => e = 2 * (e \div 2) /\ e \div 2 > 0
BY SMT

LEMMA OddPower ==
    ASSUME NEW b \in Int, NEW e \in Nat
    PROVE  Powers(b)[2 * e + 1] = Powers(b * b)[e] * b
<1>1. 2 * e \in Nat
  OBVIOUS
<1>2. Powers(b)[2 * e + 1] = Powers(b)[2 * e] * b
  BY <1>1, PowersStep
<1> QED BY <1>2, EvenPower

\* The square is only taken when it is used; without it the exponent is 1.
LEMMA LastPower ==
    ASSUME NEW b \in Int
    PROVE  Powers(b)[1] = b
<1>1. Powers(b)[0 + 1] = Powers(b)[0] * b /\ Powers(b)[0] = 1
  BY PowersStep, 0 \in Nat
<1> QED BY <1>1, SMT

\* What one turn of the loop leaves to be multiplied out.
LEMMA TurnKeepsPower ==
    ASSUME NEW r \in Int, NEW b \in Int, NEW e \in Nat \ {0}
    PROVE  (IF e % 2 = 1 THEN r * b ELSE r) * Powers(IF e \div 2 > 0 THEN b * b ELSE b)[e \div 2]
             = r * Powers(b)[e]
<1> DEFINE h == e \div 2
           s == b * b
<1>1. h \in Nat /\ (e % 2 = 1 => e = 2 * h + 1) /\ (e % 2 # 1 => e = 2 * h /\ h > 0)
  BY Halves
<1>2. s \in Int
  BY SMT
<1>3. Powers(s)[h] \in Int
  BY <1>1, <1>2, PowerInt
<1> HIDE DEF h
<1>4. CASE e % 2 = 1 /\ h > 0
  <2>1. Powers(b)[e] = Powers(s)[h] * b
    BY <1>1, <1>4, OddPower
  <2> DEFINE q == Powers(s)[h]
  <2> HIDE DEF q
  <2>2. (r * b) * q = r * (q * b)
    BY <1>3, SMT DEF q
  <2> QED BY <1>4, <2>1, <2>2 DEF q, h
<1>5. CASE e % 2 = 1 /\ ~ (h > 0)
  <2>1. h = 0 /\ e = 1
    BY <1>1, <1>5
  <2>2. Powers(b)[e] = b /\ Powers(b)[h] = 1
    BY <2>1, LastPower, PowersStep
  <2>3. (r * b) * 1 = r * b
    BY SMT
  <2> QED BY <1>5, <2>2, <2>3 DEF h
<1>6. CASE e % 2 # 1
  <2>1. Powers(b)[e] = Powers(s)[h] /\ h > 0
    BY <1>1, <1>6, EvenPower
  <2> QED BY <1>6, <2>1 DEF h
<1> QED BY <1>4, <1>5, <1>6

LEMMA TurnKeepsNonZero ==
    ASSUME NEW r \in Int, NEW b \in Int, NEW e \in Nat, r # 0 \/ b = 0
    PROVE  (IF e % 2 = 1 THEN r * b ELSE r) # 0 \/ (IF e \div 2 > 0 THEN b * b ELSE b) = 0
<1>1. CASE b = 0
  BY <1>1, SMT
<1>2. CASE b # 0
  <2>1. r # 0 /\ r * b # 0
    BY <1>2, SMT
  <2> QED BY <2>1
<1> QED BY <1>1, <1>2

\* A turn that overflows does so for a factor of the product that is left.
LEMMA TurnOverflows ==
    ASSUME NEW r \in Int, NEW b \in Int, NEW e \in Nat \ {0}, NEW max \in Nat \ {0},
           r # 0 \/ b = 0,
           \/ e % 2 = 1 /\ r * b \notin Within(max)
           \/ e \div 2 > 0 /\ b * b \notin Within(max)
    PROVE  r * Powers(b)[e] \notin Within(max)
<1>1. b # 0 /\ r # 0
  <2>1. b = 0 => r * b \in Within(max) /\ b * b \in Within(max)
    BY SMT DEF Within
  <2> QED BY <2>1
<1> DEFINE h == e \div 2
           s == b * b
           q == Powers(s)[h]
<1>2. h \in Nat /\ (e % 2 = 1 => e = 2 * h + 1) /\ (e % 2 # 1 => e = 2 * h /\ h > 0)
  BY Halves
<1> HIDE DEF h
<1>3. s \in Int /\ s # 0
  BY <1>1, SMT
<1> HIDE DEF s
<1>4. q \in Int /\ q # 0
  BY <1>2, <1>3, PowerInt, PowerNotZero
<1>5. CASE e % 2 = 1 /\ r * b \notin Within(max)
  <2>1. Powers(b)[e] = q * b
    BY <1>2, <1>5, OddPower DEF s
  <2> HIDE DEF q
  <2>2. r * (q * b) = (r * b) * q /\ r * b \in Int
    BY <1>4, SMT
  <2>3. Magnitude(r * b) <= Magnitude((r * b) * q)
    BY <1>4, <2>2, Farther
  <2> DEFINE x == r * b
             y == x * q
  <2>4. x \in Int /\ y \in Int
    BY <1>4, SMT
  <2> HIDE DEF x, y
  <2>5. x \notin Within(max) /\ Magnitude(x) <= Magnitude(y)
    BY <1>5, <2>3 DEF x, y
  <2>6. y \notin Within(max)
    BY <2>4, <2>5, SMT DEF Within, Magnitude
  <2> QED BY <2>1, <2>2, <2>6 DEF x, y
<1>6. CASE h > 0 /\ s \notin Within(max)
  <2> DEFINE g == Powers(s)[h - 1]
             c == IF e % 2 = 1 THEN (r * b) * g ELSE r * g
  <2>1. h - 1 \in Nat /\ (h - 1) + 1 = h
    BY <1>2, <1>6
  <2>2. g \in Int /\ g # 0 /\ q = g * s
    BY <1>3, <2>1, PowerInt, PowerNotZero, PowersStep
  <2>3. Powers(b)[e] = IF e % 2 = 1 THEN q * b ELSE q
    BY <1>2, OddPower, EvenPower DEF s
  <2> HIDE DEF q, g
  <2>4. c \in Int /\ c # 0
    BY <1>1, <2>2, SMT
  <2>5. r * Powers(b)[e] = s * c
    <3>1. r * ((g * s) * b) = s * ((r * b) * g) /\ r * (g * s) = s * (r * g)
      BY <1>3, <2>2, SMT
    <3> QED BY <2>2, <2>3, <3>1
  <2> HIDE DEF c
  <2>6. Magnitude(s) <= Magnitude(s * c)
    BY <1>3, <2>4, Farther
  <2> DEFINE y == s * c
  <2>7. y \in Int
    BY <1>3, <2>4, SMT
  <2> HIDE DEF y
  <2>8. y \notin Within(max)
    BY <1>3, <1>6, <2>6, <2>7, SMT DEF Within, Magnitude, y
  <2> QED BY <2>5, <2>8 DEF y
<1> QED BY <1>5, <1>6 DEF h, s

\* What the registers of a running call stand for: the product that is left,
\* times the result so far, is the power asked for.
PowerKept ==
    shim = Idle \/
    (/\ Below.val \in Int /\ Top.val \in Nat
     /\ shim.result # 0 \/ shim.b = 0
     /\ shim.result * Powers(shim.b)[shim.e] = Powers(Below.val)[Top.val])

PowerInv == ScalarsInv /\ PowerKept

LEMMA PowerStarts ==
    ASSUME ScalarsInv, Power
    PROVE  PowerKept'
<1>1. /\ Ready(2) /\ Typed("**", Below.ty, Top.ty)
      /\ UNCHANGED shim \/ (/\ shim' = [running |-> TRUE, result |-> 1, e |-> Top.val, b |-> Below.val]
                            /\ UNCHANGED stack /\ Trap \notin {Below.val, Top.val} /\ ~ (Top.val < 0))
  BY DEF Power
<1>2. shim = Idle /\ Below \in Good /\ Top \in Good
  BY <1>1, ReadyFacts
<1>3. CASE UNCHANGED shim
  BY <1>2, <1>3 DEF PowerKept
<1>4. CASE /\ shim' = [running |-> TRUE, result |-> 1, e |-> Top.val, b |-> Below.val]
           /\ UNCHANGED stack /\ Trap \notin {Below.val, Top.val} /\ ~ (Top.val < 0)
  <2>1. Below.val \in Int /\ Top.val \in Int
    BY <1>2, <1>4, RangesFit DEF Good, Word
  <2>2. Top.val \in Nat
    BY <1>4, <2>1
  <2>3. Below' = Below /\ Top' = Top
    BY <1>4 DEF Below, Top
  <2>4. Powers(Below.val)[Top.val] \in Int
    BY <2>1, <2>2, PowerInt
  <2>5. 1 * Powers(Below.val)[Top.val] = Powers(Below.val)[Top.val]
    BY <2>4
  <2>6. shim'.result = 1 /\ shim'.e = Top.val /\ shim'.b = Below.val
    BY <1>4
  <2> QED BY <2>1, <2>2, <2>3, <2>5, <2>6 DEF PowerKept
<1> QED BY <1>1, <1>3, <1>4

LEMMA RunningCall ==
    ASSUME PowerInv, shim.running
    PROVE  /\ shim.result \in Within(Max) /\ shim.e \in Nat /\ shim.b \in Int
           /\ Below.val \in Int /\ Top.val \in Nat
           /\ shim.result # 0 \/ shim.b = 0
           /\ shim.result * Powers(shim.b)[shim.e] = Powers(Below.val)[Top.val]
           /\ Len(stack) = 2 /\ Stacked
<1>1. shim # Idle
  BY DEF Idle
<1>2. Registers /\ PowerKept /\ Stacked
  BY DEF PowerInv, ScalarsInv
<1> QED BY <1>1, <1>2 DEF Registers, PowerKept

\* A turn of the loop, or its return with the product or its overflow.
LEMMA TurnOfLoop ==
    ASSUME PowerInv, PowLoop
    PROVE  /\ PowerKept'
           /\ ~ shim'.running => PowReturn(MultipliedOut(Below.val, Top.val))
<1> DEFINE r == IF shim.e % 2 = 1 THEN shim.result * shim.b ELSE shim.result
           b == IF shim.e \div 2 > 0 THEN shim.b * shim.b ELSE shim.b
           R == IF shim.e % 2 = 1 THEN Checked(shim.result * shim.b, Max) ELSE shim.result
           B == Squared(shim.b, shim.e \div 2)
           P == Powers(Below.val)[Top.val]
<1>0. Max \in Nat \ {0} /\ Trap \notin Int
  BY RangesFit
<1>1. shim.running
  BY DEF PowLoop
<1>2. /\ shim.result \in Within(Max) /\ shim.e \in Nat /\ shim.b \in Int
      /\ Below.val \in Int /\ Top.val \in Nat
      /\ shim.result # 0 \/ shim.b = 0
      /\ shim.result * Powers(shim.b)[shim.e] = P
  BY <1>1, RunningCall
<1>3. shim.result \in Int
  BY <1>0, <1>2 DEF Within
<1>4. MultipliedOut(Below.val, Top.val) = Checked(P, Max)
  BY <1>2, MultipliedOutIsPower
<1>5. IF shim.e = 0 THEN PowReturn(shim.result)
      ELSE IF Trap \in {R, B} THEN PowReturn(Trap)
      ELSE /\ shim' = [shim EXCEPT !.result = R, !.e = @ \div 2, !.b = B]
           /\ UNCHANGED stack
  BY DEF PowLoop
<1> HIDE DEF P
<1>6. CASE shim.e = 0
  <2>1. P = shim.result
    <3>1. Powers(shim.b)[shim.e] = 1
      BY <1>2, <1>6, PowersStep
    <3>2. P = shim.result * 1
      BY <1>2, <3>1
    <3> QED BY <1>3, <3>2
  <2>2. Checked(P, Max) = shim.result
    BY <1>2, <2>1 DEF Checked
  <2>3. PowReturn(MultipliedOut(Below.val, Top.val))
    BY <1>4, <1>5, <1>6, <2>2
  <2> QED BY <2>3 DEF PowReturn, PowerKept
<1>7. CASE shim.e # 0 /\ Trap \in {R, B}
  <2>1. shim.e \in Nat \ {0}
    BY <1>2, <1>7
  <2>2. \/ shim.e % 2 = 1 /\ shim.result * shim.b \notin Within(Max)
        \/ shim.e \div 2 > 0 /\ shim.b * shim.b \notin Within(Max)
    <3>1. R = Trap => shim.e % 2 = 1 /\ shim.result * shim.b \notin Within(Max)
      <4>1. shim.result * shim.b \in Int
        BY <1>2, <1>3
      <4> QED BY <1>0, <1>3, <4>1 DEF Checked
    <3>2. B = Trap => shim.e \div 2 > 0 /\ shim.b * shim.b \notin Within(Max)
      <4>1. shim.b * shim.b \in Int
        BY <1>2
      <4> QED BY <1>0, <1>2, <4>1 DEF Checked, Squared
    <3> HIDE DEF R, B
    <3> QED BY <1>7, <3>1, <3>2
  <2>3. P \notin Within(Max)
    BY <1>0, <1>2, <1>3, <2>1, <2>2, TurnOverflows
  <2>4. Checked(P, Max) = Trap
    BY <2>3 DEF Checked
  <2>5. PowReturn(MultipliedOut(Below.val, Top.val))
    <3> HIDE DEF R, B
    <3> QED BY <1>4, <1>5, <1>7, <2>4
  <2> QED BY <2>5 DEF PowReturn, PowerKept
<1>8. CASE shim.e # 0 /\ Trap \notin {R, B}
  <2>1. shim.e \in Nat \ {0} /\ shim.e \div 2 \in Nat
    BY <1>2, <1>8
  <2>2. R = r /\ B = b
    <3>1. R # Trap => R = r
      BY DEF Checked
    <3>2. B # Trap => B = b
      BY DEF Checked, Squared
    <3> HIDE DEF R, B, r, b
    <3> QED BY <1>8, <3>1, <3>2
  <2>3. r * Powers(b)[shim.e \div 2] = shim.result * Powers(shim.b)[shim.e]
    BY <1>2, <1>3, <2>1, TurnKeepsPower
  <2>4. r # 0 \/ b = 0
    BY <1>2, <1>3, TurnKeepsNonZero
  <2> HIDE DEF R, B, r, b
  <2>5. shim' = [shim EXCEPT !.result = R, !.e = @ \div 2, !.b = B] /\ UNCHANGED stack
    BY <1>5, <1>8
  <2>6. shim \in [running : {TRUE}, result : Within(Max), e : Nat, b : Int]
    <3>1. shim # Idle
      BY <1>1 DEF Idle
    <3> QED BY <3>1 DEF PowerInv, ScalarsInv, Registers
  <2>7. shim'.result = R /\ shim'.e = shim.e \div 2 /\ shim'.b = B /\ shim'.running
    BY <2>5, <2>6
  <2>8. Below' = Below /\ Top' = Top
    BY <2>5 DEF Below, Top
  <2>9. PowerKept'
    BY <1>2, <2>2, <2>3, <2>4, <2>7, <2>8 DEF PowerKept, P
  <2> QED BY <2>7, <2>9
<1> HIDE DEF R, B
<1> QED BY <1>6, <1>7, <1>8

LEMMA SpecPowerInv == ScalarsSpec => []PowerInv
<1>1. ScalarsInit => PowerKept
  BY DEF ScalarsInit, PowerKept
<1>2. PowerInv /\ [ScalarsNext]_scalars => PowerInv'
  <2> SUFFICES ASSUME PowerInv, [ScalarsNext]_scalars PROVE PowerInv'
    OBVIOUS
  <2>1. ScalarsInv /\ ScalarsInv'
    BY NextScalars DEF PowerInv
  <2>2. CASE Power
    BY <2>1, <2>2, PowerStarts DEF PowerInv
  <2>3. CASE PowLoop
    BY <2>1, <2>3, TurnOfLoop DEF PowerInv
  <2>4. CASE UNCHANGED scalars
    <3>1. shim' = shim /\ Below' = Below /\ Top' = Top
      BY <2>4 DEF scalars, Below, Top
    <3> QED BY <2>1, <3>1 DEF PowerInv, PowerKept
  <2>5. CASE Literal \/ Absent \/ Annotate \/ Negate \/ Binary \/ Elvis \/ ForceUnwrap \/ IfElse
    <3>1. ~ shim.running /\ shim' = shim
      BY <2>5 DEF Literal, Absent, Annotate, Negate, Binary, Elvis, ForceUnwrap, IfElse, Push, Ready
    <3>2. shim = Idle
      BY <2>1, <3>1 DEF ScalarsInv, Registers
    <3> QED BY <2>1, <3>1, <3>2 DEF PowerInv, PowerKept
  <2> QED BY <2>2, <2>3, <2>4, <2>5 DEF ScalarsNext
<1> QED BY <1>1, <1>2, InitScalars, PTL DEF ScalarsSpec, PowerInv

\* __triet_pow is exact: squaring and halving, with a check after each product, it
\* returns the product of as many factors as the exponent says, and it aborts if and
\* only if multiplying them out one by one leaves Integer's range, for every base and
\* every exponent.
THEOREM ScalarsPower == ScalarsSpec => PowerExact
<1>1. PowerInv /\ [ScalarsNext]_scalars =>
        [shim.running /\ ~shim'.running =>
           stack'[Len(stack')].val = MultipliedOut(Below.val, Top.val)]_scalars
  <2> SUFFICES ASSUME PowerInv, [ScalarsNext]_scalars, shim.running, ~shim'.running
               PROVE  stack'[Len(stack')].val = MultipliedOut(Below.val, Top.val)
    OBVIOUS
  <2>1. CASE PowLoop
    <3> DEFINE m == MultipliedOut(Below.val, Top.val)
               e == Entry(Below.ty, FALSE, m)
    <3>1. PowReturn(m) /\ Len(stack) = 2 /\ Stacked
      BY <2>1, TurnOfLoop, RunningCall
    <3> HIDE DEF m
    <3>2. stack' = Append(SubSeq(stack, 1, Len(stack) - 2), e)
      BY <3>1 DEF PowReturn, Replace
    <3>3. SubSeq(stack, 1, 0) = <<>>
      BY SubSeqEmpty
    <3>4. SubSeq(stack, 1, Len(stack) - 2) = <<>>
      BY <3>1, <3>3
    <3>5. e.val = m
      BY DEF Entry
    <3> HIDE DEF e
    <3>6. stack' = Append(<<>>, e)
      BY <3>2, <3>4
    <3>7. stack' = <<e>>
      BY <3>6
    <3>8. stack'[Len(stack')] = e
      BY <3>7
    <3> QED BY <3>5, <3>8 DEF m
  <2>2. CASE ~ PowLoop
    BY <2>2 DEF ScalarsNext, Literal, Absent, Annotate, Negate, Binary, Power, Elvis,
                ForceUnwrap, IfElse, Push, Ready, scalars
  <2> QED BY <2>1, <2>2
<1> QED BY <1>1, SpecPowerInv, PTL DEF ScalarsSpec, PowerExact

------------------------------------------------------------------------------
(* The variants for overflow *)

LEMMA WeightFacts ==
    /\ Weight \in [Nat -> Int]
    /\ Weight[0] = 1
    /\ \A k \in Nat : Weight[k + 1] = 3 * Weight[k]
<1> DEFINE Rec(f) == [k \in Nat |-> IF k = 0 THEN 1 ELSE 3 * f[k - 1]]
           G == [x \in Int |-> 3 * x]
<1>1. G \in [Int -> Int] /\ (\A x \in Int : G[x] = 3 * x) /\ 1 \in Int
  BY SMT
<1> HIDE DEF G
<1>2. PICK w \in Iterations(Int, 1, G) : TRUE
  BY <1>1, Iterates
<1>3. w \in [Nat -> Int] /\ w[0] = 1 /\ \A k \in Nat : w[k + 1] = 3 * w[k]
  BY <1>1, <1>2 DEF Iterations
<1>4. ASSUME NEW k \in Nat PROVE w[k] = Rec(w)[k]
  <2>1. CASE k = 0
    BY <1>3, <2>1
  <2>2. CASE k # 0
    <3>1. k - 1 \in Nat /\ (k - 1) + 1 = k
      BY <2>2
    <3> QED BY <1>3, <2>2, <3>1
  <2> QED BY <2>1, <2>2
<1>5. w = Rec(w)
  BY <1>3, <1>4
<1>6. Weight = CHOOSE f : f = Rec(f)
  BY Zenon DEF Weight
<1>7. Weight = Rec(Weight)
  BY <1>5, <1>6, Zenon
<1> DEFINE J == {k \in Nat : Weight[k] \in Int}
<1>8. Weight[0] = 1
  <2>1. Rec(Weight)[0] = 1
    OBVIOUS
  <2> HIDE DEF Rec
  <2> QED BY <1>7, <2>1, Zenon
<1>9. ASSUME NEW k \in Nat PROVE Weight[k + 1] = 3 * Weight[k]
  <2>1. k + 1 \in Nat /\ (k + 1) - 1 = k /\ k + 1 # 0
    OBVIOUS
  <2>2. Rec(Weight)[k + 1] = 3 * Weight[k]
    BY <2>1
  <2> HIDE DEF Rec
  <2> QED BY <1>7, <2>2, Zenon
<1>10. J = Nat
  <2>1. 0 \in J
    BY <1>8
  <2>2. ASSUME NEW k \in J PROVE k + 1 \in J
    BY <1>9
  <2> HIDE DEF J
  <2>3. J \in SUBSET Nat
    BY DEF J
  <2> QED BY <2>1, <2>2, <2>3, AllNaturals
<1>11. DOMAIN Weight = Nat /\ Weight = [k \in Nat |-> Weight[k]]
  <2>1. DOMAIN Rec(Weight) = Nat /\ Rec(Weight) = [k \in Nat |-> Rec(Weight)[k]]
    OBVIOUS
  <2> HIDE DEF Rec
  <2> QED BY <1>7, <2>1, Zenon
<1>12. Weight \in [Nat -> Int]
  BY <1>10, <1>11
<1> QED BY <1>8, <1>9, <1>12

LEMMA WeightPositive ==
    ASSUME NEW k \in Nat
    PROVE  Weight[k] \in Nat \ {0}
<1> DEFINE J == {i \in Nat : Weight[i] \in Nat \ {0}}
<1>1. 0 \in J
  BY WeightFacts
<1>2. ASSUME NEW i \in J PROVE i + 1 \in J
  <2>1. i \in Nat /\ i + 1 \in Nat /\ Weight[i] \in Nat \ {0}
    OBVIOUS
  <2>2. Weight[i + 1] = 3 * Weight[i]
    BY <2>1, WeightFacts
  <2>3. Weight[i + 1] \in Nat \ {0}
    BY <2>1, <2>2
  <2> QED BY <2>1, <2>3
<1>3. J = Nat
  <2> HIDE DEF J
  <2>1. J \in SUBSET Nat
    BY DEF J
  <2> QED BY <1>1, <1>2, <2>1, AllNaturals
<1> QED BY <1>3

\* The weight of a trit divides that of every higher one.
LEMMA WeightDivides ==
    ASSUME NEW k \in Nat, NEW d \in Nat
    PROVE  \E m \in Nat \ {0} : Weight[k + d] = Weight[k] * m
<1> DEFINE J == {i \in Nat : \E m \in Nat \ {0} : Weight[k + i] = Weight[k] * m}
<1>1. 0 \in J
  <2>1. Weight[k + 0] = Weight[k] * 1
    BY WeightFacts
  <2> QED BY <2>1
<1>2. ASSUME NEW i \in J PROVE i + 1 \in J
  <2>1. PICK m \in Nat \ {0} : Weight[k + i] = Weight[k] * m
    OBVIOUS
  <2>2. i \in Nat /\ k + i \in Nat /\ k + (i + 1) = (k + i) + 1
    OBVIOUS
  <2>3. Weight[k + (i + 1)] = 3 * Weight[k + i]
    BY <2>2, WeightFacts
  <2>4. Weight[k] \in Nat \ {0}
    BY WeightPositive
  <2>5. 3 * (Weight[k] * m) = Weight[k] * (3 * m) /\ 3 * m \in Nat \ {0}
    BY <2>4, SMT
  <2>6. Weight[k + (i + 1)] = Weight[k] * (3 * m)
    BY <2>1, <2>3, <2>5
  <2>7. \E j \in Nat \ {0} : Weight[k + (i + 1)] = Weight[k] * j
    BY <2>5, <2>6
  <2> QED BY <2>2, <2>7
<1>3. J = Nat
  <2> HIDE DEF J
  <2>1. J \in SUBSET Nat
    BY DEF J
  <2> QED BY <1>1, <1>2, <2>1, AllNaturals
<1> HIDE DEF J
<1>4. d \in J
  BY <1>3
<1> QED BY <1>4 DEF J

LEMMA QuotientUnique ==
    ASSUME NEW p \in Nat \ {0}, NEW x \in Int, NEW q \in Int, NEW r \in 0 .. p - 1, x = p * q + r
    PROVE  x \div p = q
<1> DEFINE d == x \div p
           s == x % p
<1>1. d \in Int /\ s \in 0 .. p - 1 /\ x = p * d + s
  BY SMT
<1> HIDE DEF d, s
<1>2. p * (d - q) = r - s
  <2>1. p * (d - q) = p * d - p * q
    BY <1>1, SMT
  <2> QED BY <1>1, <2>1, p * d \in Int, p * q \in Int
<1>3. d - q >= 1 => p * (d - q) >= p
  BY <1>1, SMT
<1>4. d - q <= -1 => p * (d - q) <= -p
  BY <1>1, SMT
<1>5. d - q = 0
  BY <1>1, <1>2, <1>3, <1>4
<1> QED BY <1>1, <1>5 DEF d

\* Adding a multiple of the divisor moves the quotient by that multiple.
LEMMA QuotientShifts ==
    ASSUME NEW p \in Nat \ {0}, NEW x \in Int, NEW j \in Int
    PROVE  (x + p * j) \div p = x \div p + j
<1> DEFINE d == x \div p
           s == x % p
<1>1. d \in Int /\ s \in 0 .. p - 1 /\ x = p * d + s
  BY SMT
<1> HIDE DEF d, s
<1>2. x + p * j = p * (d + j) + s
  <2>1. p * (d + j) = p * d + p * j
    BY <1>1, SMT
  <2> QED BY <1>1, <2>1, p * d \in Int, p * j \in Int
<1>3. x + p * j \in Int /\ d + j \in Int
  BY <1>1
<1>4. (x + p * j) \div p = d + j
  BY <1>1, <1>2, <1>3, QuotientUnique
<1> QED BY <1>4 DEF d

\* Numbers that differ by a multiple of the weight of trit k + 1 have the same
\* trits up to k.
LEMMA SameTrits ==
    ASSUME NEW k \in Nat, NEW v \in Int, NEW w \in Int, NEW j \in Int,
           v = w + Weight[k + 1] * j
    PROVE  TritOf(v, k) = TritOf(w, k)
<1> DEFINE p == Weight[k]
           c == (Weight[k + 1] - 1) \div 2
<1>1. p \in Nat \ {0} /\ Weight[k + 1] = 3 * p
  BY WeightPositive, WeightFacts
<1>2. c \in Int
  BY <1>1
<1> HIDE DEF p, c
<1>3. v + c = (w + c) + p * (3 * j)
  <2>1. (3 * p) * j = p * (3 * j) /\ p * (3 * j) \in Int
    BY <1>1, SMT
  <2> QED BY <1>1, <1>2, <2>1
<1>4. (v + c) \div p = (w + c) \div p + 3 * j
  <2>1. w + c \in Int /\ 3 * j \in Int
    BY <1>2
  <2> QED BY <1>1, <1>3, <2>1, QuotientShifts
<1> DEFINE y == (w + c) \div p
<1>5. y \in Int
  BY <1>1, <1>2
<1> HIDE DEF y
<1>6. (y + 3 * j) % 3 = y % 3
  BY <1>5, SMT
<1> QED BY <1>4, <1>6 DEF TritOf, y, p, c

LEMMA WrappedFacts ==
    ASSUME NEW v \in Int, NEW max \in Nat
    PROVE  /\ Wrapped(v, max) \in Within(max)
           /\ \E q \in Int : v = Wrapped(v, max) + (2 * max + 1) * q
           /\ v \in Within(max) => Wrapped(v, max) = v
<1> DEFINE n == 2 * max + 1
           x == v + max
           q == x \div n
           r == x % n
<1>1. n \in Nat \ {0} /\ x \in Int
  OBVIOUS
<1> HIDE DEF n, x
<1>2. q \in Int /\ r \in 0 .. n - 1 /\ x = n * q + r
  BY <1>1, SMT
<1>3. Wrapped(v, max) = r - max
  BY DEF Wrapped, n, x
<1>4. v \in Within(max) => q = 0
  <2> SUFFICES ASSUME v \in Within(max) PROVE q = 0
    OBVIOUS
  <2>1. x \in 0 .. n - 1
    BY DEF Within, x, n
  <2>2. x = n * 0 + x
    BY <1>1
  <2> QED BY <1>1, <2>1, <2>2, QuotientUnique
<1> HIDE DEF q, r
<1>5. r - max \in Within(max)
  BY <1>2 DEF Within, n
<1>6. v = (r - max) + n * q
  BY <1>1, <1>2, n * q \in Int DEF x
<1>7. q = 0 => n * q = 0
  BY <1>1
<1>8. v \in Within(max) => r - max = v
  BY <1>1, <1>2, <1>4, <1>6, <1>7
<1> QED BY <1>2, <1>3, <1>5, <1>6, <1>8 DEF n

LEMMA ClampedFacts ==
    ASSUME NEW v \in Int, NEW max \in Nat
    PROVE  /\ Clamped(v, max) \in Within(max)
           /\ \A w \in Within(max) : Magnitude(v - Clamped(v, max)) <= Magnitude(v - w)
           /\ v \in Within(max) => Clamped(v, max) = v
BY SMT DEF Clamped, Within, Magnitude

\* The variants for overflow are what they are documented to be, for every number of
\* trits: the truncating one keeps the low trits of the exact result, the saturating one
\* is the nearest number, and both are the exact result where that is in range.
THEOREM ScalarsOverflow == ScalarsSpec => []OverflowVariants
<1>0. Max \in Nat \ {0}
  BY RangesFit
<1>1. PICK n \in 1 .. Max : 2 * Max + 1 = Weight[n]
  BY AllTritsSet
<1>2. ASSUME NEW v \in Int, NEW k \in 0 .. Max, Weight[k] <= Max
      PROVE  TritOf(Wrapped(v, Max), k) = TritOf(v, k)
  <2>1. k < n
    <3> SUFFICES ASSUME ~ (k < n) PROVE FALSE
      OBVIOUS
    <3>1. n \in Nat /\ k - n \in Nat /\ n + (k - n) = k
      BY <1>0
    <3>2. PICK m \in Nat \ {0} : Weight[k] = Weight[n] * m
      BY <3>1, WeightDivides
    <3>3. Weight[n] \in Nat \ {0}
      BY <3>1, WeightPositive
    <3>4. Weight[n] * m >= Weight[n]
      BY <3>3, SMT
    <3> QED BY <1>0, <1>1, <1>2, <3>2, <3>3, <3>4
  <2>2. k \in Nat /\ k + 1 \in Nat /\ n - (k + 1) \in Nat /\ (k + 1) + (n - (k + 1)) = n
    BY <1>0, <2>1
  <2>3. PICK m \in Nat \ {0} : 2 * Max + 1 = Weight[k + 1] * m
    <3> DEFINE i == k + 1
               d == n - i
    <3>1. i \in Nat /\ d \in Nat /\ i + d = n
      BY <2>2
    <3> HIDE DEF i, d
    <3>2. \E m \in Nat \ {0} : Weight[i + d] = Weight[i] * m
      BY <3>1, WeightDivides
    <3> QED BY <1>1, <3>1, <3>2 DEF i
  <2>4. Weight[k + 1] \in Nat \ {0}
    BY <2>2, WeightPositive
  <2>5. Wrapped(v, Max) \in Int /\ \E q \in Int : v = Wrapped(v, Max) + (2 * Max + 1) * q
    <3>1. Wrapped(v, Max) \in Within(Max) /\ \E q \in Int : v = Wrapped(v, Max) + (2 * Max + 1) * q
      BY <1>0, WrappedFacts
    <3>2. Within(Max) \subseteq Int
      BY <1>0 DEF Within
    <3> QED BY <3>1, <3>2
  <2>6. PICK q \in Int : v = Wrapped(v, Max) + (2 * Max + 1) * q
    BY <2>5
  <2>7. (2 * Max + 1) * q = Weight[k + 1] * (m * q) /\ m * q \in Int
    <3>1. (Weight[k + 1] * m) * q = Weight[k + 1] * (m * q)
      BY <2>4, SMT
    <3> QED BY <2>3, <3>1
  <2>8. v = Wrapped(v, Max) + Weight[k + 1] * (m * q)
    BY <2>6, <2>7
  <2> QED BY <2>2, <2>5, <2>7, <2>8, SameTrits
<1>3. ScalarsInv => OverflowVariants
  <2> SUFFICES ASSUME ScalarsInv, Operands("Integer"), NEW o \in {"+", "-", "*"}
               PROVE  LET v == Exact(o, Below.val, Top.val)
                          truncated == Truncated(o, Below.val, Top.val, Max)
                          saturated == Saturated(o, Below.val, Top.val, Max)
                      IN  /\ {truncated, saturated} \subseteq Within(Max)
                          /\ \A k \in 0 .. Max : Weight[k] <= Max => TritOf(truncated, k) = TritOf(v, k)
                          /\ \A w \in Within(Max) : Magnitude(v - saturated) <= Magnitude(v - w)
                          /\ Arithmetic(o, Below.val, Top.val, Max) # Trap => {truncated, saturated} = {v}
    BY DEF OverflowVariants
  <2>1. Below.val \in Int /\ Top.val \in Int
    <3>1. Stacked
      BY DEF ScalarsInv
    <3>2. Value(Below.val, Below.ty) /\ Value(Top.val, Top.ty)
      BY <3>1, OperandsGood, GoodFacts, LenProperties DEF Stacked, Operands
    <3> QED BY <1>0, <3>2 DEF Operands, Value, Plain, Admits, Within
  <2> DEFINE v == Exact(o, Below.val, Top.val)
  <2>2. v \in Int
    BY <2>1 DEF Exact
  <2>3. /\ Truncated(o, Below.val, Top.val, Max) = Wrapped(v, Max)
        /\ Saturated(o, Below.val, Top.val, Max) = Clamped(v, Max)
        /\ Arithmetic(o, Below.val, Top.val, Max) = Checked(v, Max)
    BY DEF Truncated, Saturated, Arithmetic
  <2> HIDE DEF v
  <2>4. /\ Wrapped(v, Max) \in Within(Max)
        /\ v \in Within(Max) => Wrapped(v, Max) = v
    BY <1>0, <2>2, WrappedFacts
  <2>5. /\ Clamped(v, Max) \in Within(Max)
        /\ \A w \in Within(Max) : Magnitude(v - Clamped(v, Max)) <= Magnitude(v - w)
        /\ v \in Within(Max) => Clamped(v, Max) = v
    BY <1>0, <2>2, ClampedFacts
  <2>6. \A k \in 0 .. Max : Weight[k] <= Max => TritOf(Wrapped(v, Max), k) = TritOf(v, k)
    BY <1>2, <2>2
  <2>7. Checked(v, Max) # Trap => v \in Within(Max)
    BY DEF Checked
  <2> QED BY <2>3, <2>4, <2>5, <2>6, <2>7, Zenon DEF v
<1> QED BY <1>3, SpecScalars, PTL
==============================================================================
