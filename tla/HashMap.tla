-------------------------------- MODULE HashMap --------------------------------
(***************************************************************************)
(* The HashMap of a running Triet program: the __triet_hashmap_ shims of   *)
(* triet-jit/src/mir_lower.rs, probe by probe, with what the compiled call *)
(* sites do before and after them.  The table is an open-addressing one:   *)
(* a slot is empty, holds a key and its value, or is a tombstone where an  *)
(* entry was removed.  The program calls one operation at a time.          *)
(*                                                                         *)
(* Two keys are equal if their contents are, so a key is a model value;    *)
(* the heap allocations behind the keys and values are counted.            *)
(***************************************************************************)
EXTENDS Integers, FiniteSets

CONSTANTS
  Keys, Values,
  Inserts,       \* the pairs <<key, value>> the program inserts
  Hash,          \* key -> the raw hash, any integer
  HeapValues,    \* do values own heap memory?
  MaxHeld,       \* BOUND on the heap values handed to the map and not back
  Empty, Tomb,   \* slot states 0 and 2; state 1 is the key itself
  Null

ASSUME MapAssumption ==
  /\ Inserts \subseteq Keys \X Values
  /\ Hash \in [Keys -> Int]
  /\ HeapValues \in BOOLEAN /\ MaxHeld \in Nat
  /\ Empty \notin Keys /\ Tomb \notin Keys /\ Null \notin Keys
  /\ Null \notin Values /\ Empty # Tomb

VARIABLES
  cap, len,        \* the header: number of slots, number of entries
  slot, val,       \* the slots
  old,             \* the buffer a rehash moves out of: [cap, slot, val]
  at,              \* the slot of old the rehash looks at
  op, arg, new,    \* the operation, its key, and the value to insert
  probe,           \* the slot it looks at
  cursor,          \* the cursor of the drain loop in progress, or NoLoop
  answer,          \* what the operation before returned, until the next is called
  key_live,        \* key -> allocations of it the map is to free or hand back
  held             \* heap values likewise

table == <<cap, len, slot, val>>
moving == <<old, at>>
request == <<op, arg, new>>
memory == <<key_live, held>>
vars == <<table, moving, request, probe, cursor, answer, memory>>

MinCap == 4
NoLoop == -1
NoBuffer == [cap |-> 0, slot |-> <<>>, val |-> <<>>]
Nothing == [key |-> Null, value |-> Null]

Slots == 0 .. cap - 1
Resident(i) == slot[i] \in Keys

\* hashmap_key_hash: the raw hash, which may be negative, brought into range.
Home(k, c) == Hash[k] % c

\* The slot after slot i, wrapping round.
After(i) == (i + 1) % cap

-----------------------------------------------------------------------------
\* __triet_hashmap_alloc of a table without entries.
Fresh(c) ==
  /\ cap' = c
  /\ slot' = [i \in 0 .. c - 1 |-> Empty]
  /\ val' = [i \in 0 .. c - 1 |-> Null]

Init ==
  /\ cap = MinCap /\ len = 0
  /\ slot = [i \in 0 .. MinCap - 1 |-> Empty]
  /\ val = [i \in 0 .. MinCap - 1 |-> Null]
  /\ old = NoBuffer /\ at = 0
  /\ op = "idle" /\ arg = Null /\ new = Null /\ probe = 0
  /\ cursor = NoLoop
  /\ answer = Nothing
  /\ key_live = [k \in Keys |-> 0] /\ held = 0

Return(k, v) ==
  /\ op' = "idle" /\ arg' = Null /\ new' = Null /\ probe' = 0
  /\ answer' = [key |-> k, value |-> v]

\* One allocation of k, or one value, more or less to answer for.
Take(k) == key_live' = [key_live EXCEPT ![k] = @ + 1]
Release(k) == key_live' = [key_live EXCEPT ![k] = @ - 1]
Keep(n) == held' = IF HeapValues THEN held + n ELSE held

-----------------------------------------------------------------------------
(* insert *)

\* The key and the value move into the call.  At three quarters the table
\* grows to twice its size before the key is looked for.
CallInsert(k, v) ==
  /\ op = "idle" /\ cursor = NoLoop
  /\ HeapValues => held < MaxHeld
  /\ arg' = k /\ new' = v
  /\ IF len * 4 >= cap * 3
     THEN /\ op' = "rehash"
          /\ old' = [cap |-> cap, slot |-> slot, val |-> val]
          /\ at' = 0
          /\ Fresh(IF cap * 2 > MinCap THEN cap * 2 ELSE MinCap)
          /\ UNCHANGED <<len, probe>>
     ELSE /\ op' = "insert"
          /\ probe' = Home(k, cap)
          /\ UNCHANGED <<table, moving>>
  /\ Take(k) /\ Keep(1)
  /\ answer' = Nothing
  /\ UNCHANGED cursor

\* The next slot of the old buffer: what is not an entry is left behind.
RehashPass ==
  /\ op = "rehash" /\ at < old.cap
  /\ old.slot[at] \notin Keys
  /\ at' = at + 1
  /\ UNCHANGED <<table, old, request, probe, cursor, answer, memory>>

RehashTake ==
  /\ op = "rehash" /\ at < old.cap
  /\ old.slot[at] \in Keys
  /\ op' = "move"
  /\ probe' = Home(old.slot[at], cap)
  /\ UNCHANGED <<table, moving, arg, new, cursor, answer, memory>>

\* Seeded defect: the key moves, its value stays behind.
RehashPlaceKeyOnly ==
  /\ op = "move"
  /\ slot[probe] = Empty
  /\ slot' = [slot EXCEPT ![probe] = old.slot[at]]
  /\ op' = "rehash" /\ at' = at + 1
  /\ UNCHANGED <<cap, len, val, old, arg, new, probe, cursor, answer, memory>>

\* An entry moves to the first empty slot from its new home.
RehashPlace ==
  /\ op = "move"
  /\ slot[probe] = Empty
  /\ slot' = [slot EXCEPT ![probe] = old.slot[at]]
  /\ val' = [val EXCEPT ![probe] = old.val[at]]
  /\ op' = "rehash" /\ at' = at + 1
  /\ UNCHANGED <<cap, len, old, arg, new, probe, cursor, answer, memory>>

\* The old buffer is freed, its entries are not.
RehashDone ==
  /\ op = "rehash" /\ at = old.cap
  /\ old' = NoBuffer /\ at' = 0
  /\ op' = "insert"
  /\ probe' = Home(arg, cap)
  /\ UNCHANGED <<table, arg, new, cursor, answer, memory>>

\* Seeded defect: the call site does not free the key it passed.
InsertUpdateLeaking ==
  /\ op = "insert"
  /\ slot[probe] = arg
  /\ val' = [val EXCEPT ![probe] = new]
  /\ Return(Null, Null)
  /\ UNCHANGED <<cap, len, slot, moving, cursor, memory>>

\* The key is there: its value is overwritten, the call site frees the key
\* it passed, the one in the slot stays.
InsertUpdate ==
  /\ op = "insert"
  /\ slot[probe] = arg
  /\ val' = [val EXCEPT ![probe] = new]
  /\ Release(arg)
  /\ Return(Null, Null)
  /\ UNCHANGED <<cap, len, slot, moving, cursor, held>>

\* The key is not there: it takes the empty slot that ends the search.
InsertFresh ==
  /\ op = "insert"
  /\ slot[probe] = Empty
  /\ slot' = [slot EXCEPT ![probe] = arg]
  /\ val' = [val EXCEPT ![probe] = new]
  /\ len' = len + 1
  /\ Return(Null, Null)
  /\ UNCHANGED <<cap, moving, cursor, memory>>

-----------------------------------------------------------------------------
(* get (and get_ref, get_copy: the same search), contains, remove *)

CallLookup(kind, k) ==
  /\ op = "idle"
  /\ op' = kind /\ arg' = k
  /\ probe' = Home(k, cap)
  /\ answer' = Nothing
  /\ UNCHANGED <<table, moving, new, cursor, memory>>

Sought ==   \* the key being looked for
  IF op = "move" THEN Null ELSE arg

\* Seeded defect: every other slot is passed over.
ProbeTwo ==
  /\ op \in {"insert", "get", "contains", "remove", "move"}
  /\ slot[probe] \notin {Empty, Sought}
  /\ probe' = (probe + 2) % cap
  /\ UNCHANGED <<table, moving, request, cursor, answer, memory>>

\* Neither the key nor an empty slot: on to the next one, round the table.
Probe ==
  /\ op \in {"insert", "get", "contains", "remove", "move"}
  /\ slot[probe] \notin {Empty, Sought}
  /\ probe' = After(probe)
  /\ UNCHANGED <<table, moving, request, cursor, answer, memory>>

Miss ==
  /\ op \in {"get", "contains", "remove"}
  /\ slot[probe] = Empty
  /\ Return(Null, Null)
  /\ UNCHANGED <<table, moving, cursor, memory>>

GetHit ==
  /\ op = "get" /\ slot[probe] = arg
  /\ Return(Null, val[probe])
  /\ UNCHANGED <<table, moving, cursor, memory>>

ContainsHit ==
  /\ op = "contains" /\ slot[probe] = arg
  /\ Return(arg, Null)
  /\ UNCHANGED <<table, moving, cursor, memory>>

\* The value is handed back (what stays of it in the slot is never read: Null);
\* the call site frees the key that was resident.
RemoveHit ==
  /\ op = "remove" /\ slot[probe] = arg
  /\ slot' = [slot EXCEPT ![probe] = Tomb] /\ val' = [val EXCEPT ![probe] = Null]
  /\ len' = len - 1
  /\ Return(Null, val[probe])
  /\ Release(arg) /\ Keep(-1)
  /\ UNCHANGED <<cap, moving, cursor>>

-----------------------------------------------------------------------------
(* for (k, v) in m.drain(): the cursor is a local of the compiled loop.    *)
(* BOUND: the body of the loop neither inserts into the map it drains nor  *)
(* starts another drain of it.                                             *)

StartLoop ==
  /\ op = "idle" /\ cursor = NoLoop
  /\ cursor' = 0
  /\ UNCHANGED <<table, moving, request, probe, answer, memory>>

BreakLoop ==
  /\ op = "idle" /\ cursor # NoLoop
  /\ cursor' = NoLoop
  /\ UNCHANGED <<table, moving, request, probe, answer, memory>>

CallDrain ==
  /\ op = "idle" /\ cursor # NoLoop
  /\ op' = "drain"
  /\ probe' = cursor
  /\ answer' = Nothing
  /\ UNCHANGED <<table, moving, arg, new, cursor, memory>>

DrainPass ==
  /\ op = "drain" /\ probe \in Slots /\ ~Resident(probe)
  /\ probe' = probe + 1
  /\ UNCHANGED <<table, moving, request, cursor, answer, memory>>

\* Key and value are handed to the locals of the loop body.
DrainTake ==
  /\ op = "drain" /\ probe \in Slots /\ Resident(probe)
  /\ slot' = [slot EXCEPT ![probe] = Tomb] /\ val' = [val EXCEPT ![probe] = Null]
  /\ len' = len - 1
  /\ cursor' = probe + 1
  /\ Return(slot[probe], val[probe])
  /\ Release(slot[probe]) /\ Keep(-1)
  /\ UNCHANGED <<cap, moving>>

DrainDone ==
  /\ op = "drain" /\ probe \notin Slots
  /\ cursor' = NoLoop
  /\ Return(Null, Null)
  /\ UNCHANGED <<table, moving, memory>>

-----------------------------------------------------------------------------
(***************************************************************************)
(* The map goes out of scope: the drop glue frees the key and the value of *)
(* every slot that holds an entry, then the buffer.  The next map is new.  *)
(***************************************************************************)
DropMap ==
  /\ op = "idle" /\ cursor = NoLoop
  /\ Fresh(MinCap) /\ len' = 0
  /\ key_live' = [k \in Keys |-> key_live[k] - Cardinality({i \in Slots : slot[i] = k})]
  /\ Keep(- Cardinality({i \in Slots : Resident(i)}))
  /\ answer' = Nothing
  /\ UNCHANGED <<moving, request, probe, cursor>>

Client ==
  \/ \E p \in Inserts : CallInsert(p[1], p[2])
  \/ \E kind \in {"get", "contains", "remove"}, k \in Keys : CallLookup(kind, k)
  \/ StartLoop \/ BreakLoop \/ CallDrain \/ DropMap

Work ==
  \/ RehashPass \/ RehashTake \/ RehashPlace \/ RehashDone
  \/ InsertUpdate \/ InsertFresh \/ Probe \/ Miss \/ GetHit \/ ContainsHit \/ RemoveHit
  \/ DrainPass \/ DrainTake \/ DrainDone

Next == Client \/ Work

Spec == Init /\ [][Next]_vars

\* An operation that has been called keeps running.
FairSpec == Spec /\ WF_vars(Work)

-----------------------------------------------------------------------------
(* Properties *)

Ops == {"idle", "rehash", "move", "insert", "get", "contains", "remove", "drain"}
IsTable(c, s, v) ==
  /\ c \in Nat
  /\ s \in [0 .. c - 1 -> Keys \cup {Empty, Tomb}]
  /\ v \in [0 .. c - 1 -> Values \cup {Null}]

\* Types of the variables.
TypeOK ==
  /\ cap \in Nat \ {0} /\ len \in Int
  /\ IsTable(cap, slot, val)
  /\ old = NoBuffer \/ IsTable(old.cap, old.slot, old.val)
  /\ at \in 0 .. old.cap
  /\ op \in Ops
  /\ arg \in Keys \cup {Null} /\ new \in Values \cup {Null}
  /\ op \in {"insert", "get", "contains", "remove", "move"} => probe \in Slots
  /\ probe \in Nat /\ cursor \in Nat \cup {NoLoop}
  /\ answer \in [key : Keys \cup {Null}, value : Values \cup {Null}]
  /\ key_live \in [Keys -> Int] /\ held \in Int

\* j lies on the way from h to i, round the end of the table if need be.
OnTheWay(h, j, i) == IF h <= i THEN h <= j /\ j < i ELSE h <= j \/ j < i

\* A search for a key that is there does not end before it: no slot between
\* its home and where it sits is empty, whatever was removed meanwhile.
Findable ==
  \A i, j \in Slots :
    Resident(i) /\ OnTheWay(Home(slot[i], cap), j, i) => slot[j] # Empty

\* No key is in the table twice, not even while a rehash has moved half of
\* the entries: an update would change one copy and a lookup find the other.
KeysUnique ==
  /\ \A i, j \in Slots : Resident(i) /\ slot[i] = slot[j] => i = j
  /\ \A i \in Slots : \A j \in at .. old.cap - 1 : Resident(i) => slot[i] # old.slot[j]

\* Between operations the map answers for exactly one allocation of each key
\* it holds and for none of the others: nothing leaks and nothing is freed
\* twice by updates, removals, drains and the end of the map; and len, which
\* decides when the table grows, is the number of entries.
KeysOwned ==
  op = "idle" =>
    /\ \A k \in Keys : key_live[k] = IF \E i \in Slots : slot[i] = k THEN 1 ELSE 0
    /\ len = Cardinality({i \in Slots : Resident(i)})

\* The same for values that own heap memory ("without leaking a single
\* byte", ADR-0078).
ValuesOwned == op = "idle" /\ HeapValues => held = Cardinality({i \in Slots : Resident(i)})

\* As long as the table has an empty slot, an operation returns.
ReturnsIfRoom == (op # "idle" /\ \E i \in Slots : slot[i] = Empty) ~> op = "idle"

\* Every operation returns: "Look up key, return value or NULL_SENTINEL".
Returns == op # "idle" ~> op = "idle"

\* Seen from outside the table is a finite map.
Place(k) == CHOOSE i \in Slots : slot[i] = k
OldPlace(k) == CHOOSE i \in at .. old.cap - 1 : old.slot[i] = k
Content ==
  [k \in Keys |-> IF \E i \in Slots : slot[i] = k THEN val[Place(k)]
                  ELSE IF \E i \in at .. old.cap - 1 : old.slot[i] = k THEN old.val[OldPlace(k)]
                  ELSE Null]
Pending == [op |-> IF op \in {"rehash", "move"} THEN "insert" ELSE op, key |-> arg, value |-> new]

Map == INSTANCE AbstractMap WITH content <- Content, call <- Pending

ImplementsMap == Map!Spec
===============================================================================
