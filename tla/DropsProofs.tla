----------------------------- MODULE DropsProofs -----------------------------
(***************************************************************************)
(* Compiled programs free each object once and read none that is gone, on  *)
(* every path, however deep constructs are nested and however many a body  *)
(* has.                                                                    *)
(*                                                                         *)
(* What is known of the locals at the start of each block solves the flow  *)
(* equations of the body; lowering keeps books (scopes, names, loops, open *)
(* constructs) from which the solution can be continued, one construct at  *)
(* a time; running the body then never leaves what is known.               *)
(***************************************************************************)
EXTENDS Drops, SequenceTheorems, NaturalsInduction, WellFoundedInduction, TLAPS

-----------------------------------------------------------------------------
(***************************************************************************)
(* What is known of a local at a point of a body:                          *)
(*   "zero"   its slot is zero                                             *)
(*   "held"   zero, or the address of a live object no other slot has      *)
(*   "stale"  no address of a live object                                  *)
(*   "loose"  held or stale                                                *)
(*   "copy"   anything, but another slot has the address if it is live     *)
(***************************************************************************)
Statuses == {"zero", "held", "stale", "loose", "copy"}
\* What is known of each local.
Knowledge == [Nat -> Statuses]

\* The locals of S are held, every other one is stale.
Holding(S) == [l \in Nat |-> IF l \in S THEN "held" ELSE "stale"]
\* No local has an address another one owns.
Settled(st) == \A l \in Nat : st[l] # "copy"
\* A function changed at one point.
Put(f, x, v) == [f EXCEPT ![x] = v]

\* What b says follows from what a says.
Weaker(a, b) ==
  \A l \in Nat : \/ a[l] = b[l]
                 \/ a[l] = "zero" /\ b[l] \in {"held", "stale", "loose"}
                 \/ a[l] \in {"held", "stale"} /\ b[l] = "loose"

\* The statements of a body with these locals.
Statement(locals) ==
  [op : {"Const"}, dest : locals]
  \cup [op : {"Assign"}, dest : locals, source : locals]
  \cup [op : {"Deinit", "Drop", "Read"}, local : locals]

\* May s follow a point where st is known?  kept: the values returned.
Allowed(kinds, kept, st, s) ==
  /\ s \in Statement(1 .. Len(kinds))
  /\ s.op = "Const" => Settled(st)
  /\ s.op = "Assign" => /\ Settled(st) /\ s.dest # s.source
                        /\ st[s.source] \in {"held", "zero"}
  /\ s.op = "Deinit" => st[s.local] \in {"zero", "stale", "copy"}
  /\ s.op = "Drop" /\ s.local \notin kept => Settled(st) /\ st[s.local] \in {"held", "zero"}

\* What is known after the statement.
Learned(kinds, kept, st, s) ==
  CASE s.op = "Const" -> Put(st, s.dest, "held")
    [] s.op = "Assign" -> Put(Put(st, s.source, IF kinds[s.source] = "string" THEN "zero" ELSE "copy"),
                              s.dest, "held")
    [] s.op = "Deinit" -> Put(st, s.local, "zero")
    [] s.op = "Drop" /\ s.local \notin kept -> Put(st, s.local, "stale")
    [] OTHER -> st

\* next is known after s where st is known before it.
Step(kinds, kept, st, s, next) ==
  Allowed(kinds, kept, st, s) /\ Weaker(Learned(kinds, kept, st, s), next)

\* The statements lead from what is known before them to what is after them.
Walk(kinds, kept, stmts, from, to) ==
  \E f \in [0 .. Len(stmts) -> Knowledge] :
    /\ Weaker(from, f[0]) /\ f[Len(stmts)] = to
    /\ \A i \in 1 .. Len(stmts) : Step(kinds, kept, f[i - 1], stmts[i], f[i])

\* What a terminator hands out.
Values(t) == IF t.op = "Return" THEN t.values ELSE <<>>
\* The locals a terminator hands out are not dropped before it.
Kept(t) == Range(Values(t))

\* What is known at the end of a block holds where its terminator leads;
\* E: what is known at the start of each block.
Leads(E, t, st) ==
  /\ t.op \in {"Goto", "If"} => \A b \in t.to : Weaker(st, E[b])
  /\ t.op = "Call" => /\ Settled(st) /\ st[t.arg] \in {"held", "zero"}
                      /\ \A b \in t.to : Weaker(Put(st, t.arg, "stale"), E[b])
  /\ t.op = "CallNullable" => /\ Settled(st) /\ st[t.dest] \in {"stale", "zero"}
                              /\ \A b \in t.to : Weaker(Put(st, t.dest, "held"), E[b])
  /\ t.op = "IfNull" => /\ st[t.local] \in {"held", "zero"}
                        /\ Weaker(Put(st, t.local, "zero"), E[t.null]) /\ Weaker(st, E[t.present])
  /\ t.op = "Return" => \A l \in Nat : st[l] \in {"stale", "zero"} \/ (l \in Kept(t) /\ st[l] # "copy")

\* The terminators of a body with these locals and blocks.
Terminator(locals, blocks) ==
  [op : {"Goto", "If"}, to : SUBSET blocks]
  \cup [op : {"IfNull"}, local : locals, null : blocks, present : blocks, to : SUBSET blocks]
  \cup [op : {"Call"}, arg : locals, to : SUBSET blocks]
  \cup [op : {"CallNullable"}, dest : locals, to : SUBSET blocks]
  \cup [op : {"Return"}, values : {<<>>} \cup {<<l>> : l \in locals}, to : {{}}]
  \cup {Placeholder}

\* The block leads from what is known before it to what its successors need.
BlockFlows(kinds, E, block, from) ==
  /\ block.stmts \in Seq(Statement(1 .. Len(kinds)))
  /\ \E to \in Knowledge :
       Walk(kinds, Kept(block.term), block.stmts, from, to) /\ Leads(E, block.term, to)

\* Every block of a finished body flows.
Complete(E) ==
  /\ E \in [Nat -> Knowledge] /\ Entry \in DOMAIN ctx.blocks
  /\ Len(ctx.blocks) \in Nat /\ DOMAIN ctx.blocks = 1 .. Len(ctx.blocks)
  /\ Len(ctx.kinds) \in Nat \ {0} /\ DOMAIN ctx.kinds = 1 .. Len(ctx.kinds)
  /\ Weaker(Holding({1}), E[Entry])
  /\ \A b \in DOMAIN ctx.blocks :
       /\ ctx.blocks[b].term \in Terminator(1 .. Len(ctx.kinds), 1 .. Len(ctx.blocks))
       /\ BlockFlows(ctx.kinds, E, ctx.blocks[b], E[b])

-----------------------------------------------------------------------------
(* Memory *)

\* The memories a program may have.
IsMemory(m) ==
  m \in [slot : [Locals -> Objects \cup {Nothing}], inited : SUBSET Locals, live : SUBSET Objects,
         doubled : BOOLEAN, lost : SUBSET Objects, out : Objects \cup {Nothing},
         ok : BOOLEAN, room : BOOLEAN]

\* The memory is as it is known to be.
Fits(m, st) ==
  /\ IsMemory(m) /\ ~ m.doubled /\ m.out = Nothing
  /\ \A l \in Locals : /\ st[l] = "zero" => m.slot[l] = Nothing
                       /\ st[l] = "held" => m.slot[l] \in m.live \cup {Nothing}
                       /\ st[l] = "stale" => m.slot[l] \notin m.live
  /\ \A l, k \in Locals : l # k /\ m.slot[l] = m.slot[k] /\ m.slot[l] \in m.live =>
                            st[l] = "copy" \/ st[k] = "copy"
  /\ \A l \in m.inited : m.slot[l] \in m.live /\ st[l] # "copy"
  /\ \A o \in m.live \ m.lost : \E l \in Locals : m.slot[l] = o /\ st[l] # "copy"

\* What holds of a memory still holds when less is said of it.
LEMMA Weakened ==
  ASSUME NEW m, NEW a \in Knowledge, NEW b \in Knowledge, Weaker(a, b), Fits(m, a), Locals \subseteq Nat
  PROVE  Fits(m, b)
<1>1. \A l \in Locals : a[l] = "copy" <=> b[l] = "copy"
  BY DEF Weaker, Knowledge, Statuses
<1>2. ASSUME NEW l \in Locals
      PROVE  /\ b[l] = "zero" => m.slot[l] = Nothing
             /\ b[l] = "held" => m.slot[l] \in m.live \cup {Nothing}
             /\ b[l] = "stale" => m.slot[l] \notin m.live
  BY <1>2, ObjectsAssumption DEF Weaker, Fits, IsMemory, Nothing
<1> QED
  BY <1>1, <1>2 DEF Fits, IsMemory

\* Either the step is made and what is learned holds, or the path ends.
Goes(m, st, next) == Fits(m, next) \/ (~ (m.ok /\ m.room) /\ Fits(m, st))

\* Writing a slot changes that slot, and loses the object it had unless another slot has it.
LEMMA OverwriteIs ==
  ASSUME NEW m, IsMemory(m), NEW l \in Locals, NEW o \in Objects \cup {Nothing}
  PROVE  /\ IsMemory(Overwrite(m, l, o))
         /\ Overwrite(m, l, o).slot = Put(m.slot, l, o)
         /\ Overwrite(m, l, o).inited = m.inited /\ Overwrite(m, l, o).live = m.live
         /\ Overwrite(m, l, o).doubled = m.doubled /\ Overwrite(m, l, o).out = m.out
         /\ Overwrite(m, l, o).ok = m.ok /\ Overwrite(m, l, o).room = m.room
         /\ m.lost \subseteq Overwrite(m, l, o).lost
         /\ \/ m.slot[l] \notin m.live \ {o} \/ m.slot[l] \in Overwrite(m, l, o).lost
            \/ \E k \in Locals \ {l} : m.slot[k] = m.slot[l]
BY DEF IsMemory, Overwrite, Put

\* An allocation gives the slot an address no slot has, or there is no room left.
LEMMA NewIs ==
  ASSUME NEW m, IsMemory(m), NEW l \in Locals
  PROVE  \/ New(m, l) = [m EXCEPT !.room = FALSE]
         \/ \E o \in Objects :
              /\ o \notin m.live /\ \A k \in Locals : m.slot[k] # o
              /\ New(m, l) = [Overwrite(m, l, o) EXCEPT !.live = @ \cup {o}, !.inited = @ \cup {l},
                                                       !.lost = @ \ {o}]
<1>1. CASE Unused(m) = {}
  BY <1>1 DEF New
<1>2. CASE Unused(m) # {}
  <2> DEFINE o == CHOOSE o \in Unused(m) : TRUE
  <2>1. o \in Unused(m)
    BY <1>2
  <2>2. New(m, l) = [Overwrite(m, l, o) EXCEPT !.live = @ \cup {o}, !.inited = @ \cup {l},
                                              !.lost = @ \ {o}]
    BY <1>2 DEF New
  <2> HIDE DEF o
  <2>3. o \in Objects /\ o \notin m.live /\ \A k \in Locals : m.slot[k] # o
    BY <2>1 DEF Unused, Range, IsMemory
  <2> QED
    BY <2>2, <2>3
<1> QED
  BY <1>1, <1>2

\* What allocates leaves the memory as known.
LEMMA NewFits ==
  ASSUME NEW m, NEW st \in Knowledge, Fits(m, st), Settled(st), NEW d \in Locals, Locals \subseteq Nat
  PROVE  /\ Goes(New(m, d), st, Put(st, d, "held")) /\ New(m, d).ok = m.ok
         /\ New(m, d).room => Fits(New(m, d), Put(st, d, "held"))
<1>1. IsMemory(m) /\ ~ m.doubled /\ m.out = Nothing
  BY DEF Fits
<1>2. CASE New(m, d) = [m EXCEPT !.room = FALSE]
  <2>1. IsMemory(New(m, d)) /\ ~ New(m, d).room /\ New(m, d).ok = m.ok
    BY <1>1, <1>2 DEF IsMemory
  <2>2. Fits(New(m, d), st)
    BY <1>1, <1>2, <2>1 DEF Fits, IsMemory
  <2> QED
    BY <2>1, <2>2 DEF Goes
<1>3. ASSUME NEW o \in Objects, o \notin m.live, \A k \in Locals : m.slot[k] # o,
             New(m, d) = [Overwrite(m, d, o) EXCEPT !.live = @ \cup {o}, !.inited = @ \cup {d},
                                                   !.lost = @ \ {o}]
      PROVE  Fits(New(m, d), Put(st, d, "held")) /\ New(m, d).ok = m.ok
  <2> DEFINE w == Overwrite(m, d, o)
             n == New(m, d)
             next == Put(st, d, "held")
  <2>1. /\ IsMemory(w) /\ w.slot = Put(m.slot, d, o)
        /\ w.inited = m.inited /\ w.live = m.live /\ w.doubled = m.doubled /\ w.out = m.out /\ w.ok = m.ok
        /\ m.lost \subseteq w.lost
        /\ \/ m.slot[d] \notin m.live \ {o} \/ m.slot[d] \in w.lost
           \/ \E k \in Locals \ {d} : m.slot[k] = m.slot[d]
    BY <1>1, OverwriteIs
  <2>2. n = [w EXCEPT !.live = @ \cup {o}, !.inited = @ \cup {d}, !.lost = @ \ {o}]
    BY <1>3
  <2> HIDE DEF w, n
  <2>3. /\ IsMemory(n) /\ n.slot = Put(m.slot, d, o) /\ n.live = m.live \cup {o}
        /\ n.inited = m.inited \cup {d} /\ n.lost = w.lost \ {o} /\ ~ n.doubled /\ n.out = Nothing /\ n.ok = m.ok
    BY <1>1, <2>1, <2>2 DEF IsMemory
  <2>4. /\ DOMAIN m.slot = Locals /\ n.slot[d] = o
        /\ \A l \in Locals \ {d} : n.slot[l] = m.slot[l] /\ n.slot[l] # o
    BY <1>1, <1>3, <2>3 DEF IsMemory, Put
  <2>5. next[d] = "held" /\ \A l \in Locals \ {d} : next[l] = st[l]
    BY DEF Put, Knowledge
  <2> HIDE DEF next
  <2>6. \A l \in Locals : next[l] # "copy"
    BY <2>5 DEF Settled
  <2>7. ASSUME NEW l \in Locals
        PROVE  /\ next[l] = "zero" => n.slot[l] = Nothing
               /\ next[l] = "held" => n.slot[l] \in n.live \cup {Nothing}
               /\ next[l] = "stale" => n.slot[l] \notin n.live
    BY <2>3, <2>4, <2>5 DEF Fits
  <2>8. \A l, k \in Locals : l # k /\ n.slot[l] = n.slot[k] => n.slot[l] \notin n.live
    BY <2>3, <2>4 DEF Fits, Settled
  <2>9. \A l \in n.inited : n.slot[l] \in n.live
    BY <2>3, <2>4 DEF Fits, IsMemory
  <2>10. ASSUME NEW p \in n.live \ n.lost PROVE \E l \in Locals : n.slot[l] = p
    <3>1. CASE p = o
      BY <2>4, <3>1
    <3>2. CASE p # o
      <4>1. p \in m.live \ m.lost /\ p \notin w.lost
        BY <2>1, <2>3, <2>10, <3>2
      <4>2. PICK l \in Locals : m.slot[l] = p
        BY <4>1 DEF Fits
      <4> QED
        BY <2>1, <2>4, <3>2, <4>1, <4>2
    <3> QED
      BY <3>1, <3>2
  <2>11. Fits(n, next)
    BY <2>3, <2>6, <2>7, <2>8, <2>9, <2>10 DEF Fits, IsMemory
  <2> QED
    BY <2>3, <2>11 DEF n, next
<1>4. CASE \E o \in Objects :
             /\ o \notin m.live /\ \A k \in Locals : m.slot[k] # o
             /\ New(m, d) = [Overwrite(m, d, o) EXCEPT !.live = @ \cup {o}, !.inited = @ \cup {d},
                                                      !.lost = @ \ {o}]
  <2>1. Fits(New(m, d), Put(st, d, "held")) /\ New(m, d).ok = m.ok
    BY <1>3, <1>4
  <2> QED
    BY <2>1 DEF Goes
<1> QED
  BY <1>1, <1>2, <1>4, NewIs

\* What copies an address leaves the memory as known.
LEMMA CopyFits ==
  ASSUME NEW m, NEW st \in Knowledge, Fits(m, st), Settled(st), NEW d \in Locals, NEW s \in Locals,
         d # s, s \in m.inited, Locals \subseteq Nat, NEW left \in {"zero", "copy"},
         left = (IF ctx.kinds[s] = "string" THEN "zero" ELSE "copy")
  PROVE  Fits(Copy(m, d, s), Put(Put(st, s, left), d, "held"))
<1> DEFINE o == m.slot[s]
           w == Overwrite(m, d, o)
           n == Copy(m, d, s)
           next == Put(Put(st, s, left), d, "held")
<1>1. /\ IsMemory(m) /\ ~ m.doubled /\ m.out = Nothing /\ o \in m.live /\ o \in Objects /\ o # Nothing
      /\ DOMAIN m.slot = Locals
  BY ObjectsAssumption DEF Fits, IsMemory, Nothing
<1>2. /\ IsMemory(w) /\ w.slot = Put(m.slot, d, o)
      /\ w.inited = m.inited /\ w.live = m.live /\ w.doubled = m.doubled /\ w.out = m.out
      /\ m.lost \subseteq w.lost
      /\ \/ m.slot[d] \notin m.live \ {o} \/ m.slot[d] \in w.lost
         \/ \E k \in Locals \ {d} : m.slot[k] = m.slot[d]
  BY <1>1, OverwriteIs
<1>3. n = [w EXCEPT !.inited = (@ \ {s}) \cup {d},
                    !.slot = IF left = "zero" THEN Put(@, s, Nothing) ELSE @]
  <2>1. w \in [slot : [Locals -> Objects \cup {Nothing}], inited : SUBSET Locals, live : SUBSET Objects,
               doubled : BOOLEAN, lost : SUBSET Objects, out : Objects \cup {Nothing},
               ok : BOOLEAN, room : BOOLEAN]
    BY <1>2 DEF IsMemory
  <2>2. n = LET copied == [w EXCEPT !.inited = (@ \ {s}) \cup {d}]
            IN IF ctx.kinds[s] = "string" THEN [copied EXCEPT !.slot[s] = Nothing] ELSE copied
    BY DEF Copy
  <2> HIDE DEF w, n
  <2> QED
    BY <2>1, <2>2 DEF Put
<1> HIDE DEF o, w, n
<1>4. /\ IsMemory(n) /\ n.live = m.live /\ n.inited = (m.inited \ {s}) \cup {d} /\ n.lost = w.lost
      /\ ~ n.doubled /\ n.out = Nothing
      /\ n.slot = IF left = "zero" THEN Put(Put(m.slot, d, o), s, Nothing) ELSE Put(m.slot, d, o)
  BY <1>1, <1>2, <1>3 DEF IsMemory, Put
<1>5. /\ n.slot[d] = o /\ n.slot[s] = IF left = "zero" THEN Nothing ELSE o
      /\ \A l \in Locals \ {d, s} : n.slot[l] = m.slot[l]
  BY <1>1, <1>4 DEF Put, o
<1>6. /\ next[d] = "held" /\ next[s] = left
      /\ \A l \in Locals \ {d, s} : next[l] = st[l] /\ next[l] # "copy"
  BY DEF Put, Knowledge, Settled
<1> HIDE DEF next
<1>7. \A l \in Locals \ {s} : m.slot[l] # o
  BY <1>1 DEF Fits, Settled, o
<1>8. ASSUME NEW l \in Locals
      PROVE  /\ next[l] = "zero" => n.slot[l] = Nothing
             /\ next[l] = "held" => n.slot[l] \in n.live \cup {Nothing}
             /\ next[l] = "stale" => n.slot[l] \notin n.live
  BY <1>1, <1>4, <1>5, <1>6 DEF Fits
<1>9. Nothing \notin n.live
  BY <1>4, ObjectsAssumption DEF IsMemory, Nothing
<1>10. ASSUME NEW l \in Locals, NEW k \in Locals, l # k, n.slot[l] = n.slot[k], n.slot[l] \in n.live
       PROVE  next[l] = "copy" \/ next[k] = "copy"
  <2>1. CASE l \notin {d, s} /\ k \notin {d, s}
    <3>1. n.slot[l] = m.slot[l] /\ n.slot[k] = m.slot[k] /\ n.live = m.live
      BY <1>4, <1>5, <2>1
    <3>2. st[l] # "copy" /\ st[k] # "copy"
      BY DEF Settled
    <3> QED
      <4>1. \A a, b \in Locals : a # b /\ m.slot[a] = m.slot[b] /\ m.slot[a] \in m.live =>
                                st[a] = "copy" \/ st[b] = "copy"
        BY DEF Fits
      <4> QED
        BY <1>10, <3>1, <3>2, <4>1
  <2>2. CASE l \in {d, s} /\ k \in {d, s}
    BY <1>5, <1>6, <1>9, <1>10, <2>2
  <2>3. \A i \in Locals : i \in {d, s} => n.slot[i] \in {o, Nothing}
    BY <1>5
  <2>4. \A i \in Locals : i \notin {d, s} => n.slot[i] # o
    BY <1>5, <1>7
  <2>5. CASE l \in {d, s} /\ k \notin {d, s}
    BY <1>9, <1>10, <2>3, <2>4, <2>5
  <2>6. CASE k \in {d, s} /\ l \notin {d, s}
    BY <1>9, <1>10, <2>3, <2>4, <2>6
  <2> QED
    BY <2>1, <2>2, <2>5, <2>6
<1>11. \A l \in n.inited : n.slot[l] \in n.live /\ next[l] # "copy"
  BY <1>1, <1>4, <1>5, <1>6 DEF Fits, IsMemory
<1>12. ASSUME NEW p \in n.live \ n.lost PROVE \E l \in Locals : n.slot[l] = p /\ next[l] # "copy"
  <2>1. CASE p = o
    BY <1>5, <1>6, <2>1
  <2>2. CASE p # o
    <3>1. p \in m.live \ m.lost /\ p \notin w.lost
      BY <1>2, <1>4, <1>12
    <3>2. PICK l \in Locals : m.slot[l] = p
      BY <3>1 DEF Fits
    <3>3. l # s
      BY <2>2, <3>2 DEF o
    <3>4. PICK k \in Locals \ {d} : m.slot[k] = p
      BY <1>2, <2>2, <3>1, <3>2
    <3>5. k # s
      BY <2>2, <3>4 DEF o
    <3> QED
      BY <1>5, <1>6, <3>4, <3>5
  <2> QED
    BY <2>1, <2>2
<1>13. Fits(n, next)
  BY <1>4, <1>8, <1>10, <1>11, <1>12 DEF Fits
<1> QED
  BY <1>13 DEF n, next

\* What frees what a local holds leaves the memory as known.
LEMMA FreeFits ==
  ASSUME NEW m, NEW st \in Knowledge, Fits(m, st), Settled(st), NEW l \in Locals,
         st[l] \in {"held", "zero"}, Locals \subseteq Nat
  PROVE  Fits(Free([m EXCEPT !.inited = @ \ {l}], m.slot[l]), Put(st, l, "stale"))
<1> DEFINE o == m.slot[l]
           n == Free([m EXCEPT !.inited = @ \ {l}], o)
           next == Put(st, l, "stale")
<1>1. IsMemory(m) /\ ~ m.doubled /\ m.out = Nothing /\ o \in m.live \cup {Nothing} /\ Nothing \notin m.live
  BY ObjectsAssumption DEF Fits, IsMemory, Nothing
<1>2. /\ IsMemory(n) /\ ~ n.doubled /\ n.out = Nothing /\ n.slot = m.slot /\ n.live = m.live \ {o}
      /\ n.inited = m.inited \ {l} /\ n.lost = m.lost
  <2>1. CASE o = Nothing
    BY <1>1, <2>1 DEF Free, IsMemory
  <2>2. CASE o # Nothing
    <3>1. n = [m EXCEPT !.inited = @ \ {l}, !.live = @ \ {o}, !.doubled = @ \/ o \notin m.live]
      BY <1>1, <2>2 DEF Free, IsMemory
    <3> HIDE DEF o, n
    <3> QED
      BY <1>1, <2>2, <3>1 DEF IsMemory
  <2> QED
    BY <2>1, <2>2
<1> HIDE DEF o, n
<1>3. next[l] = "stale" /\ \A k \in Locals \ {l} : next[k] = st[k] /\ next[k] # "copy"
  BY DEF Put, Knowledge, Settled
<1> HIDE DEF next
<1>4. \A k \in Locals \ {l} : m.slot[k] \in m.live => m.slot[k] # o
  BY <1>1 DEF Fits, Settled, o
<1>5. ASSUME NEW k \in Locals
      PROVE  /\ next[k] = "zero" => n.slot[k] = Nothing
             /\ next[k] = "held" => n.slot[k] \in n.live \cup {Nothing}
             /\ next[k] = "stale" => n.slot[k] \notin n.live
  BY <1>2, <1>3, <1>4 DEF Fits, o
<1>6. ASSUME NEW j \in Locals, NEW k \in Locals, j # k, n.slot[j] = n.slot[k]
      PROVE  n.slot[j] \notin n.live
  <2>1. m.slot[j] \in m.live => st[j] = "copy" \/ st[k] = "copy"
    BY <1>2, <1>6 DEF Fits
  <2>2. st[j] # "copy" /\ st[k] # "copy"
    BY DEF Settled
  <2> QED
    BY <1>2, <2>1, <2>2
<1>7. \A k \in n.inited : n.slot[k] \in n.live /\ next[k] # "copy"
  BY <1>2, <1>3, <1>4 DEF Fits, IsMemory
<1>8. ASSUME NEW p \in n.live \ n.lost PROVE \E k \in Locals : n.slot[k] = p /\ next[k] # "copy"
  <2>1. PICK k \in Locals : m.slot[k] = p
    BY <1>2, <1>8 DEF Fits
  <2> QED
    BY <1>2, <1>3, <1>8, <2>1 DEF o
<1>9. Fits(n, next)
  BY <1>2, <1>5, <1>6, <1>7, <1>8 DEF Fits
<1> QED
  BY <1>9 DEF n, next, o

\* A slot that owns nothing may be zeroed.
LEMMA DeinitFits ==
  ASSUME NEW m, NEW st \in Knowledge, Fits(m, st), NEW l \in Locals,
         st[l] \in {"zero", "stale", "copy"}, Locals \subseteq Nat
  PROVE  Fits([m EXCEPT !.slot[l] = Nothing, !.inited = @ \ {l}], Put(st, l, "zero"))
<1> DEFINE n == [m EXCEPT !.slot[l] = Nothing, !.inited = @ \ {l}]
           next == Put(st, l, "zero")
<1>1. IsMemory(m) /\ ~ m.doubled /\ m.out = Nothing /\ Nothing \notin m.live /\ DOMAIN m.slot = Locals
  BY ObjectsAssumption DEF Fits, IsMemory, Nothing
<1>2. /\ IsMemory(n) /\ ~ n.doubled /\ n.out = Nothing /\ n.slot = Put(m.slot, l, Nothing) /\ n.live = m.live
      /\ n.inited = m.inited \ {l} /\ n.lost = m.lost
  BY <1>1 DEF IsMemory, Put
<1> HIDE DEF n
<1>3. n.slot[l] = Nothing /\ \A k \in Locals \ {l} : n.slot[k] = m.slot[k]
  BY <1>1, <1>2 DEF Put
<1>4. next[l] = "zero" /\ \A k \in Locals \ {l} : next[k] = st[k]
  BY DEF Put, Knowledge
<1> HIDE DEF next
<1>5. ASSUME NEW k \in Locals
      PROVE  /\ next[k] = "zero" => n.slot[k] = Nothing
             /\ next[k] = "held" => n.slot[k] \in n.live \cup {Nothing}
             /\ next[k] = "stale" => n.slot[k] \notin n.live
  BY <1>2, <1>3, <1>4 DEF Fits
<1>6. ASSUME NEW j \in Locals, NEW k \in Locals, j # k, n.slot[j] = n.slot[k], n.slot[j] \in n.live
      PROVE  next[j] = "copy" \/ next[k] = "copy"
  BY <1>1, <1>2, <1>3, <1>4, <1>6 DEF Fits
<1>7. \A k \in n.inited : n.slot[k] \in n.live /\ next[k] # "copy"
  BY <1>2, <1>3, <1>4 DEF Fits, IsMemory
<1>8. ASSUME NEW p \in n.live \ n.lost PROVE \E k \in Locals : n.slot[k] = p /\ next[k] # "copy"
  <2>1. PICK k \in Locals : m.slot[k] = p /\ st[k] # "copy"
    BY <1>2, <1>8 DEF Fits
  <2>2. k # l
    BY <1>1, <1>2, <1>8, <2>1 DEF Fits
  <2> QED
    BY <1>3, <1>4, <2>1, <2>2
<1>9. Fits(n, next)
  BY <1>2, <1>5, <1>6, <1>7, <1>8 DEF Fits
<1> QED
  BY <1>9 DEF n, next

\* A call that answers null leaves zero in a slot that held nothing live.
LEMMA NullFits ==
  ASSUME NEW m, NEW st \in Knowledge, Fits(m, st), Settled(st), NEW d \in Locals,
         st[d] \in {"stale", "zero"}, Locals \subseteq Nat
  PROVE  Fits(Overwrite(m, d, Nothing), Put(st, d, "held"))
<1> DEFINE n == Overwrite(m, d, Nothing)
           next == Put(st, d, "held")
<1>1. IsMemory(m) /\ ~ m.doubled /\ m.out = Nothing /\ Nothing \notin m.live /\ DOMAIN m.slot = Locals
  BY ObjectsAssumption DEF Fits, IsMemory, Nothing
<1>2. m.slot[d] \notin m.live
  BY <1>1 DEF Fits
<1>3. /\ IsMemory(n) /\ ~ n.doubled /\ n.out = Nothing /\ n.slot = Put(m.slot, d, Nothing) /\ n.live = m.live
      /\ n.inited = m.inited /\ m.lost \subseteq n.lost
  BY <1>1, OverwriteIs
<1> HIDE DEF n
<1>4. n.slot[d] = Nothing /\ \A k \in Locals \ {d} : n.slot[k] = m.slot[k]
  BY <1>1, <1>3 DEF Put
<1>5. next[d] = "held" /\ \A k \in Locals \ {d} : next[k] = st[k] /\ next[k] # "copy"
  BY DEF Put, Knowledge, Settled
<1> HIDE DEF next
<1>6. ASSUME NEW k \in Locals
      PROVE  /\ next[k] = "zero" => n.slot[k] = Nothing
             /\ next[k] = "held" => n.slot[k] \in n.live \cup {Nothing}
             /\ next[k] = "stale" => n.slot[k] \notin n.live
  BY <1>3, <1>4, <1>5 DEF Fits
<1>7. ASSUME NEW j \in Locals, NEW k \in Locals, j # k, n.slot[j] = n.slot[k], n.slot[j] \in n.live
      PROVE  next[j] = "copy" \/ next[k] = "copy"
  BY <1>1, <1>3, <1>4, <1>5, <1>7 DEF Fits
<1>8. \A k \in n.inited : n.slot[k] \in n.live /\ next[k] # "copy"
  BY <1>1, <1>2, <1>3, <1>4, <1>5 DEF Fits, IsMemory
<1>9. ASSUME NEW p \in n.live \ n.lost PROVE \E k \in Locals : n.slot[k] = p /\ next[k] # "copy"
  <2>1. PICK k \in Locals : m.slot[k] = p
    BY <1>3, <1>9 DEF Fits
  <2>2. k # d
    BY <1>2, <1>3, <1>9, <2>1
  <2> QED
    BY <1>4, <1>5, <2>1, <2>2
<1>10. Fits(n, next)
  BY <1>3, <1>6, <1>7, <1>8, <1>9 DEF Fits
<1> QED
  BY <1>10 DEF n, next

\* A free that goes wrong changes nothing but the verdict.
LEMMA RefusedFits ==
  ASSUME NEW m, NEW st, Fits(m, st)
  PROVE  Fits([m EXCEPT !.ok = FALSE], st) /\ ~ [m EXCEPT !.ok = FALSE].ok
BY ZenonT(30) DEF Fits, IsMemory

\* What a statement teaches is knowledge.
LEMMA LearnedIs ==
  ASSUME NEW kinds, NEW kept, NEW st \in Knowledge, NEW s, Len(kinds) \in Nat,
         Allowed(kinds, kept, st, s)
  PROVE  Learned(kinds, kept, st, s) \in Knowledge
BY DEF Allowed, Learned, Statement, Put, Knowledge, Statuses

\* A statement that is allowed leaves the memory as it is known to be.
LEMMA StatementFits ==
  ASSUME NEW m, NEW st \in Knowledge, Fits(m, st), NEW s, NEW values,
         Len(ctx.kinds) \in Nat, Locals = 1 .. Len(ctx.kinds), values \in {<<>>} \cup {<<l>> : l \in Locals},
         Allowed(ctx.kinds, Range(values), st, s)
  PROVE  Goes(Run(m, s, values), st, Learned(ctx.kinds, Range(values), st, s))
<1> DEFINE next == Learned(ctx.kinds, Range(values), st, s)
<1> SUFFICES Goes(Run(m, s, values), st, next)
  OBVIOUS
<1>0. Locals \subseteq Nat
  OBVIOUS
<1>1. CASE s.op = "Const"
  <2>1. s.dest \in Locals /\ Settled(st)
    BY <1>1 DEF Allowed, Statement
  <2>2. Run(m, s, values) = New(m, s.dest) /\ next = Put(st, s.dest, "held")
    BY <1>1 DEF Run, Learned
  <2> HIDE DEF next
  <2> QED
    BY <1>0, <2>1, <2>2, NewFits
<1>2. CASE s.op = "Assign"
  <2> DEFINE left == IF ctx.kinds[s.source] = "string" THEN "zero" ELSE "copy"
  <2>1. s.dest \in Locals /\ s.source \in Locals /\ s.dest # s.source /\ Settled(st)
    BY <1>2 DEF Allowed, Statement
  <2>2. next = Put(Put(st, s.source, left), s.dest, "held")
    BY <1>2 DEF Learned
  <2>3. Run(m, s, values) = IF s.source \in m.inited THEN Copy(m, s.dest, s.source)
                            ELSE [m EXCEPT !.ok = FALSE]
    BY <1>2 DEF Run, Reading
  <2>4. left \in {"zero", "copy"}
    OBVIOUS
  <2>5. CASE s.source \in m.inited
    <3>1. left = (IF ctx.kinds[s.source] = "string" THEN "zero" ELSE "copy")
      OBVIOUS
    <3> HIDE DEF left, next
    <3>2. Fits(Copy(m, s.dest, s.source), Put(Put(st, s.source, left), s.dest, "held"))
      BY <1>0, <2>1, <2>4, <2>5, <3>1, CopyFits
    <3> QED
      BY <2>2, <2>3, <2>5, <3>2 DEF Goes
  <2>6. CASE s.source \notin m.inited
    <3> HIDE DEF left, next
    <3> QED
      BY <2>3, <2>6, RefusedFits DEF Goes
  <2> QED
    BY <2>5, <2>6
<1>3. CASE s.op = "Deinit"
  <2>1. s.local \in Locals /\ st[s.local] \in {"zero", "stale", "copy"}
    BY <1>3 DEF Allowed, Statement
  <2>2. /\ Run(m, s, values) = [m EXCEPT !.slot[s.local] = Nothing, !.inited = @ \ {s.local}]
        /\ next = Put(st, s.local, "zero")
    BY <1>3 DEF Run, Learned
  <2>3. Fits([m EXCEPT !.slot[s.local] = Nothing, !.inited = @ \ {s.local}], Put(st, s.local, "zero"))
    BY <1>0, <2>1, DeinitFits
  <2> HIDE DEF next
  <2>4. Fits(Run(m, s, values), next)
    BY <2>2, <2>3, Zenon
  <2> QED
    BY <2>4 DEF Goes
<1>4. CASE s.op = "Drop"
  <2>1. s.local \in Locals
    BY <1>4 DEF Allowed, Statement
  <2>2. Run(m, s, values) = IF s.local \in Range(values) THEN m
                            ELSE Free([m EXCEPT !.inited = @ \ {s.local}], m.slot[s.local])
    <3>1. Contains(values, s.local) <=> s.local \in Range(values)
      BY DEF Contains, Range
    <3> QED
      BY <1>4, <3>1 DEF Run, Drop
  <2>3. CASE s.local \in Range(values)
    <3>1. next = st
      BY <1>4, <2>3 DEF Learned
    <3> HIDE DEF next
    <3> QED
      BY <2>2, <2>3, <3>1 DEF Goes
  <2>4. CASE s.local \notin Range(values)
    <3>1. next = Put(st, s.local, "stale") /\ Settled(st) /\ st[s.local] \in {"held", "zero"}
      BY <1>4, <2>4 DEF Learned, Allowed
    <3> HIDE DEF next
    <3> QED
      BY <1>0, <2>1, <2>2, <2>4, <3>1, FreeFits DEF Goes
  <2> QED
    BY <2>3, <2>4
<1>5. CASE s.op = "Read"
  <2>1. Run(m, s, values) \in {m, [m EXCEPT !.ok = FALSE]} /\ next = st
    BY <1>5 DEF Run, Reading, Learned
  <2> HIDE DEF next
  <2> QED
    BY <2>1, RefusedFits DEF Goes
<1>6. s.op \in {"Const", "Assign", "Deinit", "Drop", "Read"}
  BY DEF Allowed, Statement
<1> QED
  BY <1>1, <1>2, <1>3, <1>4, <1>5, <1>6

-----------------------------------------------------------------------------
(* Blocks *)

\* Induction over the natural numbers, for a set.
LEMMA SetInduction ==
  ASSUME NEW S, 0 \in S, \A n \in Nat : n \in S => n + 1 \in S
  PROVE  Nat \subseteq S
<1> DEFINE missing == Nat \ S
<1>1. SUFFICES ASSUME missing # {} PROVE FALSE
  OBVIOUS
<1>2. \E i \in missing : \A j \in missing : ~ (<<j, i>> \in OpToRel(<, Nat))
  <2>1. missing \subseteq Nat /\ missing # {}
    BY <1>1
  <2> HIDE DEF missing
  <2> QED
    BY <2>1, NatLessThanWellFounded, WFMin
<1>3. PICK i \in missing : \A j \in missing : ~ (j < i)
  BY <1>2 DEF OpToRel
<1>4. i # 0
  OBVIOUS
<1>5. i - 1 \in Nat /\ i - 1 < i /\ i = (i - 1) + 1
  BY <1>4
<1>6. i - 1 \in S
  BY <1>3, <1>5
<1> QED
  BY <1>5, <1>6

\* What one statement makes of the memory, if the path has not ended.
RunOne(m, s, values) == IF m.ok /\ m.room THEN Run(m, s, values) ELSE m

\* The memories after each of the first n statements.
Runs(m, stmts, values, n, f) ==
  f = [k \in 0 .. n |-> IF k = 0 THEN m ELSE RunOne(f[k - 1], stmts[k], values)]

\* The memories a block's statements pass through exist.
LEMMA RunsExist ==
  ASSUME NEW m, NEW stmts, NEW values, NEW n \in Nat
  PROVE  \E f : Runs(m, stmts, values, n, f)
<1> DEFINE long == {i \in Nat : \E f : Runs(m, stmts, values, i, f)}
<1>1. 0 \in long
  <2> DEFINE f == [k \in 0 .. 0 |-> m]
  <2>1. Runs(m, stmts, values, 0, f)
    BY DEF Runs
  <2> QED
    BY <2>1
<1>2. ASSUME NEW i \in Nat, i \in long PROVE i + 1 \in long
  <2>1. PICK f : Runs(m, stmts, values, i, f)
    BY <1>2
  <2> DEFINE g == [k \in 0 .. (i + 1) |-> IF k = i + 1 THEN RunOne(f[i], stmts[k], values) ELSE f[k]]
  <2>2. \A k \in 0 .. i : g[k] = f[k]
    OBVIOUS
  <2>3. ASSUME NEW k \in 0 .. (i + 1)
        PROVE  g[k] = IF k = 0 THEN m ELSE RunOne(g[k - 1], stmts[k], values)
    <3>1. CASE k = i + 1
      <4>1. g[k] = RunOne(f[i], stmts[k], values) /\ k - 1 = i /\ k # 0 /\ i \in 0 .. i
        BY <3>1
      <4> HIDE DEF g
      <4> QED
        BY <2>2, <4>1
    <3>2. CASE k # i + 1
      <4>1. k \in 0 .. i /\ (k # 0 => k - 1 \in 0 .. i)
        BY <3>2
      <4>2. f[k] = IF k = 0 THEN m ELSE RunOne(f[k - 1], stmts[k], values)
        BY <2>1, <4>1 DEF Runs
      <4> HIDE DEF g
      <4> QED
        BY <2>2, <4>1, <4>2
    <3> QED
      BY <3>1, <3>2
  <2>4. g = [k \in 0 .. (i + 1) |-> g[k]]
    OBVIOUS
  <2>5. Runs(m, stmts, values, i + 1, g)
    <3> HIDE DEF g
    <3> QED
      BY <2>3, <2>4 DEF Runs
  <2> QED
    <3> HIDE DEF g
    <3> QED
      BY <2>5
<1> HIDE DEF long
<1>3. n \in long
  BY <1>1, <1>2, SetInduction
<1> QED
  BY <1>3 DEF long

\* The memory after a block is the last of them.
LEMMA RunBlockIs ==
  ASSUME NEW m, NEW block, Len(block.stmts) \in Nat
  PROVE  \E f : /\ f = [k \in 0 .. Len(block.stmts) |->
                          IF k = 0 THEN m ELSE RunOne(f[k - 1], block.stmts[k], Values(block.term))]
                /\ RunBlock(m, block) = f[Len(block.stmts)]
<1> DEFINE n == Len(block.stmts)
           values == Values(block.term)
           f == CHOOSE f : Runs(m, block.stmts, values, n, f)
<1>1. Runs(m, block.stmts, values, n, f)
  BY RunsExist
<1>2. RunBlock(m, block) = f[n]
  BY DEF RunBlock, Runs, RunOne, Values
<1> HIDE DEF f, n, values
<1> QED
  BY <1>1, <1>2 DEF Runs, n, values

\* After a block the memory is as it is known to be, or the path has ended.
LEMMA BlockFits ==
  ASSUME NEW m, NEW from \in Knowledge, Fits(m, from), NEW to \in Knowledge, NEW block,
         Len(ctx.kinds) \in Nat, Locals = 1 .. Len(ctx.kinds), Len(block.stmts) \in Nat,
         Values(block.term) \in {<<>>} \cup {<<l>> : l \in Locals},
         Walk(ctx.kinds, Kept(block.term), block.stmts, from, to)
  PROVE  LET n == RunBlock(m, block)
         IN Fits(n, to) \/ (~ (n.ok /\ n.room) /\ \E st \in Knowledge : Fits(n, st))
<1> DEFINE len == Len(block.stmts)
           values == Values(block.term)
<1>1. PICK f : /\ f = [k \in 0 .. len |-> IF k = 0 THEN m ELSE RunOne(f[k - 1], block.stmts[k], values)]
               /\ RunBlock(m, block) = f[len]
  BY RunBlockIs
<1>2. PICK g \in [0 .. len -> Knowledge] :
        /\ Weaker(from, g[0]) /\ g[len] = to
        /\ \A i \in 1 .. len : Step(ctx.kinds, Range(values), g[i - 1], block.stmts[i], g[i])
  BY DEF Walk, Kept
<1>3. Locals \subseteq Nat
  OBVIOUS
<1> HIDE DEF len, values
<1> DEFINE Sound(i) == Fits(f[i], g[i]) \/ (~ (f[i].ok /\ f[i].room) /\ \E st \in Knowledge : Fits(f[i], st))
           sound == {i \in Nat : i <= len => Sound(i)}
<1>4. 0 \in sound
  <2>1. f[0] = m /\ 0 \in 0 .. len
    BY <1>1 DEF len
  <2>2. Fits(m, g[0])
    BY <1>2, <1>3, <2>1, Weakened
  <2> QED
    BY <2>1, <2>2
<1>5. ASSUME NEW i \in Nat, i \in sound PROVE i + 1 \in sound
  <2> SUFFICES ASSUME i + 1 <= len PROVE Sound(i + 1)
    OBVIOUS
  <2>1. i \in 0 .. len /\ i + 1 \in 0 .. len /\ i + 1 \in 1 .. len /\ i + 1 # 0 /\ (i + 1) - 1 = i
    BY DEF len
  <2> DEFINE s == block.stmts[i + 1]
             next == Learned(ctx.kinds, Range(values), g[i], s)
  <2>2. f[i + 1] = RunOne(f[i], s, values)
    BY <1>1, <2>1
  <2>3. g[i] \in Knowledge /\ g[i + 1] \in Knowledge
    BY <1>2, <2>1
  <2>4. Allowed(ctx.kinds, Range(values), g[i], s) /\ Weaker(next, g[i + 1])
    BY <1>2, <2>1 DEF Step
  <2>5. next \in Knowledge
    BY <2>3, <2>4, LearnedIs
  <2>6. Sound(i)
    BY <1>5, <2>1
  <2> HIDE DEF s, next
  <2>7. CASE f[i].ok /\ f[i].room
    <3>1. Fits(f[i], g[i]) /\ f[i + 1] = Run(f[i], s, values)
      BY <2>2, <2>6, <2>7 DEF RunOne
    <3>2. Goes(f[i + 1], g[i], next)
      BY <2>3, <2>4, <3>1, StatementFits DEF next, values
    <3>3. CASE Fits(f[i + 1], next)
      BY <1>3, <2>3, <2>4, <2>5, <3>3, Weakened
    <3>4. CASE ~ (f[i + 1].ok /\ f[i + 1].room) /\ Fits(f[i + 1], g[i])
      BY <2>3, <3>4
    <3> QED
      BY <3>2, <3>3, <3>4 DEF Goes
  <2>8. CASE ~ (f[i].ok /\ f[i].room)
    <3>1. f[i + 1] = f[i]
      BY <2>2, <2>8 DEF RunOne
    <3> QED
      BY <2>3, <2>6, <2>8, <3>1
  <2> QED
    BY <2>7, <2>8
<1>6. Nat \subseteq sound
  <2> HIDE DEF sound
  <2> QED
    BY <1>4, <1>5, SetInduction
<1>7. Sound(len)
  BY <1>6 DEF len
<1> QED
  BY <1>1, <1>2, <1>7

-----------------------------------------------------------------------------
(* Runs *)

\* A run that is at block a, with memory m, and has ended as h says.
Fine(E, a, m, h) ==
  IF a = 0 THEN m = Start(<<>>, {}) /\ h = ""
  ELSE /\ a \in DOMAIN ctx.blocks /\ IsMemory(m)
       /\ h = "" => Fits(m, E[a]) /\ m.ok /\ m.room
       /\ \E st \in Knowledge : Fits([m EXCEPT !.out = Nothing], st)
       /\ h = "returned" => /\ m.live \subseteq m.lost \cup {m.out}
                            /\ m.out # Nothing => m.out \in m.live

\* What the flow equations say of one block.
LEMMA BlockTyped ==
  ASSUME NEW E, Complete(E), NEW b \in DOMAIN ctx.blocks
  PROVE  /\ Len(ctx.blocks[b].stmts) \in Nat
         /\ Values(ctx.blocks[b].term) \in {<<>>} \cup {<<l>> : l \in Locals}
         /\ ctx.blocks[b].term \in Terminator(1 .. Len(ctx.kinds), 1 .. Len(ctx.blocks))
         /\ Len(ctx.kinds) \in Nat /\ Locals = 1 .. Len(ctx.kinds) /\ E[b] \in Knowledge
         /\ \E to \in Knowledge :
              /\ Walk(ctx.kinds, Kept(ctx.blocks[b].term), ctx.blocks[b].stmts, E[b], to)
              /\ Leads(E, ctx.blocks[b].term, to)
<1>1. BlockFlows(ctx.kinds, E, ctx.blocks[b], E[b])
  BY DEF Complete
<1>2. Locals = 1 .. Len(ctx.kinds) /\ Len(ctx.kinds) \in Nat
  BY DEF Complete, Locals
<1>3. ctx.blocks[b].term \in Terminator(1 .. Len(ctx.kinds), 1 .. Len(ctx.blocks))
  BY DEF Complete
<1>4. Values(ctx.blocks[b].term) \in {<<>>} \cup {<<l>> : l \in Locals}
  BY <1>2, <1>3 DEF Values, Terminator, Placeholder
<1>5. \E to \in Knowledge :
        /\ Walk(ctx.kinds, Kept(ctx.blocks[b].term), ctx.blocks[b].stmts, E[b], to)
        /\ Leads(E, ctx.blocks[b].term, to)
  BY <1>1 DEF BlockFlows
<1>6. Len(ctx.blocks[b].stmts) \in Nat
  BY <1>1 DEF BlockFlows
<1>7. E[b] \in Knowledge
  BY DEF Complete
<1> QED
  BY <1>2, <1>3, <1>4, <1>5, <1>6, <1>7

\* A memory as known fits a run that goes on or one that has stopped.
LEMMA FineIs ==
  ASSUME NEW E, NEW a \in DOMAIN ctx.blocks, a # 0, NEW m, NEW h, NEW st \in Knowledge, Fits(m, st),
         h = "" => Fits(m, E[a]) /\ m.ok /\ m.room, h # "returned"
  PROVE  Fine(E, a, m, h)
<1>1. IsMemory(m) /\ m.out = Nothing
  BY DEF Fits
<1>2. [m EXCEPT !.out = Nothing] = m
  BY <1>1 DEF IsMemory
<1> QED
  BY <1>1, <1>2 DEF Fine

\* Once its statements have run, a block's terminator may rely on what the walk has learned.
LEMMA AfterFits ==
  ASSUME NEW E, Complete(E), Fine(E, at, mem, halted), Running
  PROVE  /\ at \in DOMAIN ctx.blocks /\ at # 0 /\ Locals \subseteq Nat
         /\ Locals = 1 .. Len(ctx.kinds) /\ Block.term \in Terminator(1 .. Len(ctx.kinds), 1 .. Len(ctx.blocks))
         /\ Len(ctx.kinds) \in Nat /\ Len(ctx.blocks) \in Nat /\ DOMAIN ctx.blocks = 1 .. Len(ctx.blocks)
         /\ \A b \in DOMAIN ctx.blocks : E[b] \in Knowledge
         /\ \/ ~ (After.ok /\ After.room)
            \/ \E to \in Knowledge : Fits(After, to) /\ Leads(E, Block.term, to)
         /\ \E st \in Knowledge : Fits(After, st)
<1>1. at \in DOMAIN ctx.blocks /\ at # 0 /\ Fits(mem, E[at])
  BY DEF Fine, Running
<1>2. /\ Len(Block.stmts) \in Nat /\ Values(Block.term) \in {<<>>} \cup {<<l>> : l \in Locals}
      /\ Block.term \in Terminator(1 .. Len(ctx.kinds), 1 .. Len(ctx.blocks))
      /\ Len(ctx.kinds) \in Nat /\ Locals = 1 .. Len(ctx.kinds) /\ E[at] \in Knowledge
      /\ \E to \in Knowledge :
           /\ Walk(ctx.kinds, Kept(Block.term), Block.stmts, E[at], to)
           /\ Leads(E, Block.term, to)
  BY <1>1, BlockTyped DEF Block
<1>3. PICK to \in Knowledge : /\ Walk(ctx.kinds, Kept(Block.term), Block.stmts, E[at], to)
                              /\ Leads(E, Block.term, to)
  BY <1>2
<1>4. Fits(After, to) \/ (~ (After.ok /\ After.room) /\ \E st \in Knowledge : Fits(After, st))
  <2>1. LET n == RunBlock(mem, Block)
        IN Fits(n, to) \/ (~ (n.ok /\ n.room) /\ \E st \in Knowledge : Fits(n, st))
    BY <1>1, <1>2, <1>3, BlockFits
  <2> QED
    BY <2>1 DEF After
<1>5. Locals \subseteq Nat
  BY <1>2
<1>6. /\ Len(ctx.blocks) \in Nat /\ DOMAIN ctx.blocks = 1 .. Len(ctx.blocks)
      /\ \A b \in DOMAIN ctx.blocks : E[b] \in Knowledge
  BY DEF Complete
<1>7. CASE Fits(After, to)
  BY <1>1, <1>2, <1>3, <1>5, <1>6, <1>7
<1>8. CASE ~ (After.ok /\ After.room) /\ \E st \in Knowledge : Fits(After, st)
  BY <1>1, <1>2, <1>5, <1>6, <1>8
<1> QED
  BY <1>4, <1>7, <1>8

\* A return keeps memory as it is known.
LEMMA StopFine ==
  ASSUME NEW E, Complete(E), Fine(E, at, mem, halted), Stop
  PROVE  Fine(E, at', mem', halted')
<1>1. at \in DOMAIN ctx.blocks /\ at # 0 /\ \E st \in Knowledge : Fits(After, st)
  BY AfterFits DEF Stop
<1>2. at' = at /\ mem' = After /\ halted' \in {"refused", "exhausted"}
  BY DEF Stop
<1>3. PICK st \in Knowledge : Fits(After, st)
  BY <1>1
<1> HIDE DEF After
<1>4. Fine(E, at, After, halted')
  BY <1>1, <1>2, <1>3, FineIs
<1> QED
  BY <1>2, <1>4

\* Control goes to a block where no more is known than the memory bears out.
LEMMA GoesOn ==
  ASSUME NEW E, NEW b \in DOMAIN ctx.blocks, b # 0, E[b] \in Knowledge, NEW m, m.ok, m.room,
         NEW st \in Knowledge, Fits(m, st), Weaker(st, E[b]), Locals \subseteq Nat, Continues(m, b),
         halted = ""
  PROVE  Fine(E, at', mem', halted')
<1>1. Fits(m, E[b])
  BY Weakened
<1>2. Fine(E, b, m, halted)
  BY <1>1, FineIs
<1> QED
  BY <1>2 DEF Continues

\* What the fields of a terminator are.
LEMMA TermIs ==
  ASSUME NEW locals, NEW blocks, NEW t \in Terminator(locals, blocks)
  PROVE  /\ t.op \in {"Goto", "If"} => t.to \subseteq blocks
         /\ t.op = "Call" => t.to \subseteq blocks /\ t.arg \in locals
         /\ t.op = "CallNullable" => t.to \subseteq blocks /\ t.dest \in locals
         /\ t.op = "IfNull" => t.local \in locals /\ t.null \in blocks /\ t.present \in blocks
         /\ t.op = "Return" => t.values \in {<<>>} \cup {<<l>> : l \in locals}
<1>1. CASE t \in [op : {"Goto", "If"}, to : SUBSET blocks]
  BY <1>1
<1>2. CASE t \in [op : {"IfNull"}, local : locals, null : blocks, present : blocks, to : SUBSET blocks]
  BY <1>2
<1>3. CASE t \in [op : {"Call"}, arg : locals, to : SUBSET blocks]
  BY <1>3
<1>4. CASE t \in [op : {"CallNullable"}, dest : locals, to : SUBSET blocks]
  BY <1>4
<1>5. CASE t \in [op : {"Return"}, values : {<<>>} \cup {<<l>> : l \in locals}, to : {{}}]
  BY <1>5
<1>6. CASE t = Placeholder
  BY <1>6 DEF Placeholder
<1> QED
  BY <1>1, <1>2, <1>3, <1>4, <1>5, <1>6 DEF Terminator

\* Running a block leads to what is known at the block that follows.
LEMMA ExecuteFine ==
  ASSUME NEW E, Complete(E), Fine(E, at, mem, halted), Execute
  PROVE  Fine(E, at', mem', halted')
<1> DEFINE t == Block.term
<1>1. /\ at \in DOMAIN ctx.blocks /\ at # 0 /\ Locals \subseteq Nat /\ Locals = 1 .. Len(ctx.kinds)
      /\ t \in Terminator(1 .. Len(ctx.kinds), 1 .. Len(ctx.blocks))
      /\ Len(ctx.kinds) \in Nat /\ Len(ctx.blocks) \in Nat /\ DOMAIN ctx.blocks = 1 .. Len(ctx.blocks)
      /\ \A b \in DOMAIN ctx.blocks : E[b] \in Knowledge /\ b # 0
      /\ \E to \in Knowledge : Fits(After, to) /\ Leads(E, t, to)
      /\ After.ok /\ After.room /\ halted = ""
  <2>1. Running /\ After.ok /\ After.room /\ halted = ""
    BY DEF Execute, Running
  <2> HIDE DEF After, t
  <2>2. /\ at \in DOMAIN ctx.blocks /\ at # 0 /\ Locals \subseteq Nat /\ Locals = 1 .. Len(ctx.kinds)
        /\ t \in Terminator(1 .. Len(ctx.kinds), 1 .. Len(ctx.blocks))
        /\ Len(ctx.kinds) \in Nat /\ Len(ctx.blocks) \in Nat /\ DOMAIN ctx.blocks = 1 .. Len(ctx.blocks)
        /\ \A b \in DOMAIN ctx.blocks : E[b] \in Knowledge
        /\ \E to \in Knowledge : Fits(After, to) /\ Leads(E, t, to)
    BY <2>1, AfterFits DEF t
  <2>3. \A b \in DOMAIN ctx.blocks : b # 0
    BY <2>2
  <2> QED
    BY <2>1, <2>2, <2>3
<1>0. /\ t.op \in {"Goto", "If"} => t.to \subseteq DOMAIN ctx.blocks
      /\ t.op = "Call" => t.to \subseteq DOMAIN ctx.blocks /\ t.arg \in Locals
      /\ t.op = "CallNullable" => t.to \subseteq DOMAIN ctx.blocks /\ t.dest \in Locals
      /\ t.op = "IfNull" => /\ t.local \in Locals
                            /\ t.null \in DOMAIN ctx.blocks /\ t.present \in DOMAIN ctx.blocks
      /\ t.op = "Return" => t.values \in {<<>>} \cup {<<l>> : l \in Locals}
  <2> HIDE DEF t
  <2>1. t \in Terminator(Locals, DOMAIN ctx.blocks)
    BY <1>1
  <2> QED
    BY <2>1, TermIs
<1>2. PICK to \in Knowledge : Fits(After, to) /\ Leads(E, t, to)
  BY <1>1
<1>3. CASE JumpOrBranch
  <2>1. PICK b \in t.to : Continues(After, b)
    BY <1>3 DEF JumpOrBranch
  <2>2. b \in DOMAIN ctx.blocks /\ Weaker(to, E[b])
    BY <1>0, <1>2, <1>3, <2>1 DEF Leads, JumpOrBranch
  <2> HIDE DEF t, After
  <2> QED
    BY <1>1, <1>2, <2>1, <2>2, GoesOn
<1>4. CASE Call
  <2>1. t.op = "Call" /\ t.arg \in Locals
    BY <1>0, <1>4 DEF Call
  <2>2. CASE t.arg \in After.inited
    <3>1. PICK b \in t.to : Continues(Free([After EXCEPT !.inited = @ \ {t.arg}], After.slot[t.arg]), b)
      BY <1>4, <2>2 DEF Call
    <3>2. /\ b \in DOMAIN ctx.blocks /\ Settled(to) /\ to[t.arg] \in {"held", "zero"}
          /\ Weaker(Put(to, t.arg, "stale"), E[b])
      BY <1>0, <1>2, <2>1, <3>1 DEF Leads
    <3> DEFINE m == Free([After EXCEPT !.inited = @ \ {t.arg}], After.slot[t.arg])
    <3>3. Fits(m, Put(to, t.arg, "stale"))
      BY <1>1, <1>2, <2>1, <3>2, FreeFits
    <3>4. m.ok /\ m.room
      BY <1>1, <1>2 DEF Free, Fits, IsMemory
    <3>5. Put(to, t.arg, "stale") \in Knowledge
      BY DEF Put, Knowledge, Statuses
    <3> HIDE DEF m, t, After
    <3>6. Continues(m, b)
      BY <3>1 DEF m
    <3> QED
      BY <1>1, <3>2, <3>3, <3>4, <3>5, <3>6, GoesOn
  <2>3. CASE t.arg \notin After.inited
    <3>1. Ends(After, "refused")
      BY <1>4, <2>3 DEF Call
    <3>2. Fine(E, at, After, "refused")
      BY <1>1, <1>2, FineIs
    <3> QED
      BY <3>1, <3>2 DEF Ends
  <2> QED
    BY <2>2, <2>3
<1>5. CASE CallMaybe
  <2>1. t.op = "CallNullable" /\ t.dest \in Locals
    BY <1>0, <1>5 DEF CallMaybe
  <2>2. PICK b \in t.to :
           \/ Continues(Overwrite(After, t.dest, Nothing), b)
           \/ New(After, t.dest).room /\ Continues(New(After, t.dest), b)
    BY <1>5 DEF CallMaybe
  <2>3. /\ b \in DOMAIN ctx.blocks /\ Settled(to) /\ to[t.dest] \in {"stale", "zero"}
        /\ Weaker(Put(to, t.dest, "held"), E[b])
    BY <1>0, <1>2, <2>1, <2>2 DEF Leads
  <2>4. Put(to, t.dest, "held") \in Knowledge
    BY DEF Put, Knowledge, Statuses
  <2>5. IsMemory(After)
    BY <1>2 DEF Fits
  <2> HIDE DEF t, After
  <2>6. CASE Continues(Overwrite(After, t.dest, Nothing), b)
    <3> DEFINE m == Overwrite(After, t.dest, Nothing)
    <3>1. Fits(m, Put(to, t.dest, "held"))
      BY <1>1, <1>2, <2>1, <2>3, NullFits
    <3>2. m.ok /\ m.room
      BY <1>1, <2>1, <2>5, OverwriteIs
    <3>3. Continues(m, b)
      BY <2>6
    <3> HIDE DEF m
    <3> QED
      BY <1>1, <2>3, <2>4, <3>1, <3>2, <3>3, GoesOn
  <2>7. CASE New(After, t.dest).room /\ Continues(New(After, t.dest), b)
    <3> DEFINE m == New(After, t.dest)
    <3>1. Fits(m, Put(to, t.dest, "held")) /\ m.ok = After.ok
      BY <1>1, <1>2, <2>1, <2>3, <2>7, NewFits
    <3>2. m.room /\ Continues(m, b)
      BY <2>7
    <3> HIDE DEF m
    <3> QED
      BY <1>1, <2>3, <2>4, <3>1, <3>2, GoesOn
  <2> QED
    BY <2>2, <2>6, <2>7
<1>6. CASE TestNull
  <2>1. t.op = "IfNull" /\ t.local \in Locals /\ t.null \in DOMAIN ctx.blocks /\ t.present \in DOMAIN ctx.blocks
    BY <1>0, <1>6 DEF TestNull
  <2>2. /\ to[t.local] \in {"held", "zero"}
        /\ Weaker(Put(to, t.local, "zero"), E[t.null]) /\ Weaker(to, E[t.present])
    BY <1>2, <2>1 DEF Leads
  <2>3. CASE After.slot[t.local] = Nothing
    <3>1. Continues(After, t.null)
      BY <1>6, <2>3 DEF TestNull
    <3>2. Fits(After, Put(to, t.local, "zero"))
      <4>1. /\ Put(to, t.local, "zero")[t.local] = "zero"
            /\ \A l \in Locals \ {t.local} : Put(to, t.local, "zero")[l] = to[l]
        BY <1>1, <2>1 DEF Put, Knowledge
      <4>2. Nothing \notin After.live
        BY <1>2, ObjectsAssumption DEF Fits, IsMemory, Nothing
      <4> DEFINE next == Put(to, t.local, "zero")
                 m == After
      <4> HIDE DEF next, m
      <4>3. Fits(m, next)
        <5> USE <4>1, <4>2 DEF next, m
        <5>1. \A l \in Locals : (next[l] = "copy" <=> to[l] = "copy")
          BY <2>2
        <5>2. IsMemory(m) /\ ~ m.doubled /\ m.out = Nothing
          BY <1>2 DEF Fits
        <5>3. ASSUME NEW l \in Locals
              PROVE  /\ next[l] = "zero" => m.slot[l] = Nothing
                     /\ next[l] = "held" => m.slot[l] \in m.live \cup {Nothing}
                     /\ next[l] = "stale" => m.slot[l] \notin m.live
          BY <1>2, <2>3 DEF Fits
        <5>4. \A l, k \in Locals : l # k /\ m.slot[l] = m.slot[k] /\ m.slot[l] \in m.live =>
                                  next[l] = "copy" \/ next[k] = "copy"
          <6> HIDE DEF next, m
          <6> QED
            BY <1>2, <5>1 DEF Fits, m
        <5>5. \A l \in m.inited : m.slot[l] \in m.live /\ next[l] # "copy"
          <6> HIDE DEF next, m
          <6> QED
            BY <1>2, <5>1, <5>2 DEF Fits, m, IsMemory
        <5>6. \A o \in m.live \ m.lost : \E l \in Locals : m.slot[l] = o /\ next[l] # "copy"
          <6> HIDE DEF next, m
          <6> QED
            BY <1>2, <5>1 DEF Fits, m
        <5> HIDE DEF next, m
        <5> QED
          BY <5>2, <5>3, <5>4, <5>5, <5>6 DEF Fits
      <4> QED
        BY <4>3 DEF next, m
    <3>3. Put(to, t.local, "zero") \in Knowledge
      BY DEF Put, Knowledge, Statuses
    <3> HIDE DEF t, After
    <3> QED
      BY <1>1, <2>1, <2>2, <3>1, <3>2, <3>3, GoesOn
  <2>4. CASE After.slot[t.local] # Nothing
    <3>1. Continues(After, t.present)
      BY <1>6, <2>4 DEF TestNull
    <3> HIDE DEF t, After
    <3> QED
      BY <1>1, <1>2, <2>1, <2>2, <3>1, GoesOn
  <2> QED
    BY <2>3, <2>4
<1>7. CASE ReturnFrom
  <2>1. t.op = "Return" /\ t.values \in {<<>>} \cup {<<l>> : l \in Locals}
    BY <1>0, <1>7 DEF ReturnFrom
  <2>2. \A l \in Nat : to[l] \in {"stale", "zero"} \/ (l \in Range(t.values) /\ to[l] # "copy")
    BY <1>2, <2>1 DEF Leads, Kept, Values
  <2>3. IsMemory(After) /\ After.out = Nothing /\ Nothing \notin After.live
    BY <1>2, ObjectsAssumption DEF Fits, IsMemory, Nothing
  <2>7. [After EXCEPT !.out = Nothing] = After
    BY <2>3 DEF IsMemory
  <2>4. \A o \in After.live \ After.lost : \E l \in Locals : After.slot[l] = o /\ l \in Range(t.values)
    <3> HIDE DEF t, After
    <3>1. \A o \in After.live \ After.lost : \E l \in Locals : After.slot[l] = o /\ to[l] # "copy"
      BY <1>2 DEF Fits
    <3>2. \A l \in Locals : /\ to[l] = "stale" => After.slot[l] \notin After.live
                            /\ to[l] = "zero" => After.slot[l] = Nothing
      BY <1>2 DEF Fits
    <3> SUFFICES ASSUME NEW o \in After.live \ After.lost
                 PROVE  \E l \in Locals : After.slot[l] = o /\ l \in Range(t.values)
      OBVIOUS
    <3>3. PICK l \in Locals : After.slot[l] = o /\ to[l] # "copy"
      BY <3>1
    <3>4. to[l] \in {"stale", "zero"} \/ l \in Range(t.values)
      BY <1>1, <2>2
    <3>5. o # Nothing /\ o \in After.live
      BY <2>3
    <3>6. to[l] \notin {"stale", "zero"}
      BY <3>2, <3>3, <3>5
    <3> QED
      BY <3>3, <3>4, <3>6
  <2> HIDE DEF t, After
  <2>5. CASE t.values = <<>>
    <3>1. Ends(After, "returned")
      BY <1>7, <2>5 DEF ReturnFrom, t
    <3>2. After.live \subseteq After.lost
      BY <2>4, <2>5 DEF Range
    <3>3. Fine(E, at, After, "returned")
      BY <1>1, <1>2, <2>3, <2>7, <3>2 DEF Fine
    <3> QED
      BY <3>1, <3>3 DEF Ends
  <2>6. CASE t.values # <<>>
    <3>1. PICK l \in Locals : t.values = <<l>>
      BY <2>1, <2>6
    <3>2. Range(t.values) = {l} /\ t.values[1] = l
      BY <3>1 DEF Range
    <3>3. CASE l \in After.inited
      <4> DEFINE m == [After EXCEPT !.out = After.slot[l]]
      <4>1. Ends(m, "returned")
        BY <1>7, <2>6, <3>2, <3>3 DEF ReturnFrom, t
      <4>2. /\ m.live = After.live /\ m.lost = After.lost /\ m.out = After.slot[l] /\ IsMemory(m)
            /\ [m EXCEPT !.out = Nothing] = After
        BY <2>3, <2>7 DEF IsMemory
      <4>3. After.slot[l] \in After.live
        BY <1>2, <3>3 DEF Fits
      <4>4. After.live \subseteq After.lost \cup {After.slot[l]}
        BY <2>4, <3>2
      <4> HIDE DEF m
      <4>5. Fine(E, at, m, "returned")
        BY <1>1, <1>2, <4>2, <4>3, <4>4 DEF Fine
      <4> QED
        BY <4>1, <4>5 DEF Ends
    <3>4. CASE l \notin After.inited
      <4>1. Ends(After, "refused")
        BY <1>7, <2>6, <3>2, <3>4 DEF ReturnFrom, t
      <4>2. Fine(E, at, After, "refused")
        BY <1>1, <1>2, FineIs
      <4> QED
        BY <4>1, <4>2 DEF Ends
    <3> QED
      BY <3>3, <3>4
  <2> QED
    BY <2>5, <2>6
<1> QED
  BY <1>3, <1>4, <1>5, <1>6, <1>7 DEF Execute

\* A body has a first block.
LEMMA FirstIs ==
  ASSUME NEW n \in Nat \ {0}
  PROVE  1 \in 1 .. n /\ 1 .. n \subseteq Nat
OBVIOUS

\* The memory a run starts with, whatever the slots of its records hold of
\* what is not on the heap.
LEMMA StartFine ==
  ASSUME NEW E, Complete(E), NEW o \in Objects, NEW junk \in (Objects \cup {Nothing}) \ {o}
  PROVE  Fine(E, Entry, Start([l \in Locals |-> IF l = 1 THEN o
                                                ELSE IF ctx.kinds[l] = "record" THEN junk
                                                ELSE Nothing], {o}), "")
<1>0. 1 \in 1 .. Len(ctx.kinds) /\ 1 .. Len(ctx.kinds) \subseteq Nat
  <2>1. Len(ctx.kinds) \in Nat \ {0}
    BY DEF Complete
  <2> QED
    BY <2>1, FirstIs
<1> DEFINE slot == [l \in Locals |-> IF l = 1 THEN o
                                    ELSE IF ctx.kinds[l] = "record" THEN junk ELSE Nothing]
           m == Start(slot, {o})
<1>2. o # 0 /\ junk # o /\ junk \in Objects \cup {Nothing}
  BY ObjectsAssumption
<1>3. Locals = 1 .. Len(ctx.kinds) /\ 1 \in Locals /\ Entry \in DOMAIN ctx.blocks /\ Locals \subseteq Nat
      /\ E[Entry] \in Knowledge /\ Weaker(Holding({1}), E[Entry])
  <2>1. Len(ctx.kinds) \in Nat \ {0} /\ DOMAIN ctx.kinds = 1 .. Len(ctx.kinds)
    BY DEF Complete
  <2>2. Entry \in DOMAIN ctx.blocks /\ Weaker(Holding({1}), E[Entry])
    BY DEF Complete
  <2>3. E \in [Nat -> Knowledge] /\ Entry \in Nat
    BY DEF Complete, Entry
  <2>4. E[Entry] \in Knowledge
    BY <2>3
  <2> QED
    <3>1. Locals = 1 .. Len(ctx.kinds)
      BY <2>1 DEF Locals
    <3>2. 1 \in Locals /\ Locals \subseteq Nat
      BY <1>0, <3>1
    <3> QED
      BY <2>2, <2>4, <3>1, <3>2
<1>4. /\ IsMemory(m) /\ ~ m.doubled /\ m.out = Nothing /\ m.ok /\ m.room /\ m.live = {o}
      /\ m.inited = {1} /\ m.lost = {} /\ m.slot = slot
  <2>1. slot \in [Locals -> Objects \cup {Nothing}]
    BY <1>2
  <2> HIDE DEF slot
  <2> QED
    BY <1>2, <1>3, <2>1 DEF IsMemory, Start, Nothing
<1> HIDE DEF m
<1>5. \A l \in Nat : Holding({1})[l] = IF l = 1 THEN "held" ELSE "stale"
  BY DEF Holding
<1>6. Holding({1}) \in Knowledge
  BY DEF Holding, Knowledge, Statuses
<1>7. Fits(m, Holding({1}))
  <2> DEFINE st == Holding({1})
  <2>1. \A l \in Locals : st[l] = IF l = 1 THEN "held" ELSE "stale"
    BY <1>3, <1>5
  <2> HIDE DEF st
  <2>2. \A l \in Locals : IF l = 1 THEN m.slot[l] = o ELSE m.slot[l] # o
    BY <1>2, <1>4 DEF Nothing
  <2> QED
    <3>1. \A l \in Locals : /\ st[l] = "zero" => m.slot[l] = Nothing
                            /\ st[l] = "held" => m.slot[l] \in m.live \cup {Nothing}
                            /\ st[l] = "stale" => m.slot[l] \notin m.live
      <4>1. m.live = {o}
        BY <1>4
      <4> QED
        BY <1>2, <2>1, <2>2, <4>1 DEF Nothing
    <3>2. \A l, k \in Locals : l # k => ~ (m.slot[l] = m.slot[k] /\ m.slot[l] \in m.live)
      <4>1. m.live = {o}
        BY <1>4
      <4> QED
        BY <1>2, <2>2, <4>1
    <3>3. m.slot[1] = o /\ st[1] = "held"
      BY <1>3, <2>1, <2>2
    <3>4. Fits(m, st)
      <4>1. /\ IsMemory(m) /\ ~ m.doubled /\ m.out = Nothing /\ m.live = {o} /\ m.inited = {1}
            /\ m.lost = {} /\ 1 \in Locals
        BY <1>3, <1>4
      <4>2. \A l \in m.inited : m.slot[l] \in m.live /\ st[l] # "copy"
        BY <3>3, <4>1
      <4>3. \A p \in m.live \ m.lost : \E l \in Locals : m.slot[l] = p /\ st[l] # "copy"
        BY <3>3, <4>1
      <4> QED
        BY <3>1, <3>2, <4>1, <4>2, <4>3 DEF Fits
    <3> QED
      BY <3>4 DEF st
<1>8. Fits(m, E[Entry])
  BY <1>3, <1>6, <1>7, Weakened
<1>9. Fine(E, Entry, m, "")
  <2>1. Entry # 0
    BY DEF Entry
  <2> QED
    BY <1>3, <1>4, <1>8, <2>1, FineIs
<1> QED
  BY <1>9 DEF m

\* A compiled body starts with its one parameter held.
LEMMA CompileFine ==
  ASSUME NEW E, Complete(E), Compile, halted = ""
  PROVE  Fine(E, at', mem', halted')
<1> DEFINE o == CHOOSE o \in Objects : TRUE
<1>1. o \in Objects
  BY ObjectsAssumption
<1> HIDE DEF o
<1>2. PICK junk \in (Objects \cup {Nothing}) \ {o} :
        mem' = Start([l \in Locals |-> IF l = 1 THEN o
                                      ELSE IF ctx.kinds[l] = "record" THEN junk
                                      ELSE Nothing], {o})
  BY DEF Compile, o
<1>3. at' = Entry /\ halted' = ""
  BY DEF Compile
<1> QED
  BY <1>1, <1>2, <1>3, StartFine

-----------------------------------------------------------------------------
(* Walks *)

\* Saying less is a preorder.
LEMMA WeakerIs ==
  ASSUME NEW a \in Knowledge
  PROVE  /\ Weaker(a, a)
         /\ \A b, c \in Knowledge : Weaker(a, b) /\ Weaker(b, c) => Weaker(a, c)
BY DEF Weaker

\* A walk may end with less known than it has learned.
LEMMA WalkWeaker ==
  ASSUME NEW kinds, NEW kept, NEW stmts, Len(stmts) \in Nat, NEW from \in Knowledge, NEW to \in Knowledge,
         NEW less \in Knowledge, Walk(kinds, kept, stmts, from, to), Weaker(to, less),
         \A i \in 1 .. Len(stmts) : stmts[i] \in Statement(1 .. Len(kinds)), Len(kinds) \in Nat
  PROVE  Walk(kinds, kept, stmts, from, less)
<1> DEFINE n == Len(stmts)
<1>1. PICK f \in [0 .. n -> Knowledge] :
        /\ Weaker(from, f[0]) /\ f[n] = to
        /\ \A i \in 1 .. n : Step(kinds, kept, f[i - 1], stmts[i], f[i])
  BY DEF Walk
<1> DEFINE g == [f EXCEPT ![n] = less]
<1>2. g \in [0 .. n -> Knowledge] /\ g[n] = less /\ \A i \in 0 .. n - 1 : g[i] = f[i]
  OBVIOUS
<1>3. Weaker(from, g[0])
  <2>1. CASE n = 0
    BY <1>1, <1>2, <2>1, WeakerIs
  <2>2. CASE n # 0
    BY <1>1, <1>2, <2>2
  <2> QED
    BY <2>1, <2>2
<1>4. ASSUME NEW i \in 1 .. n PROVE Step(kinds, kept, g[i - 1], stmts[i], g[i])
  <2>1. Step(kinds, kept, f[i - 1], stmts[i], f[i]) /\ g[i - 1] = f[i - 1] /\ i - 1 \in 0 .. n
    BY <1>1, <1>2
  <2>2. CASE i # n
    BY <1>2, <2>1, <2>2
  <2>3. CASE i = n
    <3>1. Learned(kinds, kept, f[i - 1], stmts[i]) \in Knowledge
      BY <1>1, <2>1, LearnedIs DEF Step
    <3> HIDE DEF g
    <3> QED
      BY <1>1, <1>2, <2>1, <2>3, <3>1, WeakerIs DEF Step
  <2> QED
    BY <2>2, <2>3
<1> QED
  <2> HIDE DEF g
  <2> QED
    BY <1>2, <1>3, <1>4 DEF Walk

\* One walk after another.
LEMMA WalkOn ==
  ASSUME NEW kinds, NEW kept, NEW S, NEW s \in Seq(S), NEW t \in Seq(S),
         NEW from \in Knowledge, NEW mid \in Knowledge, NEW to \in Knowledge,
         Walk(kinds, kept, s, from, mid), Walk(kinds, kept, t, mid, to),
         S = Statement(1 .. Len(kinds)), Len(kinds) \in Nat
  PROVE  Walk(kinds, kept, s \o t, from, to)
<1> DEFINE n == Len(s)
           k == Len(t)
<1>0. n \in Nat /\ k \in Nat /\ Len(s \o t) = n + k
  OBVIOUS
<1>1. PICK f \in [0 .. n -> Knowledge] :
        /\ Weaker(from, f[0]) /\ f[n] = mid
        /\ \A i \in 1 .. n : Step(kinds, kept, f[i - 1], s[i], f[i])
  BY DEF Walk
<1>2. PICK h \in [0 .. k -> Knowledge] :
        /\ Weaker(mid, h[0]) /\ h[k] = to
        /\ \A i \in 1 .. k : Step(kinds, kept, h[i - 1], t[i], h[i])
  BY DEF Walk
<1>3. Walk(kinds, kept, s, from, h[0])
  <2>1. h[0] \in Knowledge /\ Weaker(mid, h[0])
    BY <1>0, <1>2
  <2>2. \A i \in 1 .. Len(s) : s[i] \in Statement(1 .. Len(kinds))
    OBVIOUS
  <2> QED
    BY <1>0, <2>1, <2>2, WalkWeaker
<1>4. PICK d \in [0 .. n -> Knowledge] :
        /\ Weaker(from, d[0]) /\ d[n] = h[0]
        /\ \A i \in 1 .. n : Step(kinds, kept, d[i - 1], s[i], d[i])
  BY <1>3 DEF Walk
<1> DEFINE g == [i \in 0 .. n + k |-> IF i <= n THEN d[i] ELSE h[i - n]]
<1>5. g \in [0 .. n + k -> Knowledge]
  BY <1>0
<1>6. Weaker(from, g[0])
  <2>1. g[0] = d[0]
    BY <1>0
  <2> QED
    BY <1>4, <2>1
<1>7. g[n + k] = to
  <2>1. CASE k = 0
    BY <1>0, <1>2, <1>4, <2>1
  <2>2. CASE k # 0
    BY <1>0, <1>2, <2>2
  <2> QED
    BY <2>1, <2>2
<1>8. ASSUME NEW i \in 1 .. n + k PROVE Step(kinds, kept, g[i - 1], (s \o t)[i], g[i])
  <2>1. CASE i <= n
    <3>1. (s \o t)[i] = s[i] /\ g[i] = d[i] /\ g[i - 1] = d[i - 1]
      BY <1>0, <2>1
    <3> HIDE DEF g
    <3> QED
      BY <1>4, <2>1, <3>1
  <2>2. CASE i > n
    <3>1. (s \o t)[i] = t[i - n] /\ i - n \in 1 .. k /\ g[i] = h[i - n]
      BY <1>0, <2>2
    <3>2. g[i - 1] = h[(i - n) - 1]
      <4>1. CASE i = n + 1
        BY <1>0, <1>4, <4>1
      <4>2. CASE i # n + 1
        BY <1>0, <2>2, <4>2
      <4> QED
        BY <4>1, <4>2
    <3> HIDE DEF g
    <3> QED
      BY <1>2, <3>1, <3>2
  <2> QED
    BY <1>0, <2>1, <2>2
<1> HIDE DEF g
<1> QED
  BY <1>0, <1>5, <1>6, <1>7, <1>8 DEF Walk

\* A local more, or a value kept that the statements do not name, changes nothing.
LEMMA WalkMore ==
  ASSUME NEW kinds, NEW kinds2, Len(kinds) \in Nat, Len(kinds2) \in Nat, Len(kinds) <= Len(kinds2),
         \A i \in 1 .. Len(kinds) : kinds2[i] = kinds[i],
         NEW kept, NEW kept2, kept2 \cap 1 .. Len(kinds) = kept \cap 1 .. Len(kinds),
         NEW stmts \in Seq(Statement(1 .. Len(kinds))), NEW from, NEW to, Walk(kinds, kept, stmts, from, to)
  PROVE  Walk(kinds2, kept2, stmts, from, to) /\ stmts \in Seq(Statement(1 .. Len(kinds2)))
<1> DEFINE n == Len(stmts)
<1>1. PICK f \in [0 .. n -> Knowledge] :
        /\ Weaker(from, f[0]) /\ f[n] = to
        /\ \A i \in 1 .. n : Step(kinds, kept, f[i - 1], stmts[i], f[i])
  BY DEF Walk
<1>2. ASSUME NEW s \in Statement(1 .. Len(kinds)) PROVE s \in Statement(1 .. Len(kinds2))
  <2>1. 1 .. Len(kinds) \subseteq 1 .. Len(kinds2)
    OBVIOUS
  <2> QED
    BY <2>1 DEF Statement
<1>3. ASSUME NEW i \in 1 .. n PROVE Step(kinds2, kept2, f[i - 1], stmts[i], f[i])
  <2> DEFINE s == stmts[i]
             a == f[i - 1]
  <2>1. s \in Statement(1 .. Len(kinds)) /\ Allowed(kinds, kept, a, s) /\ Weaker(Learned(kinds, kept, a, s), f[i])
    BY <1>1 DEF Step
  <2> HIDE DEF s, a
  <2>2. s.op = "Drop" => (s.local \in kept <=> s.local \in kept2)
    BY <2>1 DEF Statement
  <2>3. s.op = "Assign" => kinds2[s.source] = kinds[s.source]
    BY <2>1 DEF Statement
  <2>4. Allowed(kinds2, kept2, a, s)
    BY <1>2, <2>1, <2>2 DEF Allowed
  <2>5. Learned(kinds2, kept2, a, s) = Learned(kinds, kept, a, s)
    BY <2>1, <2>2, <2>3 DEF Learned, Statement
  <2>6. Step(kinds2, kept2, a, s, f[i])
    BY <2>1, <2>4, <2>5 DEF Step
  <2> QED
    BY <2>6 DEF s, a
<1>4. stmts \in Seq(Statement(1 .. Len(kinds2)))
  <2> DEFINE S == Statement(1 .. Len(kinds))
             T == Statement(1 .. Len(kinds2))
  <2>1. S \subseteq T
    BY <1>2
  <2> HIDE DEF S, T
  <2>2. stmts \in Seq(S)
    BY DEF S
  <2>3. stmts \in Seq(T)
    BY <2>1, <2>2, SeqDef
  <2> QED
    BY <2>3 DEF T
<1> QED
  BY <1>1, <1>3, <1>4 DEF Walk

\* Walks of no, one, two and three statements.
LEMMA WalkNone ==
  ASSUME NEW kinds, NEW kept, NEW a \in Knowledge, NEW b \in Knowledge, Weaker(a, b)
  PROVE  Walk(kinds, kept, <<>>, a, b)
<1> DEFINE f == [i \in 0 .. 0 |-> b]
<1>1. f \in [0 .. Len(<<>>) -> Knowledge] /\ f[0] = b
  OBVIOUS
<1> HIDE DEF f
<1> QED
  BY <1>1 DEF Walk

\* A statement is a walk of one step.
LEMMA WalkOne ==
  ASSUME NEW kinds, NEW kept, NEW s, NEW a \in Knowledge, NEW b \in Knowledge,
         Step(kinds, kept, a, s, b)
  PROVE  Walk(kinds, kept, <<s>>, a, b)
<1> DEFINE f == [i \in 0 .. 1 |-> IF i = 0 THEN a ELSE b]
<1>1. f \in [0 .. 1 -> Knowledge] /\ f[0] = a /\ f[1] = b
  OBVIOUS
<1> HIDE DEF f
<1>2. Len(<<s>>) = 1 /\ <<s>>[1] = s /\ Weaker(a, a)
  BY WeakerIs
<1>3. \A i \in 1 .. 1 : Step(kinds, kept, f[i - 1], <<s>>[i], f[i])
  BY <1>1, <1>2
<1> QED
  BY <1>1, <1>2, <1>3 DEF Walk

\* Two statements in a row, written out.
LEMMA TwoIs ==
  ASSUME NEW S, NEW s \in S, NEW t \in S
  PROVE  <<s>> \o <<t>> = <<s, t>>
<1>1. <<s>> \in Seq(S) /\ <<t>> \in Seq(S) /\ <<s, t>> \in Seq(S)
  OBVIOUS
<1>2. <<s>> \o <<t>> \in Seq(S) /\ Len(<<s>> \o <<t>>) = 2 /\ Len(<<s, t>>) = 2
  BY <1>1
<1>3. \A i \in 1 .. 2 : (<<s>> \o <<t>>)[i] = <<s, t>>[i]
  BY <1>1
<1> QED
  BY <1>1, <1>2, <1>3, SeqEqual

\* Three statements in a row, written out.
LEMMA ThreeIs ==
  ASSUME NEW S, NEW s \in S, NEW t \in S, NEW u \in S
  PROVE  <<s, t>> \o <<u>> = <<s, t, u>>
<1>1. <<s, t>> \in Seq(S) /\ <<u>> \in Seq(S) /\ <<s, t, u>> \in Seq(S)
  OBVIOUS
<1>2. <<s, t>> \o <<u>> \in Seq(S) /\ Len(<<s, t>> \o <<u>>) = 3 /\ Len(<<s, t, u>>) = 3
  BY <1>1
<1>3. \A i \in 1 .. 3 : (<<s, t>> \o <<u>>)[i] = <<s, t, u>>[i]
  BY <1>1
<1> QED
  BY <1>1, <1>2, <1>3, SeqEqual

\* Two steps make a walk.
LEMMA WalkTwo ==
  ASSUME NEW kinds, Len(kinds) \in Nat, NEW kept, NEW s, NEW t,
         NEW a \in Knowledge, NEW b \in Knowledge, NEW c \in Knowledge,
         Step(kinds, kept, a, s, b), Step(kinds, kept, b, t, c)
  PROVE  Walk(kinds, kept, <<s, t>>, a, c) /\ <<s, t>> \in Seq(Statement(1 .. Len(kinds)))
<1> DEFINE S == Statement(1 .. Len(kinds))
<1>1. s \in S /\ t \in S
  BY DEF Step, Allowed
<1>2. <<s>> \in Seq(S) /\ <<t>> \in Seq(S) /\ <<s>> \o <<t>> = <<s, t>> /\ <<s, t>> \in Seq(S)
  <2> HIDE DEF S
  <2>1. <<s>> \in Seq(S) /\ <<t>> \in Seq(S)
    BY <1>1
  <2>2. <<s>> \o <<t>> = <<s, t>>
    BY <1>1, TwoIs
  <2>3. <<s, t>> \in Seq(S)
    BY <1>1
  <2> QED
    BY <2>1, <2>2, <2>3
<1>3. Walk(kinds, kept, <<s>>, a, b) /\ Walk(kinds, kept, <<t>>, b, c)
  BY WalkOne
<1> QED
  BY <1>2, <1>3, WalkOn

\* Three steps make a walk.
LEMMA WalkThree ==
  ASSUME NEW kinds, Len(kinds) \in Nat, NEW kept, NEW s, NEW t, NEW u,
         NEW a \in Knowledge, NEW b \in Knowledge, NEW c \in Knowledge, NEW d \in Knowledge,
         Step(kinds, kept, a, s, b), Step(kinds, kept, b, t, c), Step(kinds, kept, c, u, d)
  PROVE  Walk(kinds, kept, <<s, t, u>>, a, d) /\ <<s, t, u>> \in Seq(Statement(1 .. Len(kinds)))
<1> DEFINE S == Statement(1 .. Len(kinds))
<1>1. s \in S /\ t \in S /\ u \in S
  BY DEF Step, Allowed
<1>2. Walk(kinds, kept, <<s, t>>, a, c)
  BY WalkTwo
<1>3. Walk(kinds, kept, <<u>>, c, d)
  BY WalkOne
<1>4. <<s, t>> \in Seq(S) /\ <<u>> \in Seq(S) /\ <<s, t>> \o <<u>> = <<s, t, u>> /\ <<s, t, u>> \in Seq(S)
  <2> HIDE DEF S
  <2>1. <<s, t>> \in Seq(S) /\ <<u>> \in Seq(S)
    BY <1>1
  <2>2. <<s, t>> \o <<u>> = <<s, t, u>>
    BY <1>1, ThreeIs
  <2>3. <<s, t, u>> \in Seq(S)
    BY <1>1
  <2> QED
    BY <2>1, <2>2, <2>3
<1> QED
  BY <1>2, <1>3, <1>4, WalkOn

\* What is known once the locals of S are dropped.
Dropped(st, S) == [l \in Nat |-> IF l \in S THEN "stale" ELSE st[l]]

\* The drops of different locals that hold something, or whose value is kept.
LEMMA WalkDrops ==
  ASSUME NEW kinds, Len(kinds) \in Nat, NEW kept, NEW ls \in Seq(1 .. Len(kinds)), NEW st \in Knowledge,
         Settled(st), \A i, j \in 1 .. Len(ls) : i # j => ls[i] # ls[j],
         \A i \in 1 .. Len(ls) : ls[i] \in kept \/ st[ls[i]] \in {"held", "zero"},
         NEW drops, drops = [i \in 1 .. Len(ls) |-> DropOf(ls[i])]
  PROVE  /\ Walk(kinds, kept, drops, st, Dropped(st, Range(ls) \ kept))
         /\ Dropped(st, Range(ls) \ kept) \in Knowledge
         /\ drops \in Seq(Statement(1 .. Len(kinds)))
<1> DEFINE n == Len(ls)
           gone(i) == {ls[j] : j \in 1 .. i} \ kept
           f == [i \in 0 .. n |-> Dropped(st, gone(i))]
<1>0. n \in Nat /\ DOMAIN ls = 1 .. n /\ \A i \in 1 .. n : ls[i] \in 1 .. Len(kinds) /\ ls[i] \in Nat
  BY ElementOfSeq, LenProperties
<1>1. Len(drops) = n /\ DOMAIN drops = 1 .. n /\ \A i \in 1 .. n : drops[i] = DropOf(ls[i])
  BY <1>0
<1>2. \A S : Dropped(st, S) \in Knowledge /\ Settled(Dropped(st, S))
  BY DEF Dropped, Knowledge, Statuses, Settled
<1>3. f \in [0 .. n -> Knowledge]
  BY <1>2
<1>4. Weaker(st, f[0])
  <2>1. f[0] = Dropped(st, gone(0)) /\ gone(0) = {}
    BY <1>0
  <2> HIDE DEF f
  <2> QED
    BY <2>1 DEF Weaker, Dropped
<1>5. f[n] = Dropped(st, Range(ls) \ kept)
  <2>1. gone(n) = Range(ls) \ kept
    BY <1>0 DEF Range
  <2>2. f[n] = Dropped(st, gone(n))
    BY <1>0
  <2> HIDE DEF f, gone
  <2> QED
    BY <2>1, <2>2
<1>6. ASSUME NEW i \in 1 .. n PROVE Step(kinds, kept, f[i - 1], drops[i], f[i])
  <2> DEFINE a == Dropped(st, gone(i - 1))
             b == Dropped(st, gone(i))
             l == ls[i]
  <2>1. f[i - 1] = a /\ f[i] = b /\ drops[i] = DropOf(l) /\ l \in Nat /\ l \in 1 .. Len(kinds)
    BY <1>0, <1>1
  <2>2. gone(i) = gone(i - 1) \cup ({l} \ kept)
    <3>1. 1 .. i = (1 .. i - 1) \cup {i}
      BY <1>0
    <3> QED
      BY <3>1
  <2>3. l \notin gone(i - 1)
    BY <1>0
  <2>4. DropOf(l) \in Statement(1 .. Len(kinds)) /\ DropOf(l).op = "Drop" /\ DropOf(l).local = l
    BY <2>1 DEF DropOf, Statement
  <2>5. a \in Knowledge /\ b \in Knowledge /\ Settled(a)
    BY <1>2
  <2>6. a[l] = st[l] /\ (l \in kept \/ st[l] \in {"held", "zero"})
    BY <2>1, <2>3 DEF Dropped
  <2> HIDE DEF l
  <2>7. Allowed(kinds, kept, a, DropOf(l))
    <3> HIDE DEF a, b, gone
    <3> QED
      BY <2>4, <2>5, <2>6 DEF Allowed
  <2>8. Learned(kinds, kept, a, DropOf(l)) = b
    <3>1. CASE l \in kept
      <4>1. gone(i) = gone(i - 1)
        BY <2>2, <3>1
      <4>2. a = b
        BY <4>1
      <4> HIDE DEF a, b, gone
      <4> QED
        BY <2>4, <3>1, <4>2 DEF Learned
    <3>2. CASE l \notin kept
      <4>1. Learned(kinds, kept, a, DropOf(l)) = Put(a, l, "stale")
        <5> HIDE DEF a, b, gone
        <5> QED
          BY <2>4, <3>2 DEF Learned
      <4>2. gone(i) = gone(i - 1) \cup {l}
        BY <2>2, <3>2
      <4> HIDE DEF gone
      <4>3. Put(a, l, "stale") = b
        BY <2>1, <4>2 DEF Put, Dropped
      <4> QED
        BY <4>1, <4>3
    <3> QED
      BY <3>1, <3>2
  <2> HIDE DEF a, b
  <2>9. Step(kinds, kept, a, DropOf(l), b)
    BY <2>5, <2>7, <2>8, WeakerIs DEF Step
  <2> QED
    BY <2>1, <2>9
<1>7. drops \in Seq(Statement(1 .. Len(kinds)))
  <2> DEFINE S == Statement(1 .. Len(kinds))
  <2>1. \A i \in 1 .. n : DropOf(ls[i]) \in S
    BY <1>0 DEF DropOf, Statement
  <2> HIDE DEF S
  <2>2. drops \in Seq(S)
    BY <1>0, <2>1
  <2> QED
    BY <2>2 DEF S
<1> HIDE DEF f
<1> QED
  BY <1>1, <1>2, <1>3, <1>4, <1>5, <1>6, <1>7 DEF Walk

-----------------------------------------------------------------------------
(* Contexts *)

\* A block of a body that is being lowered.
MirBlock == [stmts : Seq(Statement(Nat)), term : Terminator(Nat, Nat)]

\* The contexts of lowering.
Context ==
  [blocks : Seq(MirBlock), cur : Nat, kinds : Seq({"string", "record"}), owned : Seq(Nat),
   scopes : Seq(Nat), loops : Seq([break : Nat, continue : Nat, drop : Nat]), names : [Names -> Nat]]

\* A block just made.
Empty == [stmts |-> <<>>, term |-> Placeholder]
\* Blocks just made.
Fresh(n) == [i \in 1 .. n |-> Empty]

\* d is c with other blocks, another current block and other kinds.
Edited(c, d, blocks, cur, kinds) ==
  /\ d \in Context /\ d.blocks = blocks /\ d.cur = cur /\ d.kinds = kinds
  /\ d.owned = c.owned /\ d.scopes = c.scopes /\ d.loops = c.loops /\ d.names = c.names

\* A context is the record of its fields.
LEMMA RecordIs ==
  ASSUME NEW A, NEW B, NEW C, NEW D, NEW E, NEW F, NEW G,
         NEW c \in [blocks : A, cur : B, kinds : C, owned : D, scopes : E, loops : F, names : G]
  PROVE  c = [blocks |-> c.blocks, cur |-> c.cur, kinds |-> c.kinds, owned |-> c.owned,
              scopes |-> c.scopes, loops |-> c.loops, names |-> c.names]
OBVIOUS

\* Contexts with the same fields are the same.
LEMMA ContextEqual ==
  ASSUME NEW c \in Context, NEW d \in Context, c.blocks = d.blocks, c.cur = d.cur, c.kinds = d.kinds,
         c.owned = d.owned, c.scopes = d.scopes, c.loops = d.loops, c.names = d.names
  PROVE  c = d
<1>1. c = [blocks |-> c.blocks, cur |-> c.cur, kinds |-> c.kinds, owned |-> c.owned,
           scopes |-> c.scopes, loops |-> c.loops, names |-> c.names]
  BY RecordIs DEF Context
<1>2. d = [blocks |-> d.blocks, cur |-> d.cur, kinds |-> d.kinds, owned |-> d.owned,
           scopes |-> d.scopes, loops |-> d.loops, names |-> d.names]
  BY RecordIs DEF Context
<1> QED
  BY <1>1, <1>2

\* c with the statements x in block b.
SetStmts(c, b, x) == [c EXCEPT !.blocks[b].stmts = x]

\* Changing one field of a block is changing the block.
LEMMA StmtsEdited ==
  ASSUME NEW c \in Context, NEW b \in DOMAIN c.blocks, c.blocks[b] \in MirBlock, NEW x
  PROVE  SetStmts(c, b, x) =
           [c EXCEPT !.blocks = Put(c.blocks, b, [stmts |-> x, term |-> c.blocks[b].term])]
<1> DEFINE S == Seq(Statement(Nat))
           T == Terminator(Nat, Nat)
           B == Seq(MirBlock)
           K == Seq({"string", "record"})
           L == Seq([break : Nat, continue : Nat, drop : Nat])
           N == [Names -> Nat]
           O == Seq(Nat)
           U == Nat
<1>1. c \in [blocks : B, cur : U, kinds : K, owned : O, scopes : O, loops : L, names : N]
  BY DEF Context
<1>2. c.blocks[b] \in [stmts : S, term : T]
  BY DEF MirBlock
<1> HIDE DEF S, T, B, K, L, N, O, U
<1> QED
  BY <1>1, <1>2 DEF Put, SetStmts

\* Setting a terminator changes one block.
LEMMA TermEdited ==
  ASSUME NEW c \in Context, NEW b \in DOMAIN c.blocks, c.blocks[b] \in MirBlock, NEW x
  PROVE  Term(c, b, x) =
           [c EXCEPT !.blocks = Put(c.blocks, b, [stmts |-> c.blocks[b].stmts, term |-> x])]
<1> DEFINE S == Seq(Statement(Nat))
           T == Terminator(Nat, Nat)
           B == Seq(MirBlock)
           K == Seq({"string", "record"})
           L == Seq([break : Nat, continue : Nat, drop : Nat])
           N == [Names -> Nat]
           O == Seq(Nat)
           U == Nat
<1>1. c \in [blocks : B, cur : U, kinds : K, owned : O, scopes : O, loops : L, names : N]
  BY DEF Context
<1>2. c.blocks[b] \in [stmts : S, term : T]
  BY DEF MirBlock
<1> HIDE DEF S, T, B, K, L, N, O, U
<1> QED
  BY <1>1, <1>2 DEF Put, Term

\* What the fields of a context are.
LEMMA BlocksAre ==
  ASSUME NEW c \in Context
  PROVE  /\ Len(c.blocks) \in Nat /\ DOMAIN c.blocks = 1 .. Len(c.blocks)
         /\ Len(c.kinds) \in Nat /\ DOMAIN c.kinds = 1 .. Len(c.kinds)
         /\ Len(c.owned) \in Nat /\ DOMAIN c.owned = 1 .. Len(c.owned)
         /\ \A b \in DOMAIN c.blocks : /\ c.blocks[b].stmts \in Seq(Statement(Nat))
                                       /\ c.blocks[b].term \in Terminator(Nat, Nat)
<1>1. /\ c.blocks \in Seq(MirBlock) /\ c.kinds \in Seq({"string", "record"}) /\ c.owned \in Seq(Nat)
  BY DEF Context
<1>2. \A b \in 1 .. Len(c.blocks) : c.blocks[b] \in MirBlock
  BY <1>1, ElementOfSeq
<1> QED
  BY <1>1, <1>2, LenProperties DEF MirBlock

\* Setting the statements of a block changes that block only.
LEMMA StmtsSet ==
  ASSUME NEW c \in Context, NEW b \in DOMAIN c.blocks, NEW x \in Seq(Statement(Nat))
  PROVE  Edited(c, SetStmts(c, b, x), Put(c.blocks, b, [stmts |-> x, term |-> c.blocks[b].term]), c.cur, c.kinds)
<1> DEFINE block == [stmts |-> x, term |-> c.blocks[b].term]
           d == SetStmts(c, b, x)
<1>1. c.blocks \in Seq(MirBlock) /\ b \in 1 .. Len(c.blocks) /\ c.blocks[b] \in MirBlock
  BY LenProperties, ElementOfSeq DEF Context
<1>2. block \in MirBlock
  BY <1>1 DEF MirBlock
<1>3. d = [c EXCEPT !.blocks = Put(c.blocks, b, block)]
  BY <1>1, StmtsEdited
<1>4. Put(c.blocks, b, block) \in Seq(MirBlock)
  <2> HIDE DEF block
  <2> QED
    BY <1>1, <1>2, ExceptSeq DEF Put
<1> HIDE DEF d, block
<1> QED
  BY <1>3, <1>4 DEF Edited, Context, block, d

\* Statements are pushed at the end of the current block.
LEMMA PushAllIs ==
  ASSUME NEW c \in Context, c.cur \in DOMAIN c.blocks, NEW stmts \in Seq(Statement(Nat))
  PROVE  Edited(c, PushAll(c, stmts),
                Put(c.blocks, c.cur, [stmts |-> c.blocks[c.cur].stmts \o stmts, term |-> c.blocks[c.cur].term]),
                c.cur, c.kinds)
<1>1. PushAll(c, stmts) = SetStmts(c, c.cur, c.blocks[c.cur].stmts \o stmts)
  BY DEF PushAll, SetStmts
<1>2. c.blocks[c.cur].stmts \o stmts \in Seq(Statement(Nat))
  BY BlocksAre, ConcatProperties
<1> QED
  BY <1>1, <1>2, StmtsSet

\* Setting a terminator changes that block only.
LEMMA TermSets ==
  ASSUME NEW c \in Context, NEW b \in DOMAIN c.blocks, NEW t \in Terminator(Nat, Nat)
  PROVE  Edited(c, Term(c, b, t), Put(c.blocks, b, [stmts |-> c.blocks[b].stmts, term |-> t]), c.cur, c.kinds)
<1> DEFINE block == [stmts |-> c.blocks[b].stmts, term |-> t]
           d == Term(c, b, t)
<1>1. c.blocks \in Seq(MirBlock) /\ b \in 1 .. Len(c.blocks) /\ c.blocks[b] \in MirBlock
  BY LenProperties, ElementOfSeq DEF Context
<1>2. block \in MirBlock
  BY <1>1 DEF MirBlock
<1>3. d = [c EXCEPT !.blocks = Put(c.blocks, b, block)]
  BY <1>1, TermEdited
<1>4. Put(c.blocks, b, block) \in Seq(MirBlock)
  <2> HIDE DEF block
  <2> QED
    BY <1>1, <1>2, ExceptSeq DEF Put
<1> HIDE DEF d, block
<1> QED
  BY <1>3, <1>4 DEF Edited, Context, block, d

\* Moving on changes the current block only.
LEMMA AtIs ==
  ASSUME NEW c \in Context, NEW b \in Nat
  PROVE  Edited(c, At(c, b), c.blocks, b, c.kinds)
BY DEF Edited, Context, At

\* A new local is the last one.
LEMMA AllocLocalIs ==
  ASSUME NEW c \in Context, NEW kind \in {"string", "record"}
  PROVE  Edited(c, AllocLocal(c, kind), c.blocks, c.cur, Append(c.kinds, kind))
<1>1. Append(c.kinds, kind) \in Seq({"string", "record"})
  BY AppendProperties DEF Context
<1> QED
  BY <1>1 DEF Edited, Context, AllocLocal

\* The elements of two sequences in a row.
LEMMA ConcatIs ==
  ASSUME NEW S, NEW p \in Seq(S), NEW f \in Seq(S)
  PROVE  /\ p \o f \in Seq(S) /\ Len(p \o f) = Len(p) + Len(f)
         /\ DOMAIN (p \o f) = 1 .. Len(p) + Len(f)
         /\ \A j \in 1 .. Len(p) : (p \o f)[j] = p[j]
         /\ \A j \in 1 .. Len(f) : (p \o f)[Len(p) + j] = f[j]
OBVIOUS

\* New blocks are empty.
LEMMA FreshIs ==
  ASSUME NEW n \in Nat
  PROVE  Len(Fresh(n)) = n /\ Fresh(n) \in Seq({Empty}) /\ \A i \in 1 .. n : Fresh(n)[i] = Empty
<1>1. Fresh(n) \in [1 .. n -> {Empty}] /\ \A i \in 1 .. n : Fresh(n)[i] = Empty
  BY DEF Fresh
<1>2. Fresh(n) \in Seq({Empty})
  BY <1>1, SeqDef
<1> QED
  BY <1>1, <1>2

\* New blocks come after the blocks there are.
LEMMA AllocBbsIs ==
  ASSUME NEW c \in Context, NEW n \in Nat
  PROVE  Edited(c, AllocBbs(c, n), c.blocks \o Fresh(n), c.cur, c.kinds)
<1>1. Empty \in MirBlock
  <2>1. Placeholder \in Terminator(Nat, Nat)
    BY DEF Terminator
  <2>2. <<>> \in Seq(Statement(Nat))
    BY EmptySeq
  <2> QED
    BY <2>1, <2>2 DEF MirBlock, Empty
<1>2. Fresh(n) \in Seq(MirBlock)
  <2>1. Fresh(n) \in [1 .. n -> MirBlock]
    BY <1>1 DEF Fresh
  <2> QED
    BY <2>1, SeqDef
<1>3. c.blocks \o Fresh(n) \in Seq(MirBlock)
  BY <1>2, ConcatProperties DEF Context
<1>4. AllocBbs(c, n) = [c EXCEPT !.blocks = c.blocks \o Fresh(n)]
  BY DEF AllocBbs, Fresh, Empty
<1> DEFINE x == c.blocks \o Fresh(n)
<1> HIDE DEF x
<1>5. AllocBbs(c, n) = [c EXCEPT !.blocks = x] /\ x \in Seq(MirBlock)
  BY <1>3, <1>4 DEF x
<1>6. Edited(c, AllocBbs(c, n), x, c.cur, c.kinds)
  BY <1>5 DEF Edited, Context
<1> QED
  BY <1>6 DEF x

\* A fresh block is a block more.
LEMMA AllocBbIs ==
  ASSUME NEW c \in Context
  PROVE  AllocBb(c) = AllocBbs(c, 1)
<1>1. Empty \in {Empty} /\ Append(c.blocks, Empty) = c.blocks \o <<Empty>>
  <2>1. c.blocks \in Seq(MirBlock \cup {Empty})
    BY SeqMonotonic DEF Context
  <2> QED
    BY <2>1, AppendIsConcat
<1>2. Fresh(1) = <<Empty>>
  <2>1. Fresh(1) \in Seq({Empty}) /\ <<Empty>> \in Seq({Empty}) /\ Len(Fresh(1)) = 1 /\ Fresh(1)[1] = Empty
    BY DEF Fresh
  <2>2. \A i \in 1 .. 1 : Fresh(1)[i] = <<Empty>>[i]
    BY <2>1
  <2> QED
    BY <2>1, <2>2, SeqEqual
<1> QED
  BY <1>1, <1>2 DEF AllocBb, AllocBbs, Fresh, Empty

-----------------------------------------------------------------------------
(* Graphs *)

\* A block flows from what E says is known at its start.
Flowing(kinds, blocks, E, b) ==
  /\ blocks[b].term \in Terminator(1 .. Len(kinds), 1 .. Len(blocks))
  /\ BlockFlows(kinds, E, blocks[b], E[b])

(***************************************************************************)
(* The blocks of a body that is being lowered.  st: what is known at the   *)
(* current point, whichever values of K are kept.  W: the blocks that wait *)
(* for control to reach them.                                              *)
(***************************************************************************)
Graph(c, E, st, W, K) ==
  /\ c \in Context /\ E \in [Nat -> Knowledge] /\ st \in Knowledge /\ c.kinds # <<>>
  /\ c.cur \in DOMAIN c.blocks /\ c.cur \notin W /\ W \subseteq DOMAIN c.blocks
  /\ \A b \in DOMAIN c.blocks : Flowing(c.kinds, c.blocks, E, b)
  /\ c.blocks[c.cur].term = Placeholder /\ \A b \in W : c.blocks[b] = Empty
  /\ \A b \in DOMAIN c.blocks : b \notin W /\ b # c.cur => c.blocks[b].term # Placeholder
  /\ \A kept \in SUBSET K : Walk(c.kinds, kept, c.blocks[c.cur].stmts, E[c.cur], st)
  /\ Weaker(Holding({1}), E[Entry])

\* What the graph says nothing of stays the same.
Keeps(c, d) ==
  /\ d \in Context
  /\ d.owned = c.owned /\ d.scopes = c.scopes /\ d.loops = c.loops /\ d.names = c.names

\* A block without a terminator leads nowhere and promises nothing.
LEMMA PlaceholderIs ==
  /\ \A A, B : Placeholder \in Terminator(A, B)
  /\ Kept(Placeholder) = {}
  /\ \A E, st : Leads(E, Placeholder, st)
<1>1. Placeholder.op = "Unreachable"
  BY DEF Placeholder
<1>2. Kept(Placeholder) = {}
  BY <1>1 DEF Kept, Values, Range
<1>3. \A E, st : Leads(E, Placeholder, st)
  BY <1>1 DEF Leads
<1> QED
  BY <1>2, <1>3 DEF Terminator

\* A terminator stays one when there are more locals and blocks.
LEMMA TerminatorMore ==
  ASSUME NEW A, NEW B, NEW C, NEW D, A \subseteq C, B \subseteq D, NEW t \in Terminator(A, B)
  PROVE  t \in Terminator(C, D)
<1>1. CASE t \in [op : {"Goto", "If"}, to : SUBSET B]
  BY <1>1 DEF Terminator
<1>2. CASE t \in [op : {"IfNull"}, local : A, null : B, present : B, to : SUBSET B]
  BY <1>2 DEF Terminator
<1>3. CASE t \in [op : {"Call"}, arg : A, to : SUBSET B]
  BY <1>3 DEF Terminator
<1>4. CASE t \in [op : {"CallNullable"}, dest : A, to : SUBSET B]
  BY <1>4 DEF Terminator
<1>5. CASE t \in [op : {"Return"}, values : {<<>>} \cup {<<l>> : l \in A}, to : {{}}]
  <2>1. {<<l>> : l \in A} \subseteq {<<l>> : l \in C}
    OBVIOUS
  <2> QED
    BY <1>5, <2>1 DEF Terminator
<1>6. CASE t = Placeholder
  BY <1>6, PlaceholderIs
<1> QED
  BY <1>1, <1>2, <1>3, <1>4, <1>5, <1>6 DEF Terminator

\* What is known at blocks a terminator does not lead to does not matter.
LEMMA LeadsSame ==
  ASSUME NEW A, NEW B, NEW t \in Terminator(A, B), NEW E, NEW E2, \A b \in B : E2[b] = E[b],
         NEW st, Leads(E, t, st)
  PROVE  Leads(E2, t, st)
<1>1. /\ t.op \in {"Goto", "If"} => t.to \subseteq B
      /\ t.op = "Call" => t.to \subseteq B
      /\ t.op = "CallNullable" => t.to \subseteq B
      /\ t.op = "IfNull" => t.null \in B /\ t.present \in B
  BY TermIs
<1> QED
  BY <1>1 DEF Leads

\* A block with no statements and no end flows.
LEMMA EmptyFlows ==
  ASSUME NEW kinds, NEW blocks, NEW E, NEW b, blocks[b] = Empty, E[b] \in Knowledge
  PROVE  Flowing(kinds, blocks, E, b)
<1>1. Walk(kinds, {}, <<>>, E[b], E[b])
  BY WeakerIs, WalkNone
<1>2. <<>> \in Seq(Statement(1 .. Len(kinds)))
  BY EmptySeq
<1>3. blocks[b].stmts = <<>> /\ blocks[b].term = Placeholder
  BY DEF Empty
<1> QED
  BY <1>1, <1>2, <1>3, PlaceholderIs DEF Flowing, BlockFlows

\* A statement stays one when there are more locals.
LEMMA StatementMore ==
  ASSUME NEW n \in Nat, NEW stmts \in Seq(Statement(1 .. n))
  PROVE  stmts \in Seq(Statement(Nat))
<1>1. Statement(1 .. n) \subseteq Statement(Nat)
  <2>1. 1 .. n \subseteq Nat
    OBVIOUS
  <2> QED
    BY <2>1 DEF Statement
<1> QED
  BY <1>1, SeqMonotonic

\* The same walk, whichever values of K are kept.
Walks(kinds, K, stmts, from, to) == \A kept \in SUBSET K : Walk(kinds, kept, stmts, from, to)

\* d is c with more statements in the current block.
Pushes(c, d, E, st, W, K) ==
  /\ Graph(d, E, st, W, K) /\ Keeps(c, d)
  /\ d.kinds = c.kinds /\ d.cur = c.cur /\ Len(d.blocks) = Len(c.blocks)

\* Pushing what the current block may do keeps the flow equations.
LEMMA GraphPush ==
  ASSUME NEW c, NEW E, NEW st, NEW W, NEW K, Graph(c, E, st, W, K),
         NEW stmts \in Seq(Statement(1 .. Len(c.kinds))), NEW st2 \in Knowledge,
         Walks(c.kinds, K, stmts, st, st2)
  PROVE  Pushes(c, PushAll(c, stmts), E, st2, W, K)
<1> DEFINE d == PushAll(c, stmts)
           old == c.blocks[c.cur].stmts
           block == [stmts |-> old \o stmts, term |-> Placeholder]
<1>1. /\ c \in Context /\ E \in [Nat -> Knowledge] /\ st \in Knowledge /\ c.cur \in DOMAIN c.blocks
      /\ c.blocks[c.cur].term = Placeholder
      /\ \A kept \in SUBSET K : Walk(c.kinds, kept, old, E[c.cur], st)
      /\ \A b \in DOMAIN c.blocks : Flowing(c.kinds, c.blocks, E, b)
  BY DEF Graph
<1>2. /\ Len(c.blocks) \in Nat /\ DOMAIN c.blocks = 1 .. Len(c.blocks) /\ Len(c.kinds) \in Nat
      /\ c.blocks \in Seq(MirBlock) /\ c.cur \in Nat /\ E[c.cur] \in Knowledge
  BY <1>1, BlocksAre DEF Context
<1>3. stmts \in Seq(Statement(Nat)) /\ old \in Seq(Statement(1 .. Len(c.kinds)))
  BY <1>1, <1>2, StatementMore DEF Flowing, BlockFlows
<1>4. Edited(c, d, Put(c.blocks, c.cur, block), c.cur, c.kinds)
  BY <1>1, <1>3, PushAllIs
<1> HIDE DEF d, block, old
<1>5. /\ d \in Context /\ d.cur = c.cur /\ d.kinds = c.kinds /\ Keeps(c, d) /\ Len(d.blocks) = Len(c.blocks)
      /\ DOMAIN d.blocks = DOMAIN c.blocks /\ d.blocks[c.cur] = block
      /\ \A b \in DOMAIN c.blocks : b # c.cur => d.blocks[b] = c.blocks[b]
  BY <1>1, <1>2, <1>4 DEF Edited, Keeps, Put
<1>6. block.stmts = old \o stmts /\ block.term = Placeholder
  BY DEF block
<1>7. ASSUME NEW kept \in SUBSET K PROVE Walk(c.kinds, kept, old \o stmts, E[c.cur], st2)
  <2> DEFINE S == Statement(1 .. Len(c.kinds))
  <2>1. Walk(c.kinds, kept, old, E[c.cur], st) /\ Walk(c.kinds, kept, stmts, st, st2)
    BY <1>1, <1>7 DEF Walks
  <2>2. old \in Seq(S) /\ stmts \in Seq(S) /\ S = Statement(1 .. Len(c.kinds))
    BY <1>3
  <2> HIDE DEF S
  <2> QED
    BY <1>1, <1>2, <2>1, <2>2, WalkOn
<1>8. old \o stmts \in Seq(Statement(1 .. Len(c.kinds)))
  BY <1>3, ConcatProperties
<1>9. Flowing(d.kinds, d.blocks, E, c.cur)
  BY <1>5, <1>6, <1>7, <1>8, PlaceholderIs DEF Flowing, BlockFlows
<1>10. ASSUME NEW b \in DOMAIN c.blocks PROVE Flowing(d.kinds, d.blocks, E, b)
  BY <1>1, <1>5, <1>9, <1>10 DEF Flowing
<1>11. Graph(d, E, st2, W, K)
  BY <1>1, <1>5, <1>6, <1>7, <1>10 DEF Graph
<1> QED
  BY <1>5, <1>11 DEF d, Pushes

\* A new local keeps the flow equations: nothing is known of it.
LEMMA GraphLocal ==
  ASSUME NEW c, NEW E, NEW st, NEW W, NEW K, Graph(c, E, st, W, K), NEW kind \in {"string", "record"},
         NEW K2, K2 \cap 1 .. Len(c.kinds) \subseteq K
  PROVE  /\ Graph(AllocLocal(c, kind), E, st, W, K2) /\ Keeps(c, AllocLocal(c, kind))
         /\ AllocLocal(c, kind).kinds = Append(c.kinds, kind) /\ AllocLocal(c, kind).cur = c.cur
         /\ Len(AllocLocal(c, kind).blocks) = Len(c.blocks)
         /\ Len(AllocLocal(c, kind).kinds) = Len(c.kinds) + 1
<1> DEFINE d == AllocLocal(c, kind)
           n == Len(c.kinds)
<1>1. /\ c \in Context /\ E \in [Nat -> Knowledge] /\ c.cur \in DOMAIN c.blocks
      /\ \A kept \in SUBSET K : Walk(c.kinds, kept, c.blocks[c.cur].stmts, E[c.cur], st)
      /\ \A b \in DOMAIN c.blocks : Flowing(c.kinds, c.blocks, E, b)
  BY DEF Graph
<1>2. /\ c.kinds \in Seq({"string", "record"}) /\ n \in Nat /\ DOMAIN c.kinds = 1 .. n
  BY <1>1, BlocksAre DEF Context
<1>3. Edited(c, d, c.blocks, c.cur, Append(c.kinds, kind))
  BY <1>1, AllocLocalIs
<1>4. /\ d.kinds = Append(c.kinds, kind) /\ d.cur = c.cur /\ d.blocks = c.blocks /\ Keeps(c, d)
      /\ Len(d.kinds) = n + 1 /\ d.kinds # <<>> /\ \A i \in 1 .. n : d.kinds[i] = c.kinds[i]
  BY <1>2, <1>3, AppendProperties DEF Edited, Keeps
<1> HIDE DEF d
<1>5. ASSUME NEW stmts \in Seq(Statement(1 .. n)), NEW kept, NEW kept2, NEW from, NEW to,
             Walk(c.kinds, kept, stmts, from, to), kept2 \cap 1 .. n = kept \cap 1 .. n
      PROVE  Walk(d.kinds, kept2, stmts, from, to) /\ stmts \in Seq(Statement(1 .. Len(d.kinds)))
  <2>1. n \in Nat /\ Len(d.kinds) \in Nat /\ n <= Len(d.kinds)
    BY <1>2, <1>4
  <2> QED
    BY <1>4, <1>5, <2>1, WalkMore
<1>6. ASSUME NEW b \in DOMAIN d.blocks PROVE Flowing(d.kinds, d.blocks, E, b)
  <2> DEFINE t == c.blocks[b].term
  <2>1. t \in Terminator(1 .. n, 1 .. Len(c.blocks)) /\ BlockFlows(c.kinds, E, c.blocks[b], E[b])
    BY <1>1, <1>4, <1>6 DEF Flowing
  <2>2. PICK to \in Knowledge : Walk(c.kinds, Kept(t), c.blocks[b].stmts, E[b], to) /\ Leads(E, t, to)
    BY <2>1 DEF BlockFlows
  <2>3. c.blocks[b].stmts \in Seq(Statement(1 .. n))
    BY <2>1 DEF BlockFlows
  <2>4. /\ Walk(d.kinds, Kept(t), c.blocks[b].stmts, E[b], to)
        /\ c.blocks[b].stmts \in Seq(Statement(1 .. Len(d.kinds)))
    BY <1>5, <2>2, <2>3
  <2>5. 1 .. n \subseteq 1 .. Len(d.kinds)
    BY <1>2, <1>4
  <2>6. t \in Terminator(1 .. Len(d.kinds), 1 .. Len(d.blocks))
    BY <1>4, <2>1, <2>5, TerminatorMore
  <2> QED
    BY <1>4, <2>2, <2>4, <2>6 DEF Flowing, BlockFlows
<1>7. ASSUME NEW kept \in SUBSET K2 PROVE Walk(d.kinds, kept, d.blocks[d.cur].stmts, E[d.cur], st)
  <2>1. kept \cap 1 .. n \in SUBSET K
    OBVIOUS
  <2>2. Walk(c.kinds, kept \cap 1 .. n, c.blocks[c.cur].stmts, E[c.cur], st)
    BY <1>1, <2>1
  <2>3. c.blocks[c.cur].stmts \in Seq(Statement(1 .. n))
    BY <1>1 DEF Flowing, BlockFlows
  <2>4. kept \cap 1 .. n = (kept \cap 1 .. n) \cap 1 .. n
    OBVIOUS
  <2> QED
    BY <1>4, <1>5, <2>2, <2>3, <2>4
<1>8. d \in Context
  BY <1>4 DEF Keeps
<1>9. Graph(d, E, st, W, K2)
  BY <1>4, <1>6, <1>7, <1>8 DEF Graph
<1> QED
  BY <1>4, <1>9 DEF d

\* The next n blocks of c.
Later(c, n) == Len(c.blocks) + 1 .. Len(c.blocks) + n

\* d is c with n blocks more.
Adds(c, d, E, st, n, W, K) ==
  /\ Graph(d, E, st, W \cup Later(c, n), K)
  /\ Keeps(c, d) /\ d.kinds = c.kinds /\ d.cur = c.cur /\ Len(d.blocks) = Len(c.blocks) + n

\* New blocks keep the flow equations: nothing leads to them yet.
LEMMA GraphBlocks ==
  ASSUME NEW c, NEW E, NEW st, NEW W, NEW K, Graph(c, E, st, W, K), NEW n \in Nat,
         NEW E2 \in [Nat -> Knowledge], \A b \in DOMAIN c.blocks : E2[b] = E[b]
  PROVE  Adds(c, AllocBbs(c, n), E2, st, n, W, K)
<1> DEFINE d == AllocBbs(c, n)
           m == Len(c.blocks)
           more == m + 1 .. m + n
<1>1. /\ c \in Context /\ E \in [Nat -> Knowledge] /\ c.cur \in DOMAIN c.blocks /\ c.cur \notin W
      /\ W \subseteq DOMAIN c.blocks
      /\ \A b \in DOMAIN c.blocks : Flowing(c.kinds, c.blocks, E, b)
      /\ Weaker(Holding({1}), E[Entry])
  BY DEF Graph
<1>2. c.blocks \in Seq(MirBlock) /\ m \in Nat /\ DOMAIN c.blocks = 1 .. m
  BY <1>1, BlocksAre DEF Context
<1>3. Edited(c, d, c.blocks \o Fresh(n), c.cur, c.kinds)
  BY <1>1, AllocBbsIs
<1>4. Len(Fresh(n)) = n /\ Fresh(n) \in Seq({Empty}) /\ \A i \in 1 .. n : Fresh(n)[i] = Empty
  BY FreshIs
<1> HIDE DEF d
<1>5. d.blocks = c.blocks \o Fresh(n) /\ d.cur = c.cur /\ d.kinds = c.kinds /\ Keeps(c, d) /\ d \in Context
  BY <1>3 DEF Edited, Keeps
<1>6. /\ Len(d.blocks) = m + n /\ DOMAIN d.blocks = 1 .. m + n
      /\ \A b \in 1 .. m : d.blocks[b] = c.blocks[b]
      /\ \A b \in more : d.blocks[b] = Empty
  <2> DEFINE S == MirBlock \cup {Empty}
             x == c.blocks \o Fresh(n)
  <2>1. c.blocks \in Seq(S) /\ Fresh(n) \in Seq(S)
    BY <1>2, <1>4, SeqMonotonic
  <2> HIDE DEF S
  <2>2. /\ Len(x) = Len(c.blocks) + Len(Fresh(n)) /\ DOMAIN x = 1 .. Len(c.blocks) + Len(Fresh(n))
        /\ \A b \in 1 .. Len(c.blocks) : x[b] = c.blocks[b]
        /\ \A b \in 1 .. Len(Fresh(n)) : x[Len(c.blocks) + b] = Fresh(n)[b]
    BY <2>1, ConcatIs
  <2> HIDE DEF x
  <2>3. Len(x) = m + n /\ DOMAIN x = 1 .. m + n /\ \A b \in 1 .. m : x[b] = c.blocks[b]
    BY <1>4, <2>2
  <2>4. ASSUME NEW b \in more PROVE x[b] = Empty
    <3>1. b - m \in 1 .. n /\ b = m + (b - m)
      BY <1>2
    <3>2. x[m + (b - m)] = Fresh(n)[b - m]
      BY <1>4, <2>2, <3>1
    <3> QED
      BY <1>4, <3>1, <3>2
  <2> QED
    BY <1>5, <2>3, <2>4 DEF x
<1>7. ASSUME NEW b \in DOMAIN d.blocks PROVE Flowing(d.kinds, d.blocks, E2, b)
  <2>1. CASE b \in more
    <3>1. E2[b] \in Knowledge /\ d.blocks[b] = Empty
      BY <1>2, <1>6, <2>1
    <3> QED
      BY <3>1, EmptyFlows
  <2>2. CASE b \in 1 .. m
    <3> DEFINE t == c.blocks[b].term
    <3>1. t \in Terminator(1 .. Len(c.kinds), 1 .. m) /\ BlockFlows(c.kinds, E, c.blocks[b], E[b])
      BY <1>1, <1>2, <2>2 DEF Flowing
    <3>2. PICK to \in Knowledge : Walk(c.kinds, Kept(t), c.blocks[b].stmts, E[b], to) /\ Leads(E, t, to)
      BY <3>1 DEF BlockFlows
    <3>3. \A i \in 1 .. m : E2[i] = E[i]
      BY <1>2
    <3>4. Leads(E2, t, to)
      <4> HIDE DEF t
      <4> QED
        BY <3>1, <3>2, <3>3, LeadsSame
    <3>5. 1 .. m \subseteq 1 .. m + n
      BY <1>2
    <3>6. t \in Terminator(1 .. Len(d.kinds), 1 .. Len(d.blocks))
      BY <1>5, <1>6, <3>1, <3>5, TerminatorMore
    <3>7. c.blocks[b].stmts \in Seq(Statement(1 .. Len(c.kinds)))
      BY <3>1 DEF BlockFlows
    <3>8. d.blocks[b] = c.blocks[b] /\ E2[b] = E[b]
      BY <1>6, <2>2, <3>3
    <3> QED
      BY <1>5, <3>2, <3>4, <3>6, <3>7, <3>8 DEF Flowing, BlockFlows
  <2> QED
    BY <1>2, <1>6, <1>7, <2>1, <2>2
<1>8. E2[c.cur] = E[c.cur] /\ E2[Entry] = E[Entry] /\ d.blocks[c.cur] = c.blocks[c.cur]
  <2>1. 1 \in 1 .. m
    BY <1>1, <1>2
  <2> QED
    BY <1>1, <1>2, <1>6, <2>1 DEF Entry
<1>9. /\ d.cur \in DOMAIN d.blocks /\ d.cur \notin W \cup more /\ W \cup more \subseteq DOMAIN d.blocks
      /\ \A b \in W \cup more : d.blocks[b] = Empty
      /\ \A b \in DOMAIN d.blocks : b \notin W \cup more /\ b # d.cur => d.blocks[b].term # Placeholder
  BY <1>1, <1>2, <1>5, <1>6 DEF Graph
<1>10. Graph(d, E2, st, W \cup more, K)
  BY <1>5, <1>7, <1>8, <1>9 DEF Graph
<1> QED
  BY <1>5, <1>6, <1>10 DEF d, Adds, Later

\* d is c with other blocks, lowered up to the start of block b.
Moves(c, d, E, b, n, W, K) ==
  /\ Graph(d, E, E[b], W, K) /\ Keeps(c, d) /\ d.kinds = c.kinds /\ d.cur = b /\ Len(d.blocks) = n

\* The current block ends, and control goes on in one that waits.
LEMMA GraphGo ==
  ASSUME NEW c, NEW E, NEW st, NEW W, NEW K, Graph(c, E, st, W, K), NEW b \in W,
         NEW t \in Terminator(1 .. Len(c.kinds), 1 .. Len(c.blocks)), t # Placeholder, NEW to \in Knowledge,
         Walk(c.kinds, Kept(t), c.blocks[c.cur].stmts, E[c.cur], to), Leads(E, t, to), NEW K2
  PROVE  Moves(c, At(Term(c, c.cur, t), b), E, b, Len(c.blocks), W \ {b}, K2)
<1> DEFINE d == Term(c, c.cur, t)
           e == At(d, b)
           block == [stmts |-> c.blocks[c.cur].stmts, term |-> t]
<1>1. /\ c \in Context /\ E \in [Nat -> Knowledge] /\ c.cur \in DOMAIN c.blocks /\ c.cur \notin W
      /\ W \subseteq DOMAIN c.blocks /\ \A i \in W : c.blocks[i] = Empty
      /\ \A i \in DOMAIN c.blocks : Flowing(c.kinds, c.blocks, E, i)
      /\ Weaker(Holding({1}), E[Entry]) /\ c.kinds # <<>>
      /\ \A i \in DOMAIN c.blocks : i \notin W /\ i # c.cur => c.blocks[i].term # Placeholder
  BY DEF Graph
<1>2. /\ c.blocks \in Seq(MirBlock) /\ Len(c.blocks) \in Nat /\ DOMAIN c.blocks = 1 .. Len(c.blocks)
      /\ Len(c.kinds) \in Nat /\ b \in Nat
  BY <1>1, BlocksAre DEF Context
<1>3. t \in Terminator(Nat, Nat)
  <2>1. 1 .. Len(c.kinds) \subseteq Nat /\ 1 .. Len(c.blocks) \subseteq Nat
    BY <1>2
  <2> QED
    BY <2>1, TerminatorMore
<1>4. Edited(c, d, Put(c.blocks, c.cur, block), c.cur, c.kinds)
  BY <1>1, <1>3, TermSets
<1>5. d \in Context
  BY <1>4 DEF Edited
<1>6. Edited(d, e, d.blocks, b, d.kinds)
  BY <1>2, <1>5, AtIs
<1> HIDE DEF d, e, block
<1>7. /\ e \in Context /\ e.blocks = Put(c.blocks, c.cur, block) /\ e.cur = b /\ e.kinds = c.kinds /\ Keeps(c, e)
  BY <1>4, <1>6 DEF Edited, Keeps
<1>8. /\ Len(e.blocks) = Len(c.blocks) /\ DOMAIN e.blocks = DOMAIN c.blocks /\ e.blocks[c.cur] = block
      /\ \A i \in DOMAIN c.blocks : i # c.cur => e.blocks[i] = c.blocks[i]
  BY <1>1, <1>2, <1>7 DEF Put
<1>9. block.stmts = c.blocks[c.cur].stmts /\ block.term = t
  BY DEF block
<1>10. Flowing(e.kinds, e.blocks, E, c.cur)
  <2>1. c.blocks[c.cur].stmts \in Seq(Statement(1 .. Len(c.kinds)))
    BY <1>1 DEF Flowing, BlockFlows
  <2> QED
    BY <1>7, <1>8, <1>9, <2>1 DEF Flowing, BlockFlows
<1>11. ASSUME NEW i \in DOMAIN e.blocks PROVE Flowing(e.kinds, e.blocks, E, i)
  BY <1>1, <1>7, <1>8, <1>10, <1>11 DEF Flowing
<1>12. e.blocks[b] = Empty /\ b \in DOMAIN e.blocks /\ E[b] \in Knowledge
  BY <1>1, <1>2, <1>8
<1>13. ASSUME NEW kept \in SUBSET K2 PROVE Walk(e.kinds, kept, e.blocks[e.cur].stmts, E[e.cur], E[b])
  <2>1. e.blocks[e.cur].stmts = <<>>
    BY <1>7, <1>12 DEF Empty
  <2> QED
    BY <1>7, <1>12, <2>1, WalkNone, WeakerIs
<1>14. e.blocks[e.cur].term = Placeholder
  BY <1>7, <1>12 DEF Empty
<1>15. /\ e.cur \notin W \ {b} /\ W \ {b} \subseteq DOMAIN e.blocks /\ \A i \in W \ {b} : e.blocks[i] = Empty
       /\ \A i \in DOMAIN e.blocks : i \notin W \ {b} /\ i # e.cur => e.blocks[i].term # Placeholder
  BY <1>1, <1>7, <1>8, <1>9
<1>16. Graph(e, E, E[b], W \ {b}, K2)
  BY <1>1, <1>7, <1>11, <1>12, <1>13, <1>14, <1>15 DEF Graph
<1> QED
  BY <1>7, <1>8, <1>16 DEF d, e, Moves

\* The flow equations are about blocks, the current one and kinds.
LEMMA GraphSame ==
  ASSUME NEW c, NEW E, NEW st, NEW W, NEW K, Graph(c, E, st, W, K), NEW d \in Context,
         d.blocks = c.blocks, d.cur = c.cur, d.kinds = c.kinds
  PROVE  Graph(d, E, st, W, K)
BY DEF Graph

\* Less may be known, and less kept.
LEMMA GraphWeaker ==
  ASSUME NEW c, NEW E, NEW st, NEW W, NEW K, Graph(c, E, st, W, K),
         NEW less \in Knowledge, Weaker(st, less), NEW K2, K2 \subseteq K
  PROVE  Graph(c, E, less, W, K2)
<1>1. /\ c \in Context /\ E \in [Nat -> Knowledge] /\ st \in Knowledge /\ c.cur \in DOMAIN c.blocks
      /\ Flowing(c.kinds, c.blocks, E, c.cur)
      /\ \A kept \in SUBSET K : Walk(c.kinds, kept, c.blocks[c.cur].stmts, E[c.cur], st)
  BY DEF Graph
<1>2. Len(c.kinds) \in Nat /\ E[c.cur] \in Knowledge
  BY <1>1, BlocksAre DEF Context
<1>3. c.blocks[c.cur].stmts \in Seq(Statement(1 .. Len(c.kinds)))
  BY <1>1 DEF Flowing, BlockFlows
<1>4. ASSUME NEW kept \in SUBSET K2 PROVE Walk(c.kinds, kept, c.blocks[c.cur].stmts, E[c.cur], less)
  <2> DEFINE s == c.blocks[c.cur].stmts
  <2>1. Len(s) \in Nat /\ \A i \in 1 .. Len(s) : s[i] \in Statement(1 .. Len(c.kinds))
    BY <1>3, LenProperties, ElementOfSeq
  <2>2. Walk(c.kinds, kept, s, E[c.cur], st)
    BY <1>1
  <2> HIDE DEF s
  <2>3. Walk(c.kinds, kept, s, E[c.cur], less)
    BY <1>1, <1>2, <2>1, <2>2, WalkWeaker
  <2> QED
    BY <2>3 DEF s
<1> QED
  BY <1>4 DEF Graph

-----------------------------------------------------------------------------
(* Edits in another order *)

\* A sequence with one element replaced.
LEMMA PutAt ==
  ASSUME NEW S, NEW p \in Seq(S), NEW b \in 1 .. Len(p), NEW e \in S
  PROVE  /\ Put(p, b, e) \in Seq(S) /\ Len(Put(p, b, e)) = Len(p)
         /\ \A j \in 1 .. Len(p) : Put(p, b, e)[j] = IF j = b THEN e ELSE p[j]
BY ExceptSeq DEF Put

\* Changing p and appending f commute.
InEitherOrder(p, f, b, e) == Put(p, b, e) \o f = Put(p \o f, b, e)

\* Replacing an element and appending others commute.
LEMMA PutConcat ==
  ASSUME NEW S, NEW p \in Seq(S), NEW f \in Seq(S), NEW b \in 1 .. Len(p), NEW e \in S
  PROVE  InEitherOrder(p, f, b, e)
<1> DEFINE q == Put(p, b, e)
           x == p \o f
           r == Put(x, b, e)
<1>1. q \in Seq(S) /\ Len(q) = Len(p) /\ \A j \in 1 .. Len(p) : q[j] = IF j = b THEN e ELSE p[j]
  BY PutAt
<1>2. /\ x \in Seq(S) /\ Len(x) = Len(p) + Len(f) /\ b \in 1 .. Len(x)
      /\ \A j \in 1 .. Len(p) : x[j] = p[j]
      /\ \A j \in 1 .. Len(f) : x[Len(p) + j] = f[j]
  BY ConcatIs, LenProperties
<1> HIDE DEF x
<1>3. r \in Seq(S) /\ Len(r) = Len(x) /\ \A j \in 1 .. Len(x) : r[j] = IF j = b THEN e ELSE x[j]
  <2>1. x \in Seq(S) /\ b \in 1 .. Len(x) /\ e \in S
    BY <1>2
  <2>2. Put(x, b, e) \in Seq(S)
    BY <2>1, PutAt
  <2>3. Len(Put(x, b, e)) = Len(x)
    BY <2>1, PutAt
  <2>4. \A j \in 1 .. Len(x) : Put(x, b, e)[j] = IF j = b THEN e ELSE x[j]
    BY <2>1, PutAt
  <2> QED
    BY <2>2, <2>3, <2>4
<1> HIDE DEF q, r
<1>4. /\ q \o f \in Seq(S) /\ Len(q \o f) = Len(p) + Len(f)
      /\ \A j \in 1 .. Len(p) : (q \o f)[j] = q[j]
      /\ \A j \in 1 .. Len(f) : (q \o f)[Len(p) + j] = f[j]
  BY <1>1, ConcatIs, SMTT(20)
<1>5. ASSUME NEW i \in 1 .. Len(q \o f) PROVE (q \o f)[i] = r[i]
  <2>0. Len(p) \in Nat /\ Len(f) \in Nat
    BY LenProperties
  <2>1. r[i] = IF i = b THEN e ELSE x[i]
    BY <1>2, <1>3, <1>4
  <2>2. CASE i <= Len(p)
    <3>1. i \in 1 .. Len(p)
      BY <1>4, <2>0, <2>2
    <3> QED
      BY <1>1, <1>2, <1>4, <2>1, <3>1
  <2>3. CASE i > Len(p)
    <3>1. i - Len(p) \in 1 .. Len(f) /\ i = Len(p) + (i - Len(p)) /\ i # b
      BY <1>4, <2>0, <2>3
    <3>2. (q \o f)[Len(p) + (i - Len(p))] = f[i - Len(p)] /\ x[Len(p) + (i - Len(p))] = f[i - Len(p)]
      BY <1>2, <1>4, <3>1
    <3> QED
      BY <2>1, <3>1, <3>2
  <2> QED
    BY <1>4, <2>0, <2>2, <2>3
<1>6. q \o f = r
  BY <1>2, <1>3, <1>4, <1>5, SeqEqual
<1> QED
  BY <1>6 DEF q, r, x, InEitherOrder

\* Ending a block and making new ones commute.
LEMMA TermThenBlocks ==
  ASSUME NEW c \in Context, NEW b \in DOMAIN c.blocks, NEW t \in Terminator(Nat, Nat), NEW n \in Nat
  PROVE  AllocBbs(Term(c, b, t), n) = Term(AllocBbs(c, n), b, t)
<1> DEFINE m == Len(c.blocks)
           block == [stmts |-> c.blocks[b].stmts, term |-> t]
           x == AllocBbs(Term(c, b, t), n)
           y == Term(AllocBbs(c, n), b, t)
           u == Term(c, b, t)
           v == AllocBbs(c, n)
<1>1. c.blocks \in Seq(MirBlock) /\ m \in Nat /\ DOMAIN c.blocks = 1 .. m /\ Len(Fresh(n)) = n /\ Fresh(n) \in Seq({Empty})
  BY BlocksAre, FreshIs DEF Context
<1>2. Edited(c, u, Put(c.blocks, b, block), c.cur, c.kinds) /\ Edited(c, v, c.blocks \o Fresh(n), c.cur, c.kinds)
  BY TermSets, AllocBbsIs
<1>3. u \in Context /\ v \in Context /\ b \in DOMAIN v.blocks /\ v.blocks[b] = c.blocks[b]
  BY <1>1, <1>2 DEF Edited
<1>4. Edited(u, x, u.blocks \o Fresh(n), u.cur, u.kinds)
  BY <1>3, AllocBbsIs
<1>5. Edited(v, y, Put(v.blocks, b, [stmts |-> v.blocks[b].stmts, term |-> t]), v.cur, v.kinds)
  BY <1>3, TermSets
<1>6. /\ x \in Context /\ y \in Context
      /\ x.blocks = Put(c.blocks, b, block) \o Fresh(n) /\ y.blocks = Put(c.blocks \o Fresh(n), b, block)
      /\ x.cur = y.cur /\ x.kinds = y.kinds
      /\ x.owned = y.owned /\ x.scopes = y.scopes /\ x.loops = y.loops /\ x.names = y.names
  <2> HIDE DEF x, y, u, v
  <2> QED
    BY <1>2, <1>3, <1>4, <1>5 DEF Edited
<1> HIDE DEF x, y, block
<1>7. x.blocks = y.blocks
  <2> DEFINE S == MirBlock \cup {Empty, block}
  <2>1. c.blocks \in Seq(S) /\ Fresh(n) \in Seq(S) /\ b \in 1 .. Len(c.blocks) /\ block \in S
    BY <1>1, SeqMonotonic
  <2> HIDE DEF S
  <2>2. InEitherOrder(c.blocks, Fresh(n), b, block)
    BY <2>1, PutConcat
  <2> QED
    BY <1>6, <2>2 DEF InEitherOrder
<1>8. x = y
  BY <1>6, <1>7, ContextEqual
<1> QED
  BY <1>8 DEF x, y

\* Ending a block and pushing to it commute.
LEMMA PushThenTerm ==
  ASSUME NEW c \in Context, c.cur \in DOMAIN c.blocks, NEW t \in Terminator(Nat, Nat),
         NEW stmts \in Seq(Statement(Nat))
  PROVE  PushAll(Term(c, c.cur, t), stmts) = Term(PushAll(c, stmts), c.cur, t)
<1> DEFINE b == c.cur
           block == [stmts |-> c.blocks[b].stmts, term |-> t]
           block2 == [stmts |-> c.blocks[b].stmts \o stmts, term |-> c.blocks[b].term]
           block3 == [stmts |-> c.blocks[b].stmts \o stmts, term |-> t]
           u == Term(c, b, t)
           v == PushAll(c, stmts)
           x == PushAll(u, stmts)
           y == Term(v, b, t)
<1>1. b \in Nat /\ b \in DOMAIN c.blocks
  BY DEF Context
<1>2. Edited(c, u, Put(c.blocks, b, block), b, c.kinds) /\ Edited(c, v, Put(c.blocks, b, block2), b, c.kinds)
  BY TermSets, PushAllIs
<1>3. /\ u \in Context /\ v \in Context /\ u.cur = b /\ v.cur = b /\ b \in DOMAIN v.blocks /\ b \in DOMAIN u.blocks
      /\ u.blocks[b] = block /\ v.blocks[b] = block2
  BY <1>1, <1>2 DEF Edited, Put
<1>4. Edited(u, x, Put(u.blocks, b, [stmts |-> u.blocks[b].stmts \o stmts, term |-> u.blocks[b].term]), b, u.kinds)
  BY <1>3, PushAllIs
<1>5. Edited(v, y, Put(v.blocks, b, [stmts |-> v.blocks[b].stmts, term |-> t]), v.cur, v.kinds)
  BY <1>3, TermSets
<1>6. block.stmts = c.blocks[b].stmts /\ block.term = t /\ block2.stmts = c.blocks[b].stmts \o stmts
  OBVIOUS
<1>7. /\ x \in Context /\ y \in Context
      /\ x.blocks = Put(Put(c.blocks, b, block), b, block3) /\ y.blocks = Put(Put(c.blocks, b, block2), b, block3)
      /\ x.cur = y.cur /\ x.kinds = y.kinds
      /\ x.owned = y.owned /\ x.scopes = y.scopes /\ x.loops = y.loops /\ x.names = y.names
  <2> HIDE DEF x, y, u, v, block, block2
  <2> QED
    BY <1>2, <1>3, <1>4, <1>5, <1>6 DEF Edited
<1> HIDE DEF x, y, block, block2, block3
<1>8. x.blocks = y.blocks
  BY <1>7 DEF Put
<1>9. x = y
  BY <1>7, <1>8, ContextEqual
<1> QED
  BY <1>9 DEF x, y

\* Where lowering was does not matter to an edit of a block given by its index.
LEMMA AtThenTerm ==
  ASSUME NEW c \in Context, NEW a \in Nat, NEW b \in DOMAIN c.blocks, NEW t \in Terminator(Nat, Nat), NEW e \in Nat
  PROVE  At(Term(At(c, a), b, t), e) = At(Term(c, b, t), e)
<1> DEFINE u == At(c, a)
           v == Term(u, b, t)
           w == Term(c, b, t)
           x == At(v, e)
           y == At(w, e)
<1>1. Edited(c, u, c.blocks, a, c.kinds)
  BY AtIs
<1>2. Edited(c, w, Put(c.blocks, b, [stmts |-> c.blocks[b].stmts, term |-> t]), c.cur, c.kinds)
  BY TermSets
<1>3. u \in Context /\ w \in Context /\ b \in DOMAIN u.blocks
  BY <1>1, <1>2 DEF Edited
<1>4. Edited(u, v, Put(u.blocks, b, [stmts |-> u.blocks[b].stmts, term |-> t]), u.cur, u.kinds)
  BY <1>3, TermSets
<1>5. v \in Context
  BY <1>4 DEF Edited
<1>6. Edited(v, x, v.blocks, e, v.kinds) /\ Edited(w, y, w.blocks, e, w.kinds)
  BY <1>3, <1>5, AtIs
<1> HIDE DEF u, v, w, x, y
<1>7. x = y
  <2>1. /\ x \in Context /\ y \in Context /\ x.blocks = y.blocks /\ x.cur = y.cur /\ x.kinds = y.kinds
        /\ x.owned = y.owned /\ x.scopes = y.scopes /\ x.loops = y.loops /\ x.names = y.names
    BY <1>1, <1>2, <1>4, <1>6 DEF Edited
  <2> QED
    BY <2>1, ContextEqual
<1> QED
  BY <1>7 DEF u, v, w, x, y

-----------------------------------------------------------------------------
(* Steps *)

\* Where the locals of S are held, every other one is stale.
LEMMA HoldingIs ==
  ASSUME NEW S
  PROVE  /\ Holding(S) \in Knowledge /\ Settled(Holding(S))
         /\ \A l \in Nat : Holding(S)[l] = IF l \in S THEN "held" ELSE "stale"
BY DEF Holding, Knowledge, Statuses, Settled

\* Knowledge with one local's status replaced.
LEMMA PutIs ==
  ASSUME NEW st \in Knowledge, NEW l \in Nat, NEW v \in Statuses
  PROVE  /\ Put(st, l, v) \in Knowledge /\ Put(st, l, v)[l] = v
         /\ \A k \in Nat : k # l => Put(st, l, v)[k] = st[k]
BY DEF Put, Knowledge

\* A literal makes its local held.
LEMMA LiteralStep ==
  ASSUME NEW kinds, NEW n \in Nat, n = Len(kinds), NEW kept, NEW st \in Knowledge, Settled(st),
         NEW d \in 1 .. n, NEW next, Weaker(Put(st, d, "held"), next)
  PROVE  Step(kinds, kept, st, Literal(d), next)
<1>1. Literal(d).op = "Const" /\ Literal(d).dest = d /\ Literal(d) \in Statement(1 .. Len(kinds))
  BY DEF Literal, Statement
<1>2. Allowed(kinds, kept, st, Literal(d))
  BY <1>1 DEF Allowed
<1>3. Learned(kinds, kept, st, Literal(d)) = Put(st, d, "held")
  BY <1>1 DEF Learned
<1> QED
  BY <1>2, <1>3 DEF Step

\* A move takes what it moves: of a string the source is zeroed, of a record both have the address.
LEMMA MoveStep ==
  ASSUME NEW kinds, NEW n \in Nat, n = Len(kinds), NEW kept, NEW st \in Knowledge, Settled(st),
         NEW d \in 1 .. n, NEW s \in 1 .. n, d # s, st[s] \in {"held", "zero"}, NEW next,
         Weaker(Put(Put(st, s, IF kinds[s] = "string" THEN "zero" ELSE "copy"), d, "held"), next)
  PROVE  Step(kinds, kept, st, Move(d, s), next)
<1>1. /\ Move(d, s).op = "Assign" /\ Move(d, s).dest = d /\ Move(d, s).source = s
      /\ Move(d, s) \in Statement(1 .. Len(kinds))
  BY DEF Move, Statement
<1>2. Allowed(kinds, kept, st, Move(d, s))
  BY <1>1 DEF Allowed
<1>3. Learned(kinds, kept, st, Move(d, s))
        = Put(Put(st, s, IF kinds[s] = "string" THEN "zero" ELSE "copy"), d, "held")
  BY <1>1 DEF Learned
<1> QED
  BY <1>2, <1>3 DEF Step

\* A deinit makes its local zero.
LEMMA DeinitStep ==
  ASSUME NEW kinds, NEW n \in Nat, n = Len(kinds), NEW kept, NEW st \in Knowledge,
         NEW l \in 1 .. n, st[l] \in {"zero", "stale", "copy"}, NEW next, Weaker(Put(st, l, "zero"), next)
  PROVE  Step(kinds, kept, st, Deinit(l), next)
<1>1. Deinit(l).op = "Deinit" /\ Deinit(l).local = l /\ Deinit(l) \in Statement(1 .. Len(kinds))
  BY DEF Deinit, Statement
<1>2. Allowed(kinds, kept, st, Deinit(l))
  BY <1>1 DEF Allowed
<1>3. Learned(kinds, kept, st, Deinit(l)) = Put(st, l, "zero")
  BY <1>1 DEF Learned
<1> QED
  BY <1>2, <1>3 DEF Step

\* A read learns nothing.
LEMMA ReadStep ==
  ASSUME NEW kinds, NEW n \in Nat, n = Len(kinds), NEW kept, NEW st \in Knowledge, NEW l \in 1 .. n
  PROVE  Step(kinds, kept, st, Read(l), st)
<1>1. Read(l).op = "Read" /\ Read(l).local = l /\ Read(l) \in Statement(1 .. Len(kinds))
  BY DEF Read, Statement
<1>2. Allowed(kinds, kept, st, Read(l))
  BY <1>1 DEF Allowed
<1>3. Learned(kinds, kept, st, Read(l)) = st
  BY <1>1 DEF Learned
<1> QED
  BY <1>2, <1>3, WeakerIs DEF Step

\* A value moves and its source is zeroed: whoever drops the source later
\* may take it for held or for stale.
LEMMA MoveAway ==
  ASSUME NEW kinds, NEW n \in Nat, n = Len(kinds), NEW kept, NEW st \in Knowledge, Settled(st),
         NEW d \in 1 .. n, NEW s \in 1 .. n, d # s, st[s] \in {"held", "zero"}, NEW next \in Knowledge,
         next[d] = "held", next[s] \in {"held", "stale"},
         \A l \in Nat : l # d /\ l # s => next[l] = st[l]
  PROVE  \E mid \in Knowledge : /\ Step(kinds, kept, st, Move(d, s), mid)
                                /\ Step(kinds, kept, mid, Deinit(s), next)
<1> DEFINE how == IF kinds[s] = "string" THEN "zero" ELSE "copy"
           one == Put(st, s, how)
           mid == Put(one, d, "held")
<1>0. d \in Nat /\ s \in Nat /\ how \in {"zero", "copy"} /\ how \in Statuses /\ "held" \in Statuses
      /\ "zero" \in Statuses
  BY DEF Statuses
<1> HIDE DEF how
<1>1. one \in Knowledge /\ one[s] = how /\ \A k \in Nat : k # s => one[k] = st[k]
  BY <1>0, PutIs
<1> HIDE DEF one
<1>2. mid \in Knowledge /\ mid[d] = "held" /\ \A k \in Nat : k # d => mid[k] = one[k]
  BY <1>0, <1>1, PutIs
<1> HIDE DEF mid
<1>3. Step(kinds, kept, st, Move(d, s), mid)
  <2>1. Weaker(Put(Put(st, s, how), d, "held"), mid)
    BY <1>2, WeakerIs DEF mid, one
  <2> QED
    BY <2>1, MoveStep DEF how
<1>4. mid[s] = how
  BY <1>0, <1>1, <1>2
<1>5. Weaker(Put(mid, s, "zero"), next)
  <2> DEFINE end == Put(mid, s, "zero")
  <2>1. end \in Knowledge /\ end[s] = "zero" /\ \A k \in Nat : k # s => end[k] = mid[k]
    BY <1>0, <1>2, PutIs
  <2> HIDE DEF end
  <2>2. \A l \in Nat : l # s => end[l] = next[l]
    BY <1>1, <1>2, <2>1
  <2>3. Weaker(end, next)
    BY <2>1, <2>2 DEF Weaker
  <2> QED
    BY <2>3 DEF end
<1>6. Step(kinds, kept, mid, Deinit(s), next)
  BY <1>0, <1>2, <1>4, <1>5, DeinitStep
<1> QED
  BY <1>2, <1>3, <1>6

-----------------------------------------------------------------------------
(* Lowering in the middle of a block *)

(***************************************************************************)
(* The body lowered so far flows to the current point, where the locals of *)
(* S hold their values and no other does.                                  *)
(***************************************************************************)
Here(c, E, S, W) == Graph(c, E, Holding(S), W, S) /\ S \subseteq 1 .. Len(c.kinds)

\* d differs from c in the statements of the current block.
Same(c, d) == Keeps(c, d) /\ d.cur = c.cur /\ Len(d.blocks) = Len(c.blocks)

\* The current block of c has grown to that of d, where T is held.
Becomes(c, d, kinds, E, T, W) == Here(d, E, T, W) /\ Same(c, d) /\ d.kinds = kinds

\* What a body that is being lowered is made of.
LEMMA HereIs ==
  ASSUME NEW c, NEW E, NEW S, NEW W, Here(c, E, S, W)
  PROVE  /\ c \in Context /\ Len(c.kinds) \in Nat /\ S \subseteq 1 .. Len(c.kinds) /\ S \subseteq Nat
         /\ Len(c.blocks) \in Nat /\ DOMAIN c.blocks = 1 .. Len(c.blocks) /\ c.cur \in DOMAIN c.blocks
         /\ c.kinds \in Seq({"string", "record"}) /\ DOMAIN c.kinds = 1 .. Len(c.kinds)
         /\ c.cur \notin W /\ W \subseteq DOMAIN c.blocks /\ E \in [Nat -> Knowledge]
<1>1. /\ c \in Context /\ c.cur \in DOMAIN c.blocks /\ S \subseteq 1 .. Len(c.kinds)
      /\ c.cur \notin W /\ W \subseteq DOMAIN c.blocks /\ E \in [Nat -> Knowledge]
  BY DEF Here, Graph
<1>2. c.kinds \in Seq({"string", "record"})
  BY <1>1 DEF Context
<1>3. Len(c.kinds) \in Nat /\ DOMAIN c.kinds = 1 .. Len(c.kinds)
  BY <1>2
<1> QED
  BY <1>1, <1>2, <1>3, BlocksAre

\* Pushing statements that lead from one set of held locals to another.
LEMMA HerePush ==
  ASSUME NEW c, NEW E, NEW S, NEW W, Here(c, E, S, W), NEW T, T \subseteq S,
         NEW stmts \in Seq(Statement(1 .. Len(c.kinds))),
         Walks(c.kinds, S, stmts, Holding(S), Holding(T))
  PROVE  Becomes(c, PushAll(c, stmts), c.kinds, E, T, W)
<1> DEFINE d == PushAll(c, stmts)
<1>1. Graph(c, E, Holding(S), W, S) /\ Holding(T) \in Knowledge /\ S \subseteq 1 .. Len(c.kinds)
  BY HoldingIs DEF Here
<1>2. /\ Graph(d, E, Holding(T), W, S) /\ Keeps(c, d) /\ d.kinds = c.kinds /\ d.cur = c.cur
      /\ Len(d.blocks) = Len(c.blocks)
  BY <1>1, GraphPush DEF Pushes
<1> HIDE DEF d
<1>3. Weaker(Holding(T), Holding(T))
  BY <1>1, WeakerIs
<1>4. Graph(d, E, Holding(T), W, T)
  BY <1>1, <1>2, <1>3, GraphWeaker
<1> QED
  BY <1>1, <1>2, <1>4 DEF Here, Same, Becomes, d

\* The same, with a new local.
LEMMA HereGrow ==
  ASSUME NEW c, NEW E, NEW S, NEW W, Here(c, E, S, W), NEW kind \in {"string", "record"},
         NEW T, T \subseteq S \cup {Len(c.kinds) + 1},
         NEW stmts \in Seq(Statement(1 .. Len(c.kinds) + 1)),
         Walks(Append(c.kinds, kind), S \cup {Len(c.kinds) + 1}, stmts, Holding(S), Holding(T))
  PROVE  Becomes(c, PushAll(AllocLocal(c, kind), stmts), Append(c.kinds, kind), E, T, W)
<1> DEFINE d == AllocLocal(c, kind)
           l == Len(c.kinds) + 1
           K == S \cup {l}
           e == PushAll(d, stmts)
<1>1. Graph(c, E, Holding(S), W, S) /\ Len(c.kinds) \in Nat /\ S \subseteq 1 .. Len(c.kinds)
  BY HereIs DEF Here
<1>2. K \cap 1 .. Len(c.kinds) \subseteq S
  BY <1>1
<1> HIDE DEF K
<1>3. /\ Graph(d, E, Holding(S), W, K) /\ Keeps(c, d) /\ d.kinds = Append(c.kinds, kind)
      /\ d.cur = c.cur /\ Len(d.blocks) = Len(c.blocks) /\ Len(d.kinds) = l
  BY <1>1, <1>2, GraphLocal
<1> HIDE DEF d, l
<1>4. Holding(T) \in Knowledge /\ stmts \in Seq(Statement(1 .. Len(d.kinds)))
  BY <1>3, HoldingIs DEF l
<1>5. Walks(d.kinds, K, stmts, Holding(S), Holding(T))
  BY <1>3 DEF K, l
<1>6. /\ Graph(e, E, Holding(T), W, K) /\ Keeps(d, e) /\ e.kinds = d.kinds /\ e.cur = d.cur
      /\ Len(e.blocks) = Len(d.blocks)
  <2>1. Graph(d, E, Holding(S), W, K)
    BY <1>3
  <2>2. Pushes(d, PushAll(d, stmts), E, Holding(T), W, K)
    BY <2>1, <1>4, <1>5, GraphPush
  <2> QED
    BY <2>2 DEF Pushes
<1> HIDE DEF e
<1>7. Weaker(Holding(T), Holding(T)) /\ T \subseteq K
  BY <1>4, WeakerIs DEF K, l
<1>8. Graph(e, E, Holding(T), W, T)
  BY <1>4, <1>6, <1>7, GraphWeaker
<1>9. T \subseteq 1 .. Len(e.kinds)
  BY <1>1, <1>3, <1>6, <1>7 DEF K, l
<1>10. Here(e, E, T, W) /\ Same(c, e) /\ e.kinds = Append(c.kinds, kind) /\ Len(e.kinds) = l
  BY <1>3, <1>6, <1>8, <1>9 DEF Here, Same, Keeps
<1> QED
  BY <1>10 DEF e, d, l, Becomes

\* A local that has just been made.
LEMMA GrownIs ==
  ASSUME NEW c, NEW E, NEW S, NEW W, Here(c, E, S, W), NEW kind \in {"string", "record"}
  PROVE  /\ Len(c.kinds) + 1 \in Nat \ {0} /\ Len(Append(c.kinds, kind)) = Len(c.kinds) + 1
         /\ Len(c.kinds) + 1 \notin S /\ Append(c.kinds, kind)[Len(c.kinds) + 1] = kind
         /\ \A v \in S : v \in 1 .. Len(c.kinds) /\ Append(c.kinds, kind)[v] = c.kinds[v]
<1> DEFINE n == Len(c.kinds)
           k == Append(c.kinds, kind)
<1>1. n \in Nat /\ S \subseteq 1 .. n /\ c.kinds \in Seq({"string", "record"})
  BY HereIs
<1>2. Len(k) = n + 1 /\ k[n + 1] = kind /\ \A v \in 1 .. n : k[v] = c.kinds[v]
  BY <1>1, AppendProperties
<1> HIDE DEF n, k
<1>3. n + 1 \notin S /\ n + 1 \in Nat \ {0}
  BY <1>1
<1>4. ASSUME NEW v \in S PROVE v \in 1 .. n /\ k[v] = c.kinds[v]
  BY <1>1, <1>2
<1> QED
  BY <1>2, <1>3, <1>4 DEF n, k

\* A literal's new local is held after it.
LEMMA HereLiteral ==
  ASSUME NEW c, NEW E, NEW S, NEW W, Here(c, E, S, W), NEW kind \in {"string", "record"},
         NEW l, l = Len(c.kinds) + 1, 
         NEW d, d = PushAll(AllocLocal(c, kind), <<Literal(l)>>)
  PROVE  Becomes(c, d, Append(c.kinds, kind), E, S \cup {l}, W)
<1> DEFINE kinds == Append(c.kinds, kind)
           T == S \cup {l}
<1>1. l \in Nat /\ Len(kinds) = l /\ l \in 1 .. l /\ l \notin S
  BY GrownIs
<1>2. Weaker(Put(Holding(S), l, "held"), Holding(T))
  <2>1. /\ Holding(S) \in Knowledge /\ "held" \in Statuses
        /\ \A k \in Nat : Holding(S)[k] = IF k \in S THEN "held" ELSE "stale"
        /\ \A k \in Nat : Holding(T)[k] = IF k \in T THEN "held" ELSE "stale"
    BY HoldingIs DEF Statuses
  <2>2. Put(Holding(S), l, "held")[l] = "held" /\ \A k \in Nat : k # l => Put(Holding(S), l, "held")[k] = Holding(S)[k]
    BY <1>1, <2>1, PutIs
  <2> QED
    BY <1>1, <2>1, <2>2 DEF Weaker
<1> HIDE DEF T, kinds
<1>3. Holding(S) \in Knowledge /\ Settled(Holding(S)) /\ Holding(T) \in Knowledge
  BY HoldingIs
<1>4. ASSUME NEW kept PROVE Walk(kinds, kept, <<Literal(l)>>, Holding(S), Holding(T))
  <2>1. Step(kinds, kept, Holding(S), Literal(l), Holding(T))
    BY <1>1, <1>2, <1>3, LiteralStep
  <2> QED
    BY <1>3, <2>1, WalkOne
<1>5. <<Literal(l)>> \in Seq(Statement(1 .. l))
  <2>1. Literal(l) \in Statement(1 .. l)
    BY <1>1 DEF Literal, Statement
  <2> HIDE DEF Literal
  <2> QED
    BY <2>1
<1>6. T \subseteq S \cup {Len(c.kinds) + 1}
  BY DEF T
<1>7. Becomes(c, PushAll(AllocLocal(c, kind), <<Literal(l)>>), Append(c.kinds, kind), E, T, W)
  <2>1. Walks(Append(c.kinds, kind), S \cup {Len(c.kinds) + 1}, <<Literal(l)>>, Holding(S), Holding(T))
    BY <1>4 DEF kinds, Walks
  <2>2. <<Literal(l)>> \in Seq(Statement(1 .. Len(c.kinds) + 1))
    BY <1>5
  <2> QED
    BY <1>6, <2>1, <2>2, HereGrow
<1> QED
  BY <1>7 DEF T

\* A binding moves a value into a new local.
LEMMA HereMove ==
  ASSUME NEW c, NEW E, NEW S, NEW W, Here(c, E, S, W), NEW v \in S, NEW l, l = Len(c.kinds) + 1,
         NEW kind \in {"string", "record"}, kind = c.kinds[v]
  PROVE  Becomes(c, PushAll(AllocLocal(c, kind), <<Move(l, v), Deinit(v)>>),
                 Append(c.kinds, kind), E, S \cup {l}, W)
<1> DEFINE kinds == Append(c.kinds, kind)
           T == S \cup {l}
           stmts == <<Move(l, v), Deinit(v)>>
<1>1. /\ l \in Nat /\ Len(kinds) = l /\ l \in 1 .. l /\ l \notin S /\ v \in 1 .. l /\ v \in Nat /\ v # l
  BY GrownIs
<1> HIDE DEF kinds
<1>2. /\ Holding(S) \in Knowledge /\ Settled(Holding(S)) /\ Holding(T) \in Knowledge
      /\ Holding(S)[v] = "held" /\ Holding(T)[v] = "held" /\ Holding(T)[l] = "held"
      /\ \A k \in Nat : k # l /\ k # v => Holding(T)[k] = Holding(S)[k]
  <2>1. /\ \A k \in Nat : Holding(S)[k] = IF k \in S THEN "held" ELSE "stale"
        /\ \A k \in Nat : Holding(T)[k] = IF k \in T THEN "held" ELSE "stale"
        /\ Holding(S) \in Knowledge /\ Settled(Holding(S)) /\ Holding(T) \in Knowledge
    BY HoldingIs
  <2> QED
    BY <1>1, <2>1
<1>3. ASSUME NEW kept
      PROVE  Walk(kinds, kept, stmts, Holding(S), Holding(T)) /\ stmts \in Seq(Statement(1 .. l))
  <2>1. \E mid \in Knowledge : /\ Step(kinds, kept, Holding(S), Move(l, v), mid)
                               /\ Step(kinds, kept, mid, Deinit(v), Holding(T))
    <3> HIDE DEF T
    <3> QED
      BY <1>1, <1>2, MoveAway
  <2> QED
    BY <1>1, <1>2, <2>1, WalkTwo
<1>4. Walks(Append(c.kinds, kind), S \cup {Len(c.kinds) + 1}, stmts, Holding(S), Holding(T))
  BY <1>3 DEF Walks, kinds
<1>5. T \subseteq S \cup {Len(c.kinds) + 1} /\ stmts \in Seq(Statement(1 .. Len(c.kinds) + 1))
  BY <1>3
<1> HIDE DEF T, stmts
<1>6. Becomes(c, PushAll(AllocLocal(c, kind), stmts), Append(c.kinds, kind), E, T, W)
  BY <1>4, <1>5, HereGrow
<1> QED
  BY <1>6 DEF T, stmts

\* An assignment of a literal, through a local of its own.
LEMMA HereAssignLiteral ==
  ASSUME NEW c, NEW E, NEW S, NEW W, Here(c, E, S, W), NEW v \in S, NEW l, l = Len(c.kinds) + 1,
         NEW kind \in {"string", "record"}
  PROVE  Becomes(c, PushAll(AllocLocal(c, kind), <<Literal(l), Move(v, l), Deinit(l)>>),
                 Append(c.kinds, kind), E, S, W)
<1> DEFINE kinds == Append(c.kinds, kind)
           stmts == <<Literal(l), Move(v, l), Deinit(l)>>
           st == Put(Holding(S), l, "held")
<1>1. /\ l \in Nat /\ Len(kinds) = l /\ l \in 1 .. l /\ l \notin S /\ v \in 1 .. l /\ v \in Nat /\ v # l
  BY GrownIs
<1> HIDE DEF kinds
<1>2. /\ Holding(S) \in Knowledge /\ Settled(Holding(S)) /\ Holding(S)[v] = "held"
      /\ Holding(S)[l] = "stale"
  BY <1>1, HoldingIs
<1>3. st \in Knowledge /\ st[l] = "held" /\ \A k \in Nat : k # l => st[k] = Holding(S)[k]
  BY <1>1, <1>2, PutIs DEF Statuses
<1>4. Settled(st) /\ Weaker(st, st)
  BY <1>1, <1>2, <1>3, WeakerIs DEF Settled
<1>5. ASSUME NEW kept
      PROVE  Walk(kinds, kept, stmts, Holding(S), Holding(S)) /\ stmts \in Seq(Statement(1 .. l))
  <2>1. Step(kinds, kept, Holding(S), Literal(l), st)
    BY <1>1, <1>2, <1>4, LiteralStep
  <2> HIDE DEF st
  <2>2. \E mid \in Knowledge : /\ Step(kinds, kept, st, Move(v, l), mid)
                               /\ Step(kinds, kept, mid, Deinit(l), Holding(S))
    BY <1>1, <1>2, <1>3, <1>4, MoveAway
  <2> QED
    BY <1>1, <1>2, <1>3, <2>1, <2>2, WalkThree
<1>6. Walks(Append(c.kinds, kind), S \cup {Len(c.kinds) + 1}, stmts, Holding(S), Holding(S))
  BY <1>5 DEF Walks, kinds
<1>7. S \subseteq S \cup {Len(c.kinds) + 1} /\ stmts \in Seq(Statement(1 .. Len(c.kinds) + 1))
  BY <1>5
<1> HIDE DEF stmts
<1>8. Becomes(c, PushAll(AllocLocal(c, kind), stmts), Append(c.kinds, kind), E, S, W)
  BY <1>6, <1>7, HereGrow
<1> QED
  BY <1>8 DEF stmts

\* An assignment of one name to another.
LEMMA HereAssign ==
  ASSUME NEW c, NEW E, NEW S, NEW W, Here(c, E, S, W), NEW o \in S, NEW v \in S, o # v
  PROVE  Becomes(c, PushAll(c, <<Move(o, v)>> \o <<Deinit(v)>>), c.kinds, E, S, W)
<1> DEFINE n == Len(c.kinds)
           stmts == <<Move(o, v), Deinit(v)>>
<1>1. n \in Nat /\ o \in 1 .. n /\ v \in 1 .. n /\ o \in Nat /\ v \in Nat
  BY HereIs
<1>2. /\ Holding(S) \in Knowledge /\ Settled(Holding(S)) /\ Holding(S)[v] = "held" /\ Holding(S)[o] = "held"
  BY <1>1, HoldingIs
<1>3. ASSUME NEW kept
      PROVE  Walk(c.kinds, kept, stmts, Holding(S), Holding(S)) /\ stmts \in Seq(Statement(1 .. n))
  <2>1. \E mid \in Knowledge : /\ Step(c.kinds, kept, Holding(S), Move(o, v), mid)
                               /\ Step(c.kinds, kept, mid, Deinit(v), Holding(S))
    BY <1>1, <1>2, MoveAway
  <2> QED
    BY <1>1, <1>2, <2>1, WalkTwo
<1>4. Walks(c.kinds, S, stmts, Holding(S), Holding(S))
  BY <1>3 DEF Walks
<1>5. stmts \in Seq(Statement(1 .. Len(c.kinds))) /\ S \subseteq S
  BY <1>3
<1>6. <<Move(o, v)>> \o <<Deinit(v)>> = stmts
  <2> DEFINE A == {Move(o, v), Deinit(v)}
             a == Move(o, v)
             b == Deinit(v)
  <2>1. a \in A /\ b \in A
    OBVIOUS
  <2> HIDE DEF A, a, b
  <2>2. <<a>> \o <<b>> = <<a, b>>
    BY <2>1, TwoIs
  <2> QED
    BY <2>2 DEF a, b
<1> HIDE DEF stmts
<1>7. Becomes(c, PushAll(c, stmts), c.kinds, E, S, W)
  BY <1>4, <1>5, HerePush
<1> QED
  BY <1>6, <1>7

\* A call reads a literal, or a local.
LEMMA HereReadLiteral ==
  ASSUME NEW c, NEW E, NEW S, NEW W, Here(c, E, S, W), NEW l, l = Len(c.kinds) + 1
  PROVE  Becomes(c, PushAll(AllocLocal(c, "string"), <<Literal(l), Read(l)>>),
                 Append(c.kinds, "string"), E, S \cup {l}, W)
<1> DEFINE kinds == Append(c.kinds, "string")
           T == S \cup {l}
           stmts == <<Literal(l), Read(l)>>
<1>1. l \in Nat /\ Len(kinds) = l /\ l \in 1 .. l /\ l \notin S
  BY GrownIs
<1> HIDE DEF kinds
<1>2. /\ Holding(S) \in Knowledge /\ Settled(Holding(S)) /\ Holding(T) \in Knowledge
  BY HoldingIs
<1>3. Weaker(Put(Holding(S), l, "held"), Holding(T))
  <2>1. /\ \A k \in Nat : Holding(S)[k] = IF k \in S THEN "held" ELSE "stale"
        /\ \A k \in Nat : Holding(T)[k] = IF k \in T THEN "held" ELSE "stale"
    BY HoldingIs
  <2>2. Put(Holding(S), l, "held")[l] = "held" /\ \A k \in Nat : k # l => Put(Holding(S), l, "held")[k] = Holding(S)[k]
    BY <1>1, <1>2, PutIs, ZenonT(30) DEF Statuses
  <2> QED
    BY <1>1, <2>1, <2>2 DEF Weaker
<1> HIDE DEF T
<1>4. ASSUME NEW kept
      PROVE  Walk(kinds, kept, stmts, Holding(S), Holding(T)) /\ stmts \in Seq(Statement(1 .. l))
  <2>1. Step(kinds, kept, Holding(S), Literal(l), Holding(T))
    BY <1>1, <1>2, <1>3, LiteralStep
  <2>2. Step(kinds, kept, Holding(T), Read(l), Holding(T))
    BY <1>1, <1>2, ReadStep
  <2> QED
    BY <1>1, <1>2, <2>1, <2>2, WalkTwo
<1>5. Walks(Append(c.kinds, "string"), S \cup {Len(c.kinds) + 1}, stmts, Holding(S), Holding(T))
  BY <1>4 DEF Walks, kinds
<1>6. T \subseteq S \cup {Len(c.kinds) + 1} /\ stmts \in Seq(Statement(1 .. Len(c.kinds) + 1))
  BY <1>4 DEF T
<1>7. "string" \in {"string", "record"}
  OBVIOUS
<1> HIDE DEF stmts
<1>8. Becomes(c, PushAll(AllocLocal(c, "string"), stmts), Append(c.kinds, "string"), E, T, W)
  BY <1>5, <1>6, <1>7, HereGrow
<1> QED
  BY <1>8 DEF T, stmts

\* A local that is held may be read.
LEMMA HereRead ==
  ASSUME NEW c, NEW E, NEW S, NEW W, Here(c, E, S, W), NEW v \in S
  PROVE  Becomes(c, PushAll(c, <<Read(v)>>), c.kinds, E, S, W)
<1> DEFINE n == Len(c.kinds)
           stmts == <<Read(v)>>
<1>1. n \in Nat /\ v \in 1 .. n
  BY HereIs
<1>2. Holding(S) \in Knowledge
  BY HoldingIs
<1>3. ASSUME NEW kept PROVE Walk(c.kinds, kept, stmts, Holding(S), Holding(S))
  <2>1. Step(c.kinds, kept, Holding(S), Read(v), Holding(S))
    BY <1>1, <1>2, ReadStep
  <2> QED
    BY <1>2, <2>1, WalkOne
<1>4. Walks(c.kinds, S, stmts, Holding(S), Holding(S))
  BY <1>3 DEF Walks
<1>5. stmts \in Seq(Statement(1 .. Len(c.kinds))) /\ S \subseteq S
  <2>1. Read(v) \in Statement(1 .. Len(c.kinds))
    BY <1>1 DEF Read, Statement
  <2> HIDE DEF Read
  <2> QED
    BY <2>1
<1> HIDE DEF stmts
<1>6. Becomes(c, PushAll(c, stmts), c.kinds, E, S, W)
  BY <1>4, <1>5, HerePush
<1> QED
  BY <1>6 DEF stmts

\* The value of a block moves into a result; its source is not zeroed by a
\* statement, but the move of a string zeroes it.
LEMMA HereTail ==
  ASSUME NEW c, NEW E, NEW S, NEW W, Here(c, E, S, W), NEW v \in S, NEW l, l = Len(c.kinds) + 1,
         c.kinds[v] = "string"
  PROVE  Becomes(c, PushAll(AllocLocal(c, "string"), <<Move(l, v)>>),
                 Append(c.kinds, "string"), E, S \cup {l}, W)
<1> DEFINE kinds == Append(c.kinds, "string")
           T == S \cup {l}
           stmts == <<Move(l, v)>>
           one == Put(Holding(S), v, "zero")
           two == Put(one, l, "held")
<1>1. /\ l \in Nat /\ Len(kinds) = l /\ l \in 1 .. l /\ l \notin S /\ v \in 1 .. l /\ v \in Nat /\ v # l
      /\ kinds[v] = "string"
  BY GrownIs
<1> HIDE DEF kinds
<1>2. /\ Holding(S) \in Knowledge /\ Settled(Holding(S)) /\ Holding(T) \in Knowledge
      /\ \A k \in Nat : Holding(S)[k] = IF k \in S THEN "held" ELSE "stale"
      /\ \A k \in Nat : Holding(T)[k] = IF k \in T THEN "held" ELSE "stale"
  BY HoldingIs
<1>3. one \in Knowledge /\ one[v] = "zero" /\ \A k \in Nat : k # v => one[k] = Holding(S)[k]
  BY <1>1, <1>2, PutIs DEF Statuses
<1> HIDE DEF one
<1>4. two \in Knowledge /\ two[l] = "held" /\ \A k \in Nat : k # l => two[k] = one[k]
  BY <1>1, <1>3, PutIs DEF Statuses
<1> HIDE DEF two
<1>5. Weaker(two, Holding(T))
  BY <1>1, <1>2, <1>3, <1>4, ZenonT(30) DEF Weaker
<1> HIDE DEF T
<1>6. ASSUME NEW kept PROVE Walk(kinds, kept, stmts, Holding(S), Holding(T))
  <2>1. Weaker(Put(Put(Holding(S), v, IF kinds[v] = "string" THEN "zero" ELSE "copy"), l, "held"), Holding(T))
    BY <1>1, <1>5 DEF one, two
  <2>2. Step(kinds, kept, Holding(S), Move(l, v), Holding(T))
    BY <1>1, <1>2, <2>1, MoveStep
  <2> QED
    BY <1>2, <2>2, WalkOne
<1>7. Walks(Append(c.kinds, "string"), S \cup {Len(c.kinds) + 1}, stmts, Holding(S), Holding(T))
  BY <1>6 DEF Walks, kinds
<1>8. T \subseteq S \cup {Len(c.kinds) + 1} /\ stmts \in Seq(Statement(1 .. Len(c.kinds) + 1))
  <2>1. Move(l, v) \in Statement(1 .. Len(c.kinds) + 1)
    BY <1>1 DEF Move, Statement
  <2> HIDE DEF Move
  <2> QED
    BY <2>1 DEF T
<1>9. "string" \in {"string", "record"}
  OBVIOUS
<1> HIDE DEF stmts
<1>10. Becomes(c, PushAll(AllocLocal(c, "string"), stmts), Append(c.kinds, "string"), E, T, W)
  BY <1>7, <1>8, <1>9, HereGrow
<1> QED
  BY <1>10 DEF T, stmts

\* Some of the locals that hold something are dropped.
LEMMA HereDrops ==
  ASSUME NEW c, NEW E, NEW S, NEW W, Here(c, E, S, W), NEW ls \in Seq(1 .. Len(c.kinds)),
         \A i, j \in 1 .. Len(ls) : i # j => ls[i] # ls[j], Range(ls) \subseteq S,
         NEW drops, drops = [i \in 1 .. Len(ls) |-> DropOf(ls[i])]
  PROVE  Becomes(c, PushAll(c, drops), c.kinds, E, S \ Range(ls), W)
<1> DEFINE T == S \ Range(ls)
           d == PushAll(c, drops)
<1>1. /\ Graph(c, E, Holding(S), W, S) /\ Len(c.kinds) \in Nat /\ S \subseteq 1 .. Len(c.kinds) /\ T \subseteq S
  BY HereIs DEF Here
<1>2. /\ Holding(S) \in Knowledge /\ Settled(Holding(S)) /\ Holding(T) \in Knowledge
      /\ \A k \in Nat : Holding(S)[k] = IF k \in S THEN "held" ELSE "stale"
      /\ \A k \in Nat : Holding(T)[k] = IF k \in T THEN "held" ELSE "stale"
  BY HoldingIs
<1>3. Graph(c, E, Holding(S), W, T)
  BY <1>1, <1>2, WeakerIs, GraphWeaker
<1>4. /\ \A i \in 1 .. Len(ls) : Holding(S)[ls[i]] \in {"held", "zero"}
      /\ \A i \in 1 .. Len(ls) : ls[i] \in Range(ls)
  <2>1. \A i \in 1 .. Len(ls) : ls[i] \in Range(ls)
    BY DEF Range
  <2> QED
    BY <1>1, <1>2, <2>1
<1>5. Dropped(Holding(S), Range(ls)) = Holding(T)
  BY <1>2 DEF Dropped, Holding
<1>6. ASSUME NEW kept \in SUBSET T
      PROVE  Walk(c.kinds, kept, drops, Holding(S), Holding(T)) /\ drops \in Seq(Statement(1 .. Len(c.kinds)))
  <2>1. Range(ls) \ kept = Range(ls)
    BY <1>6
  <2> HIDE DEF T
  <2>2. Walk(c.kinds, kept, drops, Holding(S), Dropped(Holding(S), Range(ls) \ kept))
    BY <1>1, <1>2, <1>4, WalkDrops
  <2>3. drops \in Seq(Statement(1 .. Len(c.kinds)))
    <3>1. \A i \in 1 .. Len(ls) : DropOf(ls[i]) \in Statement(1 .. Len(c.kinds))
      BY ElementOfSeq DEF DropOf, Statement
    <3>2. drops \in [1 .. Len(ls) -> Statement(1 .. Len(c.kinds))] /\ Len(ls) \in Nat
      BY <3>1, LenProperties
    <3> QED
      BY <3>2, SeqDef
  <2> QED
    BY <1>5, <2>1, <2>2, <2>3
<1>7. Walks(c.kinds, T, drops, Holding(S), Holding(T)) /\ drops \in Seq(Statement(1 .. Len(c.kinds)))
  BY <1>6 DEF Walks
<1> HIDE DEF T
<1>8. Pushes(c, d, E, Holding(T), W, T)
  BY <1>2, <1>3, <1>7, GraphPush
<1> HIDE DEF d
<1>9. Becomes(c, d, c.kinds, E, T, W)
  BY <1>1, <1>8 DEF Becomes, Here, Same, Pushes
<1> QED
  BY <1>9 DEF T, d

-----------------------------------------------------------------------------
(* The ends of blocks *)

\* What is known after the statements pushed last.
LEMMA WalkPushed ==
  ASSUME NEW c, NEW E, NEW st, NEW W, NEW K, Graph(c, E, st, W, K),
         NEW stmts \in Seq(Statement(1 .. Len(c.kinds))), NEW kept \in SUBSET K, NEW st2 \in Knowledge,
         Walk(c.kinds, kept, stmts, st, st2)
  PROVE  Walk(c.kinds, kept, PushAll(c, stmts).blocks[c.cur].stmts, E[c.cur], st2)
<1> DEFINE S == Statement(1 .. Len(c.kinds))
           old == c.blocks[c.cur].stmts
           new == PushAll(c, stmts).blocks[c.cur].stmts
           block == [stmts |-> old \o stmts, term |-> c.blocks[c.cur].term]
<1>1. /\ c \in Context /\ E \in [Nat -> Knowledge] /\ st \in Knowledge /\ c.cur \in DOMAIN c.blocks
      /\ Walk(c.kinds, kept, old, E[c.cur], st) /\ Flowing(c.kinds, c.blocks, E, c.cur)
  BY DEF Graph
<1>2. Len(c.kinds) \in Nat /\ E[c.cur] \in Knowledge
  BY <1>1, BlocksAre DEF Context
<1>3. old \in Seq(S) /\ stmts \in Seq(Statement(Nat))
  BY <1>1, <1>2, StatementMore DEF Flowing, BlockFlows
<1>4. new = old \o stmts
  <2>1. Edited(c, PushAll(c, stmts), Put(c.blocks, c.cur, block), c.cur, c.kinds)
    BY <1>1, <1>3, PushAllIs
  <2>2. PushAll(c, stmts).blocks = Put(c.blocks, c.cur, block)
    BY <2>1 DEF Edited
  <2>3. block.stmts = old \o stmts
    OBVIOUS
  <2> HIDE DEF block
  <2> QED
    BY <1>1, <2>2, <2>3 DEF Put
<1> HIDE DEF new, old
<1>5. S = Statement(1 .. Len(c.kinds)) /\ stmts \in Seq(S)
  OBVIOUS
<1> HIDE DEF S
<1>6. Walk(c.kinds, kept, old \o stmts, E[c.cur], st2)
  BY <1>1, <1>2, <1>3, <1>5, WalkOn DEF old
<1> QED
  BY <1>4, <1>6 DEF new

\* d is c with its current block ended by t.
Ended(c, d, E, t) ==
  /\ Keeps(c, d) /\ d.kinds = c.kinds /\ d.cur = c.cur /\ DOMAIN d.blocks = DOMAIN c.blocks
  /\ \A b \in DOMAIN c.blocks : b # c.cur => d.blocks[b] = c.blocks[b]
  /\ d.blocks[c.cur].term = t /\ Len(d.blocks) = Len(c.blocks)
  /\ \A b \in DOMAIN d.blocks : Flowing(d.kinds, d.blocks, E, b)

\* A block may end with a terminator that leads to where more or as much is known.
LEMMA EndBlock ==
  ASSUME NEW c, NEW E, NEW st, NEW W, NEW K, Graph(c, E, st, W, K),
         NEW t \in Terminator(1 .. Len(c.kinds), 1 .. Len(c.blocks)), NEW to \in Knowledge,
         Walk(c.kinds, Kept(t), c.blocks[c.cur].stmts, E[c.cur], to), Leads(E, t, to)
  PROVE  Ended(c, Term(c, c.cur, t), E, t)
<1> DEFINE d == Term(c, c.cur, t)
           block == [stmts |-> c.blocks[c.cur].stmts, term |-> t]
<1>1. /\ c \in Context /\ c.cur \in DOMAIN c.blocks
      /\ \A i \in DOMAIN c.blocks : Flowing(c.kinds, c.blocks, E, i)
  BY DEF Graph
<1>2. c.blocks \in Seq(MirBlock) /\ DOMAIN c.blocks = 1 .. Len(c.blocks) /\ Len(c.blocks) \in Nat
      /\ Len(c.kinds) \in Nat
  BY <1>1, BlocksAre DEF Context
<1>3. t \in Terminator(Nat, Nat)
  <2>1. 1 .. Len(c.kinds) \subseteq Nat /\ 1 .. Len(c.blocks) \subseteq Nat
    BY <1>2
  <2> QED
    BY <2>1, TerminatorMore
<1>4. Edited(c, d, Put(c.blocks, c.cur, block), c.cur, c.kinds)
  BY <1>1, <1>3, TermSets
<1> HIDE DEF d, block
<1>5. /\ d \in Context /\ d.blocks = Put(c.blocks, c.cur, block) /\ d.cur = c.cur /\ d.kinds = c.kinds /\ Keeps(c, d)
  BY <1>4 DEF Edited, Keeps
<1>6. /\ Len(d.blocks) = Len(c.blocks) /\ DOMAIN d.blocks = DOMAIN c.blocks /\ d.blocks[c.cur] = block
      /\ \A i \in DOMAIN c.blocks : i # c.cur => d.blocks[i] = c.blocks[i]
  BY <1>1, <1>2, <1>5 DEF Put
<1>7. block.stmts = c.blocks[c.cur].stmts /\ block.term = t
  BY DEF block
<1>8. Flowing(d.kinds, d.blocks, E, c.cur)
  <2>1. c.blocks[c.cur].stmts \in Seq(Statement(1 .. Len(c.kinds)))
    BY <1>1 DEF Flowing, BlockFlows
  <2> QED
    BY <1>5, <1>6, <1>7, <2>1 DEF Flowing, BlockFlows
<1>9. ASSUME NEW i \in DOMAIN d.blocks PROVE Flowing(d.kinds, d.blocks, E, i)
  BY <1>1, <1>5, <1>6, <1>8, <1>9 DEF Flowing
<1>10. Ended(c, d, E, t)
  BY <1>5, <1>6, <1>7, <1>9 DEF Ended
<1> QED
  BY <1>10 DEF d

\* What is known at the end of the current block, whatever it returns.
LEMMA AtTheEnd ==
  ASSUME NEW c, NEW E, NEW st, NEW W, NEW K, Graph(c, E, st, W, K), NEW t, Kept(t) \subseteq K
  PROVE  Walk(c.kinds, Kept(t), c.blocks[c.cur].stmts, E[c.cur], st) /\ st \in Knowledge
BY DEF Graph

\* Lowering goes on in a block that waited.
LEMMA GoOn ==
  ASSUME NEW c, NEW E, NEW st, NEW W, NEW K, Graph(c, E, st, W, K), NEW b \in W,
         NEW t \in Terminator(1 .. Len(c.kinds), 1 .. Len(c.blocks)), t # Placeholder,
         Kept(t) \subseteq K, Leads(E, t, st), NEW K2
  PROVE  Moves(c, At(Term(c, c.cur, t), b), E, b, Len(c.blocks), W \ {b}, K2)
<1>1. Walk(c.kinds, Kept(t), c.blocks[c.cur].stmts, E[c.cur], st) /\ st \in Knowledge
  BY AtTheEnd
<1> QED
  BY <1>1, GraphGo

\* E2 says what E says of the blocks there are.
Extends(E2, E, c) == E2 \in [Nat -> Knowledge] /\ \A b \in DOMAIN c.blocks : E2[b] = E[b]

\* The current block ends, and control goes on in a block made for it.
LEMMA GoFresh ==
  ASSUME NEW c, NEW E, NEW st, NEW W, NEW K, Graph(c, E, st, W, K), NEW n \in Nat, NEW E2, Extends(E2, E, c),
         NEW b \in Later(c, n), NEW to \in Knowledge,
         NEW t \in Terminator(1 .. Len(c.kinds), 1 .. Len(c.blocks) + n), t # Placeholder, Leads(E2, t, to),
         Walk(c.kinds, Kept(t), c.blocks[c.cur].stmts, E[c.cur], to), NEW K2
  PROVE  Moves(c, At(AllocBbs(Term(c, c.cur, t), n), b), E2, b, Len(c.blocks) + n, (W \cup Later(c, n)) \ {b}, K2)
<1> DEFINE d == AllocBbs(c, n)
           V == W \cup Later(c, n)
           m == Len(c.blocks) + n
<1>1. c \in Context /\ c.cur \in DOMAIN c.blocks /\ Len(c.blocks) \in Nat /\ Len(c.kinds) \in Nat
      /\ DOMAIN c.blocks = 1 .. Len(c.blocks)
  BY BlocksAre DEF Graph, Context
<1>2. E2 \in [Nat -> Knowledge] /\ \A i \in DOMAIN c.blocks : E2[i] = E[i]
  BY DEF Extends
<1>3. Adds(c, d, E2, st, n, W, K)
  BY <1>2, GraphBlocks
<1>4. /\ Graph(d, E2, st, V, K) /\ Keeps(c, d) /\ d.kinds = c.kinds /\ d.cur = c.cur /\ Len(d.blocks) = m
  BY <1>3 DEF Adds
<1>8. d.blocks[c.cur] = c.blocks[c.cur]
  <2>1. Edited(c, d, c.blocks \o Fresh(n), c.cur, c.kinds)
    BY <1>1, AllocBbsIs
  <2>2. d.blocks = c.blocks \o Fresh(n)
    BY <2>1 DEF Edited
  <2> DEFINE S == MirBlock \cup {Empty}
             x == c.blocks \o Fresh(n)
  <2>3. c.blocks \in Seq(S) /\ Fresh(n) \in Seq(S)
    BY <1>1, FreshIs, SeqMonotonic DEF Context
  <2> HIDE DEF S
  <2>4. \A i \in 1 .. Len(c.blocks) : x[i] = c.blocks[i]
    BY <2>3, ConcatIs
  <2> HIDE DEF x, d
  <2> QED
    BY <1>1, <2>2, <2>4 DEF x
<1>9. AllocBbs(Term(c, c.cur, t), n) = Term(d, c.cur, t)
  <2>1. 1 .. Len(c.kinds) \subseteq Nat /\ 1 .. m \subseteq Nat
    BY <1>1
  <2>2. t \in Terminator(Nat, Nat)
    BY <2>1, TerminatorMore
  <2> QED
    BY <1>1, <2>2, TermThenBlocks
<1>10. b \in V /\ E2[c.cur] = E[c.cur]
  BY <1>1, <1>2
<1> HIDE DEF d, V
<1>11. t \in Terminator(1 .. Len(d.kinds), 1 .. Len(d.blocks))
  BY <1>4
<1>12. Walk(d.kinds, Kept(t), d.blocks[d.cur].stmts, E2[d.cur], to)
  BY <1>4, <1>8, <1>10
<1>13. Moves(d, At(Term(d, d.cur, t), b), E2, b, Len(d.blocks), V \ {b}, K2)
  BY <1>4, <1>10, <1>11, <1>12, GraphGo
<1>14. Moves(c, At(Term(d, d.cur, t), b), E2, b, m, V \ {b}, K2)
  BY <1>4, <1>13 DEF Moves, Keeps
<1> QED
  BY <1>4, <1>9, <1>14 DEF V

-----------------------------------------------------------------------------
(* The books of a body that is being lowered *)

\* The open constructs: where their body goes when it ends, and what follows them.
FrameSet ==
  [kind : {"body", "block", "then", "loop", "init"}, exit : Nat, next : Nat, env : [Names -> Nat]]

\* What the scopes around the k-th open construct own.
Around(c, k) == {c.owned[i] : i \in 1 .. c.scopes[k + 1]}

\* The blocks that wait for a construct to end.
Waiting(f) ==
  IF f.exit = 0 THEN {} ELSE IF f.kind = "loop" THEN {f.next} ELSE {f.exit, f.next}
\* All blocks that wait for an open construct to end.
Waits(frames) == UNION {Waiting(frames[k]) : k \in DOMAIN frames}

\* The scopes are those of the n constructs, and own different locals.
Scoped(c, n) ==
  /\ Len(c.scopes) = n + 1 /\ c.scopes[1] = 0 /\ c.scopes[n + 1] <= Len(c.owned)
  /\ \A i, j \in 1 .. n + 1 : i <= j => c.scopes[i] <= c.scopes[j]
  /\ \A i, j \in 1 .. Len(c.owned) : i # j => c.owned[i] # c.owned[j]
  /\ Range(c.owned) \subseteq 1 .. Len(c.kinds)

\* The k-th open construct, in a body of n blocks.
FrameFits(f, k, n) ==
  /\ f.exit = 0 \/ (f.exit \in 1 .. n /\ f.next \in 1 .. n)
  /\ f.kind = "body" <=> k = 1
  /\ f.kind \in {"then", "loop"} => f.exit # 0
  /\ f.kind \in {"body", "init"} => f.exit = 0
  /\ f.kind = "then" => f.exit # f.next
  /\ f.kind = "block" => f.exit = f.next

\* The open constructs are the body's, and wait for blocks of their own.
Framed(frames, n) ==
  /\ frames \in Seq(FrameSet)
  /\ \A k \in 1 .. Len(frames) : FrameFits(frames[k], k, n)
  /\ \A j, k \in 1 .. Len(frames) : j # k => Waiting(frames[j]) \cap Waiting(frames[k]) = {}

\* The loop stack's entry for the k-th open construct, a loop.
LoopOf(c, f, k) == [break |-> f.next, continue |-> f.exit, drop |-> c.scopes[k + 1]]

\* The loops of the context are the open loops, in their order.
Looped(c, frames) ==
  \E w \in [1 .. Len(c.loops) -> 1 .. Len(frames)] :
    /\ \A i, j \in 1 .. Len(c.loops) : i < j => w[i] < w[j]
    /\ \A k \in 1 .. Len(frames) : frames[k].kind = "loop" => \E j \in 1 .. Len(c.loops) : w[j] = k
    /\ \A j \in 1 .. Len(c.loops) :
         frames[w[j]].kind = "loop" /\ c.loops[j] = LoopOf(c, frames[w[j]], w[j])

\* A name in scope is bound to a local of its own, which the scopes own.
Named(c, frames, e) ==
  /\ c.names \in [Names -> 0 .. Len(c.kinds)] /\ e \in [Names -> 0 .. Len(c.kinds)]
  /\ \A x \in Names : e[x] # 0 => c.names[x] = e[x] /\ e[x] \in Range(c.owned)
  /\ \A x, y \in Names : e[x] # 0 /\ e[x] = e[y] => x = y
  /\ \A k \in 1 .. Len(frames) : \A x \in Names :
       frames[k].env[x] # 0 =>
         /\ e[x] = frames[k].env[x] /\ e[x] \in Around(c, k)
         /\ \A j \in 1 .. Len(frames) : j >= k => frames[j].env[x] = e[x]

\* Scopes, open constructs, loops and names agree.
Books(c, frames, e) ==
  /\ Scoped(c, Len(frames)) /\ Framed(frames, Len(c.blocks)) /\ Looped(c, frames) /\ Named(c, frames, e)

\* What is known where a construct ends, and where it goes on.
FrameFlows(c, E, f, k) ==
  f.exit # 0 => /\ E[f.next] = Holding(Around(c, k)) /\ Weaker(Holding(Around(c, k)), E[f.exit])
                /\ f.kind # "loop" => E[f.exit] = Holding(Around(c, k))

\* What is known where the open constructs end.
FramesFlow(c, E, frames) == \A k \in 1 .. Len(frames) : FrameFlows(c, E, frames[k], k)

\* What is owned is held, and every open construct may rely on that when it ends.
Flow(c, frames, E) ==
  Here(c, E, Range(c.owned), Waits(frames)) /\ FramesFlow(c, E, frames)

\* The body is well lowered so far: the books are kept, and the blocks flow.
Lowered(c, frames, e) == Books(c, frames, e) /\ \E E : Flow(c, frames, E)

-----------------------------------------------------------------------------
(* More blocks and locals *)

\* d has c's scopes and loops; it may have more blocks and locals, and own one
\* of its new locals.
Grows(c, d) ==
  /\ d \in Context /\ d.scopes = c.scopes /\ d.loops = c.loops
  /\ Len(c.kinds) <= Len(d.kinds) /\ Len(c.blocks) <= Len(d.blocks)
  /\ \/ d.owned = c.owned
     \/ \E l \in Len(c.kinds) + 1 .. Len(d.kinds) : d.owned = Append(c.owned, l)

\* What the sequences of a context are.
LEMMA ContextIs ==
  ASSUME NEW c \in Context
  PROVE  /\ c.owned \in Seq(Nat) /\ Len(c.owned) \in Nat /\ DOMAIN c.owned = 1 .. Len(c.owned)
         /\ c.scopes \in Seq(Nat) /\ Len(c.scopes) \in Nat /\ DOMAIN c.scopes = 1 .. Len(c.scopes)
         /\ c.loops \in Seq([break : Nat, continue : Nat, drop : Nat]) /\ Len(c.loops) \in Nat
         /\ Len(c.kinds) \in Nat /\ Len(c.blocks) \in Nat /\ c.kinds \in Seq({"string", "record"})
         /\ c.names \in [Names -> Nat] /\ \A i \in 1 .. Len(c.owned) : c.owned[i] \in Nat
         /\ \A i \in 1 .. Len(c.scopes) : c.scopes[i] \in Nat
<1>1. /\ c.owned \in Seq(Nat) /\ c.scopes \in Seq(Nat) /\ c.kinds \in Seq({"string", "record"})
      /\ c.loops \in Seq([break : Nat, continue : Nat, drop : Nat]) /\ c.names \in [Names -> Nat]
  BY DEF Context
<1>2. Len(c.blocks) \in Nat
  BY BlocksAre
<1>3. Len(c.owned) \in Nat /\ Len(c.scopes) \in Nat /\ Len(c.kinds) \in Nat /\ Len(c.loops) \in Nat
  BY <1>1, LenProperties
<1>4. DOMAIN c.owned = 1 .. Len(c.owned) /\ DOMAIN c.scopes = 1 .. Len(c.scopes)
  BY <1>1, LenProperties
<1>5. /\ \A i \in 1 .. Len(c.owned) : c.owned[i] \in Nat
      /\ \A i \in 1 .. Len(c.scopes) : c.scopes[i] \in Nat
  BY <1>1, ElementOfSeq
<1> QED
  BY <1>1, <1>2, <1>3, <1>4, <1>5

\* What the elements of a sequence are.
LEMMA RangeIs ==
  ASSUME NEW S, NEW s \in Seq(S)
  PROVE  /\ \A i \in 1 .. Len(s) : s[i] \in Range(s)
         /\ \A l \in Range(s) : l \in S /\ \E i \in 1 .. Len(s) : s[i] = l
BY DEF Range

\* The elements of a sequence with one more.
LEMMA AppendIs ==
  ASSUME NEW S, NEW s \in Seq(S), NEW e \in S, NEW t, t = Append(s, e)
  PROVE  /\ t \in Seq(S) /\ Len(t) = Len(s) + 1 /\ t[Len(s) + 1] = e
         /\ \A i \in 1 .. Len(s) : t[i] = s[i]
         /\ \A i \in 1 .. Len(t) : i \in 1 .. Len(s) \/ i = Len(s) + 1
BY AppendProperties

\* What was owned stays owned where it was.
LEMMA OwnedGrow ==
  ASSUME NEW c \in Context, NEW d, Grows(c, d)
  PROVE  /\ Len(c.owned) <= Len(d.owned)
         /\ \A i \in 1 .. Len(c.owned) : d.owned[i] = c.owned[i]
         /\ Range(c.owned) \subseteq Range(d.owned)
<1>1. c.owned \in Seq(Nat) /\ Len(c.owned) \in Nat /\ Len(c.kinds) \in Nat
  BY ContextIs
<1>2. CASE d.owned = c.owned
  BY <1>1, <1>2
<1>3. CASE \E l \in Len(c.kinds) + 1 .. Len(d.kinds) : d.owned = Append(c.owned, l)
  <2>1. PICK l \in Len(c.kinds) + 1 .. Len(d.kinds) : d.owned = Append(c.owned, l)
    BY <1>3
  <2>2. l \in Nat
    BY <1>1, <2>1
  <2>3. /\ d.owned \in Seq(Nat) /\ Len(d.owned) = Len(c.owned) + 1
        /\ \A i \in 1 .. Len(c.owned) : d.owned[i] = c.owned[i]
    <3> DEFINE s == c.owned
               t == d.owned
    <3>1. s \in Seq(Nat) /\ t = Append(s, l)
      BY <1>1, <2>1
    <3> HIDE DEF s, t
    <3>2. t \in Seq(Nat) /\ Len(t) = Len(s) + 1 /\ \A i \in 1 .. Len(s) : t[i] = s[i]
      BY <2>2, <3>1, AppendIs
    <3> QED
      BY <3>2 DEF s, t
  <2>4. Range(c.owned) \subseteq Range(d.owned)
    <3>1. \A e \in Range(c.owned) : \E i \in 1 .. Len(c.owned) : c.owned[i] = e
      BY <1>1, RangeIs
    <3>2. \A i \in 1 .. Len(d.owned) : d.owned[i] \in Range(d.owned)
      BY <2>3, RangeIs
    <3>3. \A i \in 1 .. Len(c.owned) : i \in 1 .. Len(d.owned)
      BY <1>1, <2>3
    <3> QED
      BY <2>3, <3>1, <3>2, <3>3
  <2> QED
    BY <1>1, <2>3, <2>4
<1> QED
  BY <1>2, <1>3 DEF Grows

\* A construct's outer scopes own what they owned.
LEMMA AroundGrow ==
  ASSUME NEW c \in Context, NEW d, Grows(c, d), NEW n \in Nat, Scoped(c, n), NEW k \in 1 .. n
  PROVE  Around(d, k) = Around(c, k)
<1>1. /\ d.scopes = c.scopes /\ \A i \in 1 .. Len(c.owned) : d.owned[i] = c.owned[i]
      /\ Len(c.owned) \in Nat /\ c.scopes[k + 1] <= Len(c.owned) /\ c.scopes[k + 1] \in Nat
  <2>1. Len(c.scopes) = n + 1 /\ k + 1 \in 1 .. n + 1 /\ n + 1 \in 1 .. n + 1 /\ k + 1 <= n + 1
    BY DEF Scoped
  <2>2. c.scopes[k + 1] <= c.scopes[n + 1] /\ c.scopes[n + 1] <= Len(c.owned)
    BY <2>1 DEF Scoped
  <2>3. c.scopes[k + 1] \in Nat /\ c.scopes[n + 1] \in Nat /\ Len(c.owned) \in Nat
    BY <2>1, ContextIs
  <2> QED
    BY <2>2, <2>3, OwnedGrow DEF Grows
<1>2. \A i \in 1 .. c.scopes[k + 1] : d.owned[i] = c.owned[i]
  BY <1>1
<1> QED
  BY <1>1, <1>2 DEF Around

\* The scopes stay those of the open constructs.
LEMMA ScopedGrow ==
  ASSUME NEW c \in Context, NEW d, Grows(c, d), NEW n \in Nat, Scoped(c, n)
  PROVE  Scoped(d, n)
<1>1. /\ d.scopes = c.scopes /\ Len(c.owned) <= Len(d.owned) /\ d \in Context
      /\ Len(c.kinds) <= Len(d.kinds)
      /\ \A i \in 1 .. Len(c.owned) : d.owned[i] = c.owned[i]
  BY OwnedGrow DEF Grows
<1>2. /\ Len(c.owned) \in Nat /\ Len(d.owned) \in Nat /\ Len(c.kinds) \in Nat /\ Len(d.kinds) \in Nat
      /\ c.owned \in Seq(Nat) /\ d.owned \in Seq(Nat)
  BY <1>1, ContextIs
<1>3. c.scopes[n + 1] <= Len(d.owned)
  <2>1. c.scopes[n + 1] <= Len(c.owned) /\ Len(c.scopes) = n + 1 /\ n + 1 \in 1 .. n + 1
    BY DEF Scoped
  <2>2. c.scopes[n + 1] \in Nat
    BY <2>1, ContextIs
  <2> QED
    BY <1>1, <1>2, <2>1, <2>2
<1>4. /\ \A i, j \in 1 .. Len(c.owned) : i # j => c.owned[i] # c.owned[j]
      /\ \A i \in 1 .. Len(c.owned) : c.owned[i] \in 1 .. Len(c.kinds)
  BY <1>2, RangeIs DEF Scoped
<1>5. (\A i, j \in 1 .. Len(d.owned) : i # j => d.owned[i] # d.owned[j]) /\ Range(d.owned) \subseteq 1 .. Len(d.kinds)
  <2>1. CASE d.owned = c.owned
    <3>1. Range(d.owned) \subseteq 1 .. Len(c.kinds)
      BY <2>1 DEF Scoped
    <3> QED
      BY <1>1, <1>2, <1>4, <2>1, <3>1
  <2>2. CASE \E l \in Len(c.kinds) + 1 .. Len(d.kinds) : d.owned = Append(c.owned, l)
    <3>1. PICK l \in Len(c.kinds) + 1 .. Len(d.kinds) : d.owned = Append(c.owned, l)
      BY <2>2
    <3>2. l \in Nat /\ l \in 1 .. Len(d.kinds) /\ l \notin 1 .. Len(c.kinds)
      BY <1>2, <3>1
    <3>3. /\ Len(d.owned) = Len(c.owned) + 1 /\ d.owned[Len(c.owned) + 1] = l
          /\ \A i \in 1 .. Len(d.owned) : i \in 1 .. Len(c.owned) \/ i = Len(c.owned) + 1
      BY <1>2, <3>1, <3>2, AppendIs
    <3>4. \A i \in 1 .. Len(c.owned) : d.owned[i] # l /\ d.owned[i] \in 1 .. Len(d.kinds)
      <4>1. ASSUME NEW i \in 1 .. Len(c.owned) PROVE d.owned[i] # l /\ d.owned[i] \in 1 .. Len(d.kinds)
        <5>1. d.owned[i] = c.owned[i] /\ c.owned[i] \in 1 .. Len(c.kinds)
          BY <1>1, <1>4, <4>1
        <5>2. Len(c.kinds) <= Len(d.kinds) /\ Len(c.kinds) \in Nat /\ Len(d.kinds) \in Nat
          BY <1>2 DEF Grows
        <5> QED
          BY <3>2, <5>1, <5>2
      <4> QED
        BY <4>1
    <3>5. \A i, j \in 1 .. Len(d.owned) : i # j => d.owned[i] # d.owned[j]
      BY <1>1, <1>4, <3>2, <3>3, <3>4
    <3>6. \A i \in 1 .. Len(d.owned) : d.owned[i] \in 1 .. Len(d.kinds)
      BY <1>2, <3>2, <3>3, <3>4
    <3>7. Range(d.owned) \subseteq 1 .. Len(d.kinds)
      <4>1. \A e \in Range(d.owned) : \E i \in 1 .. Len(d.owned) : d.owned[i] = e
        BY <1>2, RangeIs, SMTT(20)
      <4> QED
        BY <3>6, <4>1
    <3> QED
      BY <3>5, <3>7
  <2> QED
    BY <2>1, <2>2 DEF Grows
<1> QED
  BY <1>1, <1>3, <1>5 DEF Scoped

\* The open constructs stay numbered apart.
LEMMA FramedGrow ==
  ASSUME NEW frames, NEW n \in Nat, NEW m \in Nat, n <= m, Framed(frames, n)
  PROVE  Framed(frames, m)
<1>1. \A k \in 1 .. Len(frames) : FrameFits(frames[k], k, n) => FrameFits(frames[k], k, m)
  BY DEF FrameFits
<1> QED
  BY <1>1 DEF Framed

\* The open loops stay the open loops.
LEMMA LoopedGrow ==
  ASSUME NEW c, NEW d, d.scopes = c.scopes, d.loops = c.loops, NEW frames, Looped(c, frames)
  PROVE  Looped(d, frames)
BY DEF Looped, LoopOf

\* Names stay bound to what their scopes own.
LEMMA NamedGrow ==
  ASSUME NEW c \in Context, NEW d, Grows(c, d), d.names = c.names, NEW frames, Len(frames) \in Nat, NEW e,
         Scoped(c, Len(frames)), Named(c, frames, e)
  PROVE  Named(d, frames, e)
<1>1. Len(c.kinds) \in Nat /\ Len(d.kinds) \in Nat /\ Len(c.kinds) <= Len(d.kinds)
  BY ContextIs DEF Grows
<1>2. Range(c.owned) \subseteq Range(d.owned)
  BY OwnedGrow
<1>3. \A k \in 1 .. Len(frames) : Around(d, k) = Around(c, k)
  BY AroundGrow
<1>4. d.names \in [Names -> 0 .. Len(d.kinds)] /\ e \in [Names -> 0 .. Len(d.kinds)]
  <2>1. c.names \in [Names -> 0 .. Len(c.kinds)] /\ e \in [Names -> 0 .. Len(c.kinds)]
    BY DEF Named
  <2>2. 0 .. Len(c.kinds) \subseteq 0 .. Len(d.kinds)
    BY <1>1
  <2> QED
    BY <2>1, <2>2
<1> QED
  BY <1>2, <1>3, <1>4 DEF Named

\* What is known at the blocks that wait stays known.
LEMMA FlowGrow ==
  ASSUME NEW c \in Context, NEW d, Grows(c, d), NEW frames,
         Scoped(c, Len(frames)), Framed(frames, Len(c.blocks)), NEW E, FramesFlow(c, E, frames),
         NEW E2, Extends(E2, E, c)
  PROVE  FramesFlow(d, E2, frames)
<1>1. Len(frames) \in Nat
  BY LenProperties DEF Framed
<1>2. DOMAIN c.blocks = 1 .. Len(c.blocks) /\ \A b \in 1 .. Len(c.blocks) : E2[b] = E[b]
  BY BlocksAre DEF Extends
<1>3. ASSUME NEW k \in 1 .. Len(frames) PROVE FrameFlows(d, E2, frames[k], k)
  <2>1. FrameFits(frames[k], k, Len(c.blocks)) /\ FrameFlows(c, E, frames[k], k)
    BY <1>3 DEF Framed, FramesFlow
  <2>2. Around(d, k) = Around(c, k)
    BY <1>1, <1>3, AroundGrow
  <2>3. frames[k].exit # 0 => E2[frames[k].exit] = E[frames[k].exit] /\ E2[frames[k].next] = E[frames[k].next]
    BY <1>2, <2>1 DEF FrameFits
  <2> QED
    BY <2>1, <2>2, <2>3 DEF FrameFlows
<1> QED
  BY <1>3 DEF FramesFlow

\* The parts of the books.
LEMMA BooksIs ==
  ASSUME NEW c, NEW frames, NEW e, Books(c, frames, e)
  PROVE  /\ Scoped(c, Len(frames)) /\ Framed(frames, Len(c.blocks)) /\ Looped(c, frames) /\ Named(c, frames, e)
         /\ frames \in Seq(FrameSet) /\ Len(frames) \in Nat
<1>1. /\ Scoped(c, Len(frames)) /\ Framed(frames, Len(c.blocks)) /\ Looped(c, frames) /\ Named(c, frames, e)
  BY DEF Books
<1>2. frames \in Seq(FrameSet)
  BY <1>1 DEF Framed
<1> QED
  BY <1>1, <1>2, LenProperties

\* The books are kept while a body only grows.
LEMMA BooksGrow ==
  ASSUME NEW c \in Context, NEW d, Grows(c, d), d.names = c.names, NEW frames, NEW e, Books(c, frames, e)
  PROVE  Books(d, frames, e)
<1>1. /\ Scoped(c, Len(frames)) /\ Framed(frames, Len(c.blocks)) /\ Looped(c, frames) /\ Named(c, frames, e)
      /\ Len(frames) \in Nat
  BY BooksIs
<1>2. Scoped(d, Len(frames))
  BY <1>1, ScopedGrow
<1>3. Framed(frames, Len(d.blocks))
  BY <1>1, FramedGrow, ContextIs DEF Grows
<1>4. Looped(d, frames)
  BY <1>1, LoopedGrow DEF Grows
<1>5. Named(d, frames, e)
  BY <1>1, NamedGrow
<1> QED
  BY <1>2, <1>3, <1>4, <1>5 DEF Books

\* A body that only grows stays well lowered.
LEMMA LoweredGrow ==
  ASSUME NEW c \in Context, NEW d, Grows(c, d), d.names = c.names, NEW frames, NEW e, Books(c, frames, e),
         NEW E, FramesFlow(c, E, frames), NEW E2, Extends(E2, E, c), Here(d, E2, Range(d.owned), Waits(frames))
  PROVE  Lowered(d, frames, e)
<1>1. Books(d, frames, e)
  BY BooksGrow
<1>2. FramesFlow(d, E2, frames)
  BY BooksIs, FlowGrow
<1> QED
  BY <1>1, <1>2 DEF Lowered, Flow

\* Knowledge extends itself.
LEMMA ExtendsItself ==
  ASSUME NEW c, NEW E \in [Nat -> Knowledge]
  PROVE  Extends(E, E, c)
BY DEF Extends

\* What a well lowered body is.
LEMMA LoweredIs ==
  ASSUME NEW c, NEW frames, NEW e, Lowered(c, frames, e)
  PROVE  /\ Books(c, frames, e) /\ c \in Context
         /\ \E E : /\ Here(c, E, Range(c.owned), Waits(frames)) /\ FramesFlow(c, E, frames)
                   /\ Extends(E, E, c)
BY HereIs, ExtendsItself DEF Lowered, Flow

\* d is c lowered further, with the same books.
Turns(c, d, E, S, W) ==
  Keeps(c, d) /\ Here(d, E, S, W) /\ Len(c.kinds) <= Len(d.kinds) /\ Len(c.blocks) <= Len(d.blocks)

\* Statements within a block are a turn the body may take.
LEMMA BecomesTurns ==
  ASSUME NEW c \in Context, NEW d, NEW kinds, Len(c.kinds) <= Len(kinds), NEW E, NEW S, NEW W,
         Becomes(c, d, kinds, E, S, W)
  PROVE  Turns(c, d, E, S, W)
BY ContextIs DEF Becomes, Same, Turns

\* What the scopes own stays what it is.
LEMMA StayLowered ==
  ASSUME NEW c, NEW frames, NEW e, Books(c, frames, e), NEW E, FramesFlow(c, E, frames), c \in Context,
         NEW E2, Extends(E2, E, c), NEW d, Turns(c, d, E2, Range(c.owned), Waits(frames))
  PROVE  Lowered(d, frames, e)
<1>1. /\ Here(d, E2, Range(c.owned), Waits(frames)) /\ d \in Context /\ d.owned = c.owned
      /\ d.scopes = c.scopes /\ d.loops = c.loops /\ d.names = c.names
  BY DEF Turns, Keeps
<1>2. Grows(c, d)
  BY <1>1 DEF Grows, Turns
<1> QED
  BY <1>1, <1>2, LoweredGrow

\* d owns l as well.
Owns(c, d, l) ==
  /\ d \in Context /\ d.blocks = c.blocks /\ d.cur = c.cur /\ d.kinds = c.kinds
  /\ d.scopes = c.scopes /\ d.loops = c.loops /\ d.names = c.names
  /\ d.owned = IF l \in Range(c.owned) THEN c.owned ELSE Append(c.owned, l)

\* A scope owns one more local.
LEMMA PushOwnedIs ==
  ASSUME NEW c \in Context, NEW l \in Nat
  PROVE  Owns(c, PushOwned(c, l), l)
<1> DEFINE o == IF Contains(c.owned, l) THEN c.owned ELSE Append(c.owned, l)
<1>1. Contains(c.owned, l) <=> l \in Range(c.owned)
  BY ContextIs DEF Contains, Range
<1>2. o \in Seq(Nat)
  BY ContextIs, AppendProperties
<1>3. PushOwned(c, l) = [c EXCEPT !.owned = o]
  BY DEF PushOwned
<1>4. o = IF l \in Range(c.owned) THEN c.owned ELSE Append(c.owned, l)
  BY <1>1
<1> HIDE DEF o
<1> QED
  BY <1>2, <1>3, <1>4 DEF Owns, Context

\* A sequence with one more has one more.
LEMMA RangeAppend ==
  ASSUME NEW S, NEW s \in Seq(S), NEW e \in S
  PROVE  Range(Append(s, e)) = Range(s) \cup {e}
<1> DEFINE t == Append(s, e)
<1>1. /\ t \in Seq(S) /\ Len(t) = Len(s) + 1 /\ t[Len(s) + 1] = e /\ Len(s) \in Nat
      /\ \A i \in 1 .. Len(s) : t[i] = s[i]
      /\ \A i \in 1 .. Len(t) : i \in 1 .. Len(s) \/ i = Len(s) + 1
  BY AppendIs, LenProperties
<1> HIDE DEF t
<1>2. DOMAIN s = 1 .. Len(s) /\ DOMAIN t = 1 .. Len(s) + 1
  BY <1>1
<1>3. Range(t) = Range(s) \cup {e}
  BY <1>1, <1>2 DEF Range
<1> QED
  BY <1>3 DEF t

\* A new local that is held and owned keeps the body well lowered.
LEMMA OwnLowered ==
  ASSUME NEW c, NEW frames, NEW e, Books(c, frames, e), NEW E, FramesFlow(c, E, frames), c \in Context,
         NEW E2, Extends(E2, E, c), NEW d, NEW l \in Len(c.kinds) + 1 .. Len(d.kinds),
         Turns(c, d, E2, Range(c.owned) \cup {l}, Waits(frames))
  PROVE  Lowered(PushOwned(d, l), frames, e)
<1> DEFINE g == PushOwned(d, l)
           S == Range(c.owned)
<1>1. /\ Here(d, E2, S \cup {l}, Waits(frames)) /\ d \in Context /\ d.owned = c.owned
      /\ d.scopes = c.scopes /\ d.loops = c.loops /\ d.names = c.names
      /\ Len(c.kinds) <= Len(d.kinds) /\ Len(c.blocks) <= Len(d.blocks)
  BY DEF Turns, Keeps
<1>2. Len(c.kinds) \in Nat /\ l \in Nat /\ S \subseteq 1 .. Len(c.kinds) /\ c.owned \in Seq(Nat)
      /\ Len(c.blocks) \in Nat
  BY <1>1, ContextIs, BooksIs DEF Scoped
<1>3. Owns(d, g, l)
  BY <1>1, <1>2, PushOwnedIs
<1>4. l \notin S
  BY <1>2
<1> HIDE DEF g
<1>5. /\ g \in Context /\ g.blocks = d.blocks /\ g.cur = d.cur /\ g.kinds = d.kinds /\ g.scopes = c.scopes
      /\ g.loops = c.loops /\ g.names = c.names /\ g.owned = Append(c.owned, l)
  BY <1>1, <1>3, <1>4 DEF Owns
<1>6. Range(g.owned) = S \cup {l}
  BY <1>2, <1>5, RangeAppend, SMTT(20)
<1>7. Grows(c, g)
  <2>1. l \in Len(c.kinds) + 1 .. Len(g.kinds) /\ Len(c.kinds) <= Len(g.kinds) /\ Len(c.blocks) <= Len(g.blocks)
    BY <1>1, <1>5
  <2> QED
    BY <1>5, <2>1 DEF Grows
<1>8. Here(g, E2, Range(g.owned), Waits(frames))
  BY <1>1, <1>5, <1>6, GraphSame DEF Here
<1>9. Lowered(g, frames, e)
  BY <1>5, <1>7, <1>8, LoweredGrow
<1> QED
  BY <1>9 DEF g

\* d names l by x.
Renamed(c, d, x, l) ==
  /\ d \in Context /\ d.blocks = c.blocks /\ d.cur = c.cur /\ d.kinds = c.kinds
  /\ d.owned = c.owned /\ d.scopes = c.scopes /\ d.loops = c.loops /\ d.names = Put(c.names, x, l)

\* A name is bound to the local its scope has come to own.
LEMMA BindIs ==
  ASSUME NEW c \in Context, NEW x \in Names, NEW l \in Nat
  PROVE  Renamed(PushOwned(c, l), Bind(c, x, l), x, l)
<1> DEFINE d == [c EXCEPT !.names[x] = l]
           names == Put(c.names, x, l)
<1>1. names \in [Names -> Nat]
  BY ContextIs DEF Put
<1>2. d = [c EXCEPT !.names = names]
  BY DEF Put, Context
<1> HIDE DEF names, d
<1>3. /\ d \in Context /\ d.blocks = c.blocks /\ d.cur = c.cur /\ d.kinds = c.kinds
      /\ d.owned = c.owned /\ d.scopes = c.scopes /\ d.loops = c.loops /\ d.names = names
  BY <1>1, <1>2 DEF Context
<1>4. Owns(c, PushOwned(c, l), l) /\ Owns(d, PushOwned(d, l), l)
  BY <1>3, PushOwnedIs
<1>5. Bind(c, x, l) = PushOwned(d, l)
  BY DEF Bind, d
<1> QED
  BY <1>3, <1>4, <1>5 DEF Owns, Renamed, names

\* A name no open construct has bound before may be bound.
LEMMA RenameLowered ==
  ASSUME NEW c, NEW frames, NEW e, Lowered(c, frames, e), NEW d, NEW x \in Names, NEW l, Renamed(c, d, x, l),
         l \in Range(c.owned), \A y \in Names : e[y] # l,
         \A k \in 1 .. Len(frames) : frames[k].env[x] = 0
  PROVE  Lowered(d, frames, Put(e, x, l))
<1>1. PICK E : Here(c, E, Range(c.owned), Waits(frames)) /\ FramesFlow(c, E, frames)
  BY LoweredIs
<1>2. Books(c, frames, e) /\ c \in Context
  BY LoweredIs
<1>3. /\ Scoped(c, Len(frames)) /\ Framed(frames, Len(c.blocks)) /\ Looped(c, frames) /\ Named(c, frames, e)
      /\ frames \in Seq(FrameSet) /\ Len(frames) \in Nat
  BY <1>2, BooksIs
<1>4. /\ d \in Context /\ d.blocks = c.blocks /\ d.cur = c.cur /\ d.kinds = c.kinds
      /\ d.owned = c.owned /\ d.scopes = c.scopes /\ d.loops = c.loops /\ d.names = Put(c.names, x, l)
  BY DEF Renamed
<1>5. \A k : Around(d, k) = Around(c, k)
  BY <1>4 DEF Around
<1>6. Scoped(d, Len(frames)) /\ Looped(d, frames) /\ Framed(frames, Len(d.blocks))
  <2>1. Scoped(d, Len(frames))
    BY <1>3, <1>4 DEF Scoped
  <2>2. Looped(d, frames)
    BY <1>3, <1>4, LoopedGrow
  <2> QED
    BY <1>3, <1>4, <2>1, <2>2
<1>7. Named(d, frames, Put(e, x, l))
  <2>1. l \in 0 .. Len(c.kinds) /\ l # 0
    BY <1>2, <1>3, ContextIs DEF Scoped
  <2>2. /\ Put(e, x, l) \in [Names -> 0 .. Len(d.kinds)] /\ d.names \in [Names -> 0 .. Len(d.kinds)]
        /\ Put(e, x, l)[x] = l /\ d.names[x] = l
        /\ \A y \in Names : y # x => Put(e, x, l)[y] = e[y] /\ d.names[y] = c.names[y]
    BY <1>3, <1>4, <2>1 DEF Named, Put
  <2> DEFINE g == Put(e, x, l)
  <2> HIDE DEF g
  <2>3. \A y \in Names : g[y] # 0 => d.names[y] = g[y] /\ g[y] \in Range(d.owned)
    BY <1>3, <1>4, <2>2 DEF Named, g
  <2>4. \A y, z \in Names : g[y] # 0 /\ g[y] = g[z] => y = z
    BY <1>3, <2>2 DEF Named, g
  <2>5. ASSUME NEW k \in 1 .. Len(frames), NEW y \in Names, frames[k].env[y] # 0
        PROVE  /\ g[y] = frames[k].env[y] /\ g[y] \in Around(d, k)
               /\ \A j \in 1 .. Len(frames) : j >= k => frames[j].env[y] = g[y]
    <3>1. y # x
      BY <2>5
    <3>2. g[y] = e[y]
      BY <2>2, <3>1 DEF g
    <3> QED
      BY <1>3, <1>5, <2>5, <3>2 DEF Named
  <2>6. g \in [Names -> 0 .. Len(d.kinds)]
    BY <2>2 DEF g
  <2> QED
    BY <2>2, <2>3, <2>4, <2>5, <2>6 DEF Named, g
<1>8. Here(d, E, Range(d.owned), Waits(frames))
  BY <1>1, <1>4, GraphSame DEF Here
<1>9. FramesFlow(d, E, frames)
  BY <1>1, <1>5 DEF FramesFlow, FrameFlows
<1> QED
  BY <1>6, <1>7, <1>8, <1>9 DEF Lowered, Books, Flow

\* A binding of a new, held local keeps the body well lowered.
LEMMA LetLowered ==
  ASSUME NEW c, NEW frames, NEW e, Books(c, frames, e), NEW E, FramesFlow(c, E, frames), c \in Context,
         NEW E2, Extends(E2, E, c), NEW d, NEW l \in Len(c.kinds) + 1 .. Len(d.kinds),
         Turns(c, d, E2, Range(c.owned) \cup {l}, Waits(frames)),
         NEW x \in Names, \A k \in 1 .. Len(frames) : frames[k].env[x] = 0
  PROVE  Lowered(Bind(d, x, l), frames, Put(e, x, l))
<1> DEFINE g == PushOwned(d, l)
<1>1. Lowered(g, frames, e)
  BY OwnLowered
<1>2. d \in Context /\ l \in Nat
  BY ContextIs DEF Turns, Keeps
<1>3. Renamed(g, Bind(d, x, l), x, l) /\ Owns(d, g, l)
  BY <1>2, BindIs, PushOwnedIs
<1>4. \A y \in Names : e[y] # l
  BY BooksIs, ContextIs DEF Named
<1>5. l \in Range(g.owned)
  <2>1. d.owned \in Seq(Nat) /\ g.owned = IF l \in Range(d.owned) THEN d.owned ELSE Append(d.owned, l)
    BY <1>2, <1>3, ContextIs DEF Owns
  <2> QED
    BY <1>2, <2>1, RangeAppend
<1> HIDE DEF g
<1> QED
  BY <1>1, <1>3, <1>4, <1>5, RenameLowered

-----------------------------------------------------------------------------
(* The constructs that end in the block they began in *)

\* A literal read on its own line is held and owned at once.
LEMMA UseLiteralLowered ==
  ASSUME NEW c, NEW frames, NEW e, Lowered(c, frames, e)
  PROVE  Lowered(ReadLiteral(c, NextLocal(c)), frames, e)
<1> DEFINE l == Len(c.kinds) + 1
           d == PushAll(AllocLocal(c, "string"), <<Literal(l), Read(l)>>)
<1>1. PICK E : /\ Here(c, E, Range(c.owned), Waits(frames)) /\ FramesFlow(c, E, frames) /\ Extends(E, E, c)
               /\ Books(c, frames, e) /\ c \in Context
  BY LoweredIs
<1>2. Becomes(c, d, Append(c.kinds, "string"), E, Range(c.owned) \cup {l}, Waits(frames))
  BY <1>1, HereReadLiteral
<1>3. Len(c.kinds) \in Nat /\ Len(Append(c.kinds, "string")) = Len(c.kinds) + 1
  BY <1>1, ContextIs, AppendProperties
<1> HIDE DEF d
<1>4. Turns(c, d, E, Range(c.owned) \cup {l}, Waits(frames)) /\ Len(d.kinds) = l
  <2>1. Len(c.kinds) <= Len(Append(c.kinds, "string"))
    BY <1>3
  <2>2. Turns(c, d, E, Range(c.owned) \cup {l}, Waits(frames))
    BY <1>1, <1>2, <2>1, BecomesTurns
  <2> QED
    BY <1>2, <1>3, <2>2 DEF Becomes
<1>5. Lowered(PushOwned(d, l), frames, e)
  BY <1>1, <1>3, <1>4, OwnLowered
<1> QED
  BY <1>5 DEF ReadLiteral, NextLocal, d

\* The local a name in scope is bound to.
LEMMA KnownIs ==
  ASSUME NEW c, NEW frames, NEW e, Books(c, frames, e), c \in Context, NEW y \in Names, e[y] # 0
  PROVE  c.names[y] = e[y] /\ c.names[y] \in Range(c.owned) /\ c.names[y] \in Nat
         /\ c.kinds[c.names[y]] \in {"string", "record"} /\ c.names[y] \in 1 .. Len(c.kinds)
<1>1. c.names[y] = e[y] /\ c.names[y] \in Range(c.owned) /\ Range(c.owned) \subseteq 1 .. Len(c.kinds)
  BY BooksIs DEF Named, Scoped
<1>2. c.kinds \in Seq({"string", "record"}) /\ Len(c.kinds) \in Nat
  BY ContextIs
<1> QED
  BY <1>1, <1>2, ElementOfSeq

\* A name read on its own line pushes its local to be dropped again, at no cost.
LEMMA UseNameLowered ==
  ASSUME NEW c, NEW frames, NEW e, Lowered(c, frames, e), NEW v \in Range(c.owned)
  PROVE  Lowered(PushOwned(PushAll(c, <<Read(v)>>), v), frames, e)
<1> DEFINE d == PushAll(c, <<Read(v)>>)
           g == PushOwned(d, v)
<1>1. PICK E : /\ Here(c, E, Range(c.owned), Waits(frames)) /\ FramesFlow(c, E, frames) /\ Extends(E, E, c)
               /\ Books(c, frames, e) /\ c \in Context
  BY LoweredIs
<1>2. Becomes(c, d, c.kinds, E, Range(c.owned), Waits(frames))
  BY <1>1, HereRead
<1>3. Len(c.kinds) <= Len(c.kinds) /\ v \in Nat
  BY <1>1, ContextIs, RangeIs
<1> HIDE DEF d
<1>4. Turns(c, d, E, Range(c.owned), Waits(frames))
  BY <1>1, <1>2, <1>3, BecomesTurns
<1>5. Owns(d, g, v)
  BY <1>3, <1>4, PushOwnedIs DEF Turns, Keeps
<1> HIDE DEF g
<1>6. Turns(c, g, E, Range(c.owned), Waits(frames))
  <2>1. /\ Here(d, E, Range(c.owned), Waits(frames)) /\ d.owned = c.owned /\ d.scopes = c.scopes
        /\ d.loops = c.loops /\ d.names = c.names
        /\ Len(c.kinds) <= Len(d.kinds) /\ Len(c.blocks) <= Len(d.blocks)
    BY <1>4 DEF Turns, Keeps
  <2>2. /\ g \in Context /\ g.blocks = d.blocks /\ g.cur = d.cur /\ g.kinds = d.kinds
        /\ g.scopes = d.scopes /\ g.loops = d.loops /\ g.names = d.names /\ g.owned = d.owned
    BY <1>5, <2>1 DEF Owns
  <2>3. Here(g, E, Range(c.owned), Waits(frames))
    BY <2>1, <2>2, GraphSame DEF Here
  <2> QED
    BY <2>1, <2>2, <2>3 DEF Turns, Keeps
<1>7. Lowered(g, frames, e)
  BY <1>1, <1>6, StayLowered
<1> QED
  BY <1>7 DEF g, d

\* The local assigned to holds the literal; the local it came from is zeroed.
LEMMA AssignLiteralLowered ==
  ASSUME NEW c, NEW frames, NEW e, Lowered(c, frames, e), NEW v \in Range(c.owned),
         NEW kind \in {"string", "record"}, NEW l, l = Len(c.kinds) + 1
  PROVE  Lowered(PushAll(AllocLocal(c, kind), <<Literal(l), Move(v, l), Deinit(l)>>), frames, e)
<1> DEFINE d == PushAll(AllocLocal(c, kind), <<Literal(l), Move(v, l), Deinit(l)>>)
<1>1. PICK E : /\ Here(c, E, Range(c.owned), Waits(frames)) /\ FramesFlow(c, E, frames) /\ Extends(E, E, c)
               /\ Books(c, frames, e) /\ c \in Context
  BY LoweredIs
<1>2. Becomes(c, d, Append(c.kinds, kind), E, Range(c.owned), Waits(frames))
  BY <1>1, HereAssignLiteral
<1>3. Len(c.kinds) <= Len(Append(c.kinds, kind))
  BY <1>1, ContextIs, AppendProperties
<1> HIDE DEF d
<1>4. Turns(c, d, E, Range(c.owned), Waits(frames))
  BY <1>1, <1>2, <1>3, BecomesTurns
<1>5. Lowered(d, frames, e)
  BY <1>1, <1>4, StayLowered
<1> QED
  BY <1>5 DEF d

\* The local assigned to holds what the other held.
LEMMA AssignNameLowered ==
  ASSUME NEW c, NEW frames, NEW e, Lowered(c, frames, e), NEW o \in Range(c.owned), NEW v \in Range(c.owned), o # v
  PROVE  Lowered(PushAll(c, <<Move(o, v)>> \o <<Deinit(v)>>), frames, e)
<1> DEFINE d == PushAll(c, <<Move(o, v)>> \o <<Deinit(v)>>)
<1>1. PICK E : /\ Here(c, E, Range(c.owned), Waits(frames)) /\ FramesFlow(c, E, frames) /\ Extends(E, E, c)
               /\ Books(c, frames, e) /\ c \in Context
  BY LoweredIs
<1>2. Becomes(c, d, c.kinds, E, Range(c.owned), Waits(frames))
  BY <1>1, HereAssign
<1>3. Len(c.kinds) <= Len(c.kinds)
  BY <1>1, ContextIs
<1> HIDE DEF d
<1>4. Turns(c, d, E, Range(c.owned), Waits(frames))
  BY <1>1, <1>2, <1>3, BecomesTurns
<1>5. Lowered(d, frames, e)
  BY <1>1, <1>4, StayLowered
<1> QED
  BY <1>5 DEF d

\* A let of a literal.
LEMMA LetLiteralLowered ==
  ASSUME NEW c, NEW frames, NEW e, Lowered(c, frames, e), NEW kind \in {"string", "record"},
         NEW l, l = Len(c.kinds) + 1, NEW x \in Names, \A k \in 1 .. Len(frames) : frames[k].env[x] = 0
  PROVE  Lowered(Bind(PushAll(AllocLocal(c, kind), <<Literal(l)>>), x, l), frames, Put(e, x, l))
<1> DEFINE d == PushAll(AllocLocal(c, kind), <<Literal(l)>>)
<1>1. PICK E : /\ Here(c, E, Range(c.owned), Waits(frames)) /\ FramesFlow(c, E, frames) /\ Extends(E, E, c)
               /\ Books(c, frames, e) /\ c \in Context
  BY LoweredIs
<1>2. Becomes(c, d, Append(c.kinds, kind), E, Range(c.owned) \cup {l}, Waits(frames))
  BY <1>1, HereLiteral
<1>3. Len(c.kinds) \in Nat /\ Len(Append(c.kinds, kind)) = l
  BY <1>1, ContextIs, AppendProperties
<1> HIDE DEF d
<1>4. Turns(c, d, E, Range(c.owned) \cup {l}, Waits(frames)) /\ Len(d.kinds) = l
  <2>1. Len(c.kinds) <= Len(Append(c.kinds, kind))
    BY <1>3
  <2>2. Turns(c, d, E, Range(c.owned) \cup {l}, Waits(frames))
    BY <1>1, <1>2, <2>1, BecomesTurns
  <2> QED
    BY <1>2, <1>3, <2>2 DEF Becomes
<1>5. l \in Len(c.kinds) + 1 .. Len(d.kinds)
  BY <1>3, <1>4
<1>6. Lowered(Bind(d, x, l), frames, Put(e, x, l))
  BY <1>1, <1>4, <1>5, LetLowered
<1> QED
  BY <1>6 DEF d

\* A let of another name takes what that name held.
LEMMA LetMoveLowered ==
  ASSUME NEW c, NEW frames, NEW e, Lowered(c, frames, e), NEW v \in Range(c.owned),
         NEW kind \in {"string", "record"}, kind = c.kinds[v],
         NEW l, l = Len(c.kinds) + 1, NEW x \in Names, \A k \in 1 .. Len(frames) : frames[k].env[x] = 0
  PROVE  Lowered(Bind(PushAll(AllocLocal(c, kind), <<Move(l, v), Deinit(v)>>), x, l), frames, Put(e, x, l))
<1> DEFINE d == PushAll(AllocLocal(c, kind), <<Move(l, v), Deinit(v)>>)
<1>1. PICK E : /\ Here(c, E, Range(c.owned), Waits(frames)) /\ FramesFlow(c, E, frames) /\ Extends(E, E, c)
               /\ Books(c, frames, e) /\ c \in Context
  BY LoweredIs
<1>2. Becomes(c, d, Append(c.kinds, kind), E, Range(c.owned) \cup {l}, Waits(frames))
  BY <1>1, HereMove
<1>3. Len(c.kinds) \in Nat /\ Len(Append(c.kinds, kind)) = l
  BY <1>1, ContextIs, AppendProperties
<1> HIDE DEF d
<1>4. Turns(c, d, E, Range(c.owned) \cup {l}, Waits(frames)) /\ Len(d.kinds) = l
  <2>1. Len(c.kinds) <= Len(Append(c.kinds, kind))
    BY <1>3
  <2>2. Turns(c, d, E, Range(c.owned) \cup {l}, Waits(frames))
    BY <1>1, <1>2, <2>1, BecomesTurns
  <2> QED
    BY <1>2, <1>3, <2>2 DEF Becomes
<1>5. l \in Len(c.kinds) + 1 .. Len(d.kinds)
  BY <1>3, <1>4
<1>6. Lowered(Bind(d, x, l), frames, Put(e, x, l))
  BY <1>1, <1>4, <1>5, LetLowered
<1> QED
  BY <1>6 DEF d

-----------------------------------------------------------------------------
(* Calls and jumps *)

\* Keeping all but blocks, twice.
LEMMA KeepsOn ==
  ASSUME NEW c, NEW d, NEW g, Keeps(c, d), Keeps(d, g)
  PROVE  Keeps(c, g)
BY DEF Keeps

\* Knowledge of one new block.
LEMMA ExtendsPut ==
  ASSUME NEW c \in Context, NEW E \in [Nat -> Knowledge], NEW E2, Extends(E2, E, c),
         NEW b \in Nat, b > Len(c.blocks), NEW st \in Knowledge
  PROVE  /\ Extends(Put(E2, b, st), E, c) /\ Put(E2, b, st)[b] = st
         /\ \A i \in Nat : i # b => Put(E2, b, st)[i] = E2[i]
<1>1. E2 \in [Nat -> Knowledge] /\ \A i \in DOMAIN c.blocks : E2[i] = E[i]
  BY DEF Extends
<1>2. \A i \in DOMAIN c.blocks : i \in Nat /\ i # b
  BY BlocksAre
<1>3. /\ Put(E2, b, st) \in [Nat -> Knowledge] /\ Put(E2, b, st)[b] = st
      /\ \A i \in Nat : i # b => Put(E2, b, st)[i] = E2[i]
  BY <1>1 DEF Put
<1> QED
  BY <1>1, <1>2, <1>3 DEF Extends

\* A new block is one of several new blocks.
LEMMA AllocBbAfter ==
  ASSUME NEW c \in Context, NEW b \in DOMAIN c.blocks, NEW t \in Terminator(Nat, Nat)
  PROVE  AllocBb(Term(c, b, t)) = AllocBbs(Term(c, b, t), 1)
BY TermSets, AllocBbIs DEF Edited

\* A terminator is one whatever the number of locals and blocks.
LEMMA TermTyped ==
  ASSUME NEW n \in Nat, NEW m \in Nat, NEW t \in Terminator(1 .. n, 1 .. m)
  PROVE  t \in Terminator(Nat, Nat)
<1>1. 1 .. n \subseteq Nat /\ 1 .. m \subseteq Nat
  OBVIOUS
<1> QED
  BY <1>1, TerminatorMore

\* After a jump lowering goes on in a block nothing leads to, with whatever
\* the scopes own.
LEMMA JumpOn ==
  ASSUME NEW c, NEW E, NEW st, NEW W, NEW K, Graph(c, E, st, W, K), NEW S, S \subseteq 1 .. Len(c.kinds),
         NEW t \in Terminator(1 .. Len(c.kinds), 1 .. Len(c.blocks)), t # Placeholder, NEW to \in Knowledge,
         Walk(c.kinds, Kept(t), c.blocks[c.cur].stmts, E[c.cur], to), Leads(E, t, to)
  PROVE  \E E2 : Extends(E2, E, c) /\ Turns(c, Jump(c, t), E2, S, W)
<1> DEFINE b == Len(c.blocks) + 1
           E2 == Put(E, b, Holding(S))
           d == At(AllocBbs(Term(c, c.cur, t), 1), b)
<1>1. /\ c \in Context /\ E \in [Nat -> Knowledge] /\ c.cur \in DOMAIN c.blocks /\ W \subseteq DOMAIN c.blocks
      /\ Len(c.blocks) \in Nat /\ Len(c.kinds) \in Nat /\ DOMAIN c.blocks = 1 .. Len(c.blocks)
  BY ContextIs, BlocksAre DEF Graph
<1>2. Extends(E2, E, c) /\ E2[b] = Holding(S)
  BY <1>1, ExtendsItself, ExtendsPut, HoldingIs
<1> HIDE DEF E2
<1>3. Leads(E2, t, to)
  <2> DEFINE A == 1 .. Len(c.kinds)
             B == 1 .. Len(c.blocks)
  <2>1. t \in Terminator(A, B) /\ \A i \in B : E2[i] = E[i]
    BY <1>1, <1>2 DEF Extends
  <2> HIDE DEF A, B
  <2> QED
    BY <2>1, LeadsSame
<1>4. t \in Terminator(1 .. Len(c.kinds), 1 .. Len(c.blocks) + 1)
  <2>1. 1 .. Len(c.blocks) \subseteq 1 .. Len(c.blocks) + 1 /\ 1 .. Len(c.kinds) \subseteq 1 .. Len(c.kinds)
    BY <1>1
  <2> QED
    BY <2>1, TerminatorMore
<1>5. b \in Later(c, 1) /\ 1 \in Nat
  BY <1>1 DEF Later
<1>6. Moves(c, d, E2, b, Len(c.blocks) + 1, (W \cup Later(c, 1)) \ {b}, S)
  BY <1>2, <1>3, <1>4, <1>5, GoFresh
<1>7. (W \cup Later(c, 1)) \ {b} = W
  BY <1>1 DEF Later
<1> HIDE DEF d
<1>8. Turns(c, d, E2, S, W)
  <2>1. Graph(d, E2, Holding(S), W, S) /\ Keeps(c, d) /\ d.kinds = c.kinds /\ Len(d.blocks) = Len(c.blocks) + 1
    BY <1>2, <1>6, <1>7 DEF Moves
  <2> QED
    BY <1>1, <2>1 DEF Turns, Here
<1>9. d = Jump(c, t)
  <2>1. t \in Terminator(Nat, Nat)
    BY <1>1, TermTyped
  <2>2. AllocBb(Term(c, c.cur, t)) = AllocBbs(Term(c, c.cur, t), 1)
    BY <1>1, <2>1, AllocBbAfter
  <2> QED
    BY <2>2 DEF d, Jump, NextBb
<1> QED
  BY <1>2, <1>8, <1>9

\* A jump leads to where less or as much is known.
LEMMA GotoIs ==
  ASSUME NEW n \in Nat, NEW m \in Nat, NEW b \in 1 .. m
  PROVE  /\ Goto(b) \in Terminator(1 .. n, 1 .. m) /\ Goto(b) # Placeholder /\ Kept(Goto(b)) = {}
         /\ \A E, st : Weaker(st, E[b]) => Leads(E, Goto(b), st)
<1>1. Goto(b).op = "Goto" /\ Goto(b).to = {b} /\ Placeholder.op = "Unreachable"
  BY DEF Goto, Placeholder
<1>2. Goto(b) \in Terminator(1 .. n, 1 .. m)
  BY DEF Goto, Terminator
<1>3. Kept(Goto(b)) = {}
  BY <1>1 DEF Kept, Values, Range
<1>4. \A E, st : Weaker(st, E[b]) => Leads(E, Goto(b), st)
  BY <1>1 DEF Leads
<1>5. Goto(b) # Placeholder
  BY <1>1
<1> QED
  BY <1>2, <1>3, <1>4, <1>5

\* A return hands out what it names, and nothing else may be held.
LEMMA ReturnIs ==
  ASSUME NEW n \in Nat, NEW m \in Nat, NEW values \in {<<>>} \cup {<<l>> : l \in 1 .. n}
  PROVE  /\ Return(values) \in Terminator(1 .. n, 1 .. m) /\ Return(values) # Placeholder
         /\ Kept(Return(values)) = Range(values)
         /\ \A E, S : S \subseteq Range(values) => Leads(E, Return(values), Holding(S))
<1>1. /\ Return(values).op = "Return" /\ Return(values).values = values /\ Return(values).to = {}
      /\ Placeholder.op = "Unreachable"
  BY DEF Return, Placeholder
<1>2. Return(values) \in Terminator(1 .. n, 1 .. m)
  BY DEF Return, Terminator
<1>3. Kept(Return(values)) = Range(values)
  BY <1>1 DEF Kept, Values
<1>4. ASSUME NEW E, NEW S, S \subseteq Range(values) PROVE Leads(E, Return(values), Holding(S))
  <2>1. \A l \in Nat : Holding(S)[l] = IF l \in S THEN "held" ELSE "stale"
    BY HoldingIs
  <2>2. \A l \in Nat : Holding(S)[l] \in {"stale", "zero"} \/ (l \in Kept(Return(values)) /\ Holding(S)[l] # "copy")
    BY <1>3, <1>4, <2>1
  <2> QED
    BY <1>1, <2>2 DEF Leads
<1>5. Return(values) # Placeholder
  BY <1>1
<1> QED
  BY <1>2, <1>3, <1>4, <1>5

\* The locals owned since a scope was opened are dropped, last first.
LEMMA DropsOfIs ==
  ASSUME NEW S, NEW s \in Seq(S)
  PROVE  /\ Reverse(s) \in Seq(S) /\ Len(Reverse(s)) = Len(s) /\ Range(Reverse(s)) = Range(s)
         /\ DropsOf(s) = [i \in 1 .. Len(Reverse(s)) |-> DropOf(Reverse(s)[i])]
         /\ (\A i, j \in 1 .. Len(s) : i # j => s[i] # s[j]) =>
               \A i, j \in 1 .. Len(s) : i # j => Reverse(s)[i] # Reverse(s)[j]
<1> DEFINE r == Reverse(s)
           n == Len(s)
<1>1. n \in Nat /\ DOMAIN s = 1 .. n /\ \A i \in 1 .. n : s[i] \in S
  BY LenProperties, ElementOfSeq
<1>2. r = [i \in 1 .. n |-> s[(n - i) + 1]]
  BY DEF Reverse
<1>3. \A i \in 1 .. n : (n - i) + 1 \in 1 .. n /\ r[i] = s[(n - i) + 1]
  BY <1>1, <1>2
<1>4. r \in [1 .. n -> S]
  BY <1>1, <1>2, <1>3
<1> HIDE DEF r
<1>5. r \in Seq(S) /\ Len(r) = n /\ DOMAIN r = 1 .. n
  BY <1>1, <1>4, SeqDef
<1>6. Range(r) = Range(s)
  <2>1. \A i \in 1 .. n : s[i] = r[(n - i) + 1] /\ (n - i) + 1 \in 1 .. n
    BY <1>1, <1>3
  <2>2. (\A i \in 1 .. n : s[i] \in Range(s)) /\ \A l \in Range(s) : \E i \in 1 .. n : s[i] = l
    BY RangeIs
  <2>3. (\A i \in 1 .. n : r[i] \in Range(r)) /\ \A l \in Range(r) : \E i \in 1 .. n : r[i] = l
    BY <1>5, RangeIs
  <2>4. Range(r) \subseteq Range(s)
    BY <1>3, <2>2, <2>3
  <2>5. Range(s) \subseteq Range(r)
    BY <2>1, <2>2, <2>3
  <2> QED
    BY <2>4, <2>5
<1>7. DropsOf(s) = [i \in 1 .. Len(r) |-> DropOf(r[i])]
  BY <1>1, <1>5 DEF DropsOf, r
<1>8. ASSUME \A i, j \in 1 .. n : i # j => s[i] # s[j], NEW i \in 1 .. n, NEW j \in 1 .. n, i # j
      PROVE  r[i] # r[j]
  BY <1>1, <1>3, <1>8
<1> QED
  BY <1>5, <1>6, <1>7, <1>8 DEF r

-----------------------------------------------------------------------------
(* Drops *)

\* A sequence over S whose elements are in T is one over T.
LEMMA SeqIn ==
  ASSUME NEW S, NEW T, NEW s \in Seq(S), \A i \in 1 .. Len(s) : s[i] \in T
  PROVE  s \in Seq(T)
BY LenProperties, SeqDef

\* The end of a sequence.
LEMMA SinceIs ==
  ASSUME NEW S, NEW o \in Seq(S), NEW k \in 0 .. Len(o), NEW t, t = SubSeq(o, k + 1, Len(o))
  PROVE  /\ t \in Seq(S) /\ Len(t) = Len(o) - k
         /\ \A i \in 1 .. Len(t) : t[i] = o[k + i]
<1>1. Len(o) \in Nat /\ k \in Nat /\ k + 1 \in Int /\ Len(o) \in Int
  BY LenProperties
<1>2. \A i \in k + 1 .. Len(o) : o[i] \in S
  BY <1>1, ElementOfSeq
<1>3. /\ t \in Seq(S) /\ Len(t) = IF k + 1 <= Len(o) THEN Len(o) - (k + 1) + 1 ELSE 0
      /\ \A i \in 1 .. Len(o) - (k + 1) + 1 : t[i] = o[k + 1 + i - 1]
  BY <1>1, <1>2, SubSeqProperties
<1>4. Len(t) = Len(o) - k
  BY <1>1, <1>3
<1>5. ASSUME NEW i \in 1 .. Len(t) PROVE t[i] = o[k + i]
  <2>1. i \in 1 .. Len(o) - (k + 1) + 1 /\ k + 1 + i - 1 = k + i
    BY <1>1, <1>4, <1>5
  <2> QED
    BY <1>3, <2>1
<1> QED
  BY <1>3, <1>4, <1>5

\* The first n of the locals owned.
FirstOwned(c, n) == {c.owned[i] : i \in 1 .. n}

\* The locals owned since a snapshot are dropped; X: what no scope owns.
LEMMA DropSince ==
  ASSUME NEW c, NEW E, NEW W, NEW X, Here(c, E, Range(c.owned) \cup X, W), X \cap Range(c.owned) = {},
         \A i, j \in 1 .. Len(c.owned) : i # j => c.owned[i] # c.owned[j], NEW k \in 0 .. Len(c.owned)
  PROVE  Becomes(c, PushAll(c, DropsOf(OwnedSince(c, k))), c.kinds, E, FirstOwned(c, k) \cup X, W)
<1> DEFINE o == c.owned
           n == Len(c.kinds)
           ls == OwnedSince(c, k)
           r == Reverse(ls)
           S == Range(o) \cup X
<1>1. c \in Context /\ n \in Nat /\ S \subseteq 1 .. n /\ o \in Seq(Nat) /\ Len(o) \in Nat
  BY HereIs, ContextIs
<1>2. (\A i \in 1 .. Len(o) : o[i] \in Range(o)) /\ \A l \in Range(o) : \E i \in 1 .. Len(o) : o[i] = l
  BY <1>1, RangeIs
<1>3. o \in Seq(1 .. n)
  <2>1. \A i \in 1 .. Len(o) : o[i] \in 1 .. n
    BY <1>1, <1>2
  <2> QED
    BY <1>1, <2>1, SeqDef
<1>4. ls = SubSeq(o, k + 1, Len(o))
  BY DEF OwnedSince
<1>0. k \in 0 .. Len(o)
  OBVIOUS
<1> HIDE DEF o, ls, n
<1>5. /\ ls \in Seq(1 .. n) /\ Len(ls) = Len(o) - k /\ \A i \in 1 .. Len(ls) : ls[i] = o[k + i]
  <2> DEFINE T == 1 .. n
  <2>1. o \in Seq(T)
    BY <1>3
  <2> HIDE DEF T
  <2>2. ls \in Seq(T) /\ Len(ls) = Len(o) - k /\ \A i \in 1 .. Len(ls) : ls[i] = o[k + i]
    BY <1>0, <1>4, <2>1, SinceIs
  <2> QED
    BY <2>2 DEF T
<1>6. \A i, j \in 1 .. Len(ls) : i # j => ls[i] # ls[j]
  <2>1. ASSUME NEW i \in 1 .. Len(ls), NEW j \in 1 .. Len(ls), i # j PROVE ls[i] # ls[j]
    <3>1. k + i \in 1 .. Len(o) /\ k + j \in 1 .. Len(o) /\ k + i # k + j
      BY <1>1, <1>5, <2>1
    <3>2. o[k + i] # o[k + j]
      BY <3>1 DEF o
    <3> QED
      BY <1>5, <2>1, <3>2
  <2> QED
    BY <2>1
<1>7. /\ r \in Seq(1 .. n) /\ Len(r) = Len(ls) /\ Range(r) = Range(ls)
      /\ DropsOf(ls) = [i \in 1 .. Len(r) |-> DropOf(r[i])]
  BY <1>5, DropsOfIs
<1>8. \A i, j \in 1 .. Len(ls) : i # j => r[i] # r[j]
  BY <1>5, <1>6, DropsOfIs
<1>9. \A l : l \in Range(ls) <=> \E i \in k + 1 .. Len(o) : o[i] = l
  <2>1. (\A i \in 1 .. Len(ls) : ls[i] \in Range(ls)) /\ \A l \in Range(ls) : \E i \in 1 .. Len(ls) : ls[i] = l
    BY <1>5, RangeIs
  <2>2. ASSUME NEW l \in Range(ls) PROVE \E i \in k + 1 .. Len(o) : o[i] = l
    <3>1. PICK i \in 1 .. Len(ls) : ls[i] = l
      BY <2>1, <2>2
    <3>2. k + i \in k + 1 .. Len(o) /\ o[k + i] = l
      BY <1>1, <1>5, <3>1, SMTT(20)
    <3> QED
      BY <3>2
  <2>3. ASSUME NEW i \in k + 1 .. Len(o) PROVE o[i] \in Range(ls)
    <3>1. i - k \in 1 .. Len(ls) /\ k + (i - k) = i
      BY <1>1, <1>5, <2>3
    <3>2. ls[i - k] = o[i]
      BY <1>5, <3>1
    <3> QED
      BY <2>1, <3>1, <3>2
  <2> QED
    BY <2>2, <2>3
<1>10. Range(r) \subseteq S
  <2>1. \A i \in k + 1 .. Len(o) : i \in 1 .. Len(o)
    BY <1>1
  <2> QED
    BY <1>2, <1>7, <1>9, <2>1
<1>11. S \ Range(r) = FirstOwned(c, k) \cup X
  <2>1. \A i \in 1 .. Len(o) : i \in 1 .. k \/ i \in k + 1 .. Len(o)
    BY <1>1
  <2>2. \A i \in 1 .. k : i \in 1 .. Len(o) /\ i \notin k + 1 .. Len(o)
    BY <1>1 DEF o
  <2>3. \A i \in k + 1 .. Len(o) : i \in 1 .. Len(o)
    BY <1>1
  <2>4. \A i, j \in 1 .. Len(o) : i # j => o[i] # o[j]
    BY DEF o
  <2>5. FirstOwned(c, k) = {o[i] : i \in 1 .. k}
    BY DEF FirstOwned, o
  <2>6. S \ Range(r) \subseteq FirstOwned(c, k) \cup X
    BY <1>2, <1>7, <1>9, <2>1, <2>5
  <2>7. X \cap Range(ls) = {}
    <3>1. \A l \in Range(ls) : l \in Range(o)
      BY <1>2, <1>9, <2>3
    <3> QED
      BY <3>1 DEF o
  <2>8. FirstOwned(c, k) \cap Range(ls) = {}
    BY <1>9, <2>2, <2>3, <2>4, <2>5
  <2>9. FirstOwned(c, k) \subseteq S
    BY <1>2, <2>2, <2>5
  <2> QED
    BY <1>7, <2>6, <2>7, <2>8, <2>9
<1> HIDE DEF r
<1>12. Becomes(c, PushAll(c, DropsOf(ls)), c.kinds, E, S \ Range(r), W)
  BY <1>7, <1>8, <1>10, HereDrops DEF n, S, o
<1> QED
  BY <1>11, <1>12 DEF ls

-----------------------------------------------------------------------------
(* Jumps *)

\* The current block of d, which is c's with more statements, may end with t.
MayEnd(c, d, E, t, W) ==
  /\ Same(c, d) /\ d.kinds = c.kinds
  /\ t \in Terminator(1 .. Len(c.kinds), 1 .. Len(c.blocks)) /\ t # Placeholder
  /\ \E st, K : Graph(d, E, st, W, K)
  /\ \E to \in Knowledge : Walk(d.kinds, Kept(t), d.blocks[d.cur].stmts, E[d.cur], to) /\ Leads(E, t, to)

\* A turn after a change within blocks is a turn.
LEMMA TurnsOn ==
  ASSUME NEW c, NEW d, NEW g, Keeps(c, d), d.kinds = c.kinds, Len(d.blocks) = Len(c.blocks),
         NEW E, NEW S, NEW W, Turns(d, g, E, S, W)
  PROVE  Turns(c, g, E, S, W)
BY KeepsOn DEF Turns

\* Extending depends on the number of blocks.
LEMMA ExtendsSame ==
  ASSUME NEW c \in Context, NEW d \in Context, Len(d.blocks) = Len(c.blocks), NEW E, NEW E2, Extends(E2, E, d)
  PROVE  Extends(E2, E, c)
BY BlocksAre DEF Extends

\* After a jump, lowering goes on in a block nothing leads to.
LEMMA JumpLowered ==
  ASSUME NEW c, NEW frames, NEW e, Books(c, frames, e), NEW E, FramesFlow(c, E, frames), c \in Context,
         NEW d, NEW t, MayEnd(c, d, E, t, Waits(frames))
  PROVE  Lowered(Jump(d, t), frames, e)
<1> DEFINE S == Range(c.owned)
           W == Waits(frames)
           g == Jump(d, t)
<1>1. /\ Keeps(c, d) /\ d.kinds = c.kinds /\ Len(d.blocks) = Len(c.blocks) /\ t # Placeholder
      /\ t \in Terminator(1 .. Len(d.kinds), 1 .. Len(d.blocks)) /\ d \in Context
  BY DEF MayEnd, Same, Keeps
<1>2. PICK st, K : Graph(d, E, st, W, K)
  BY DEF MayEnd
<1>3. PICK to \in Knowledge : Walk(d.kinds, Kept(t), d.blocks[d.cur].stmts, E[d.cur], to) /\ Leads(E, t, to)
  BY DEF MayEnd
<1>4. S \subseteq 1 .. Len(d.kinds)
  BY <1>1, BooksIs DEF Scoped
<1> HIDE DEF S, W
<1>5. PICK E2 : Extends(E2, E, d) /\ Turns(d, Jump(d, t), E2, S, W)
  BY <1>1, <1>2, <1>3, <1>4, JumpOn
<1> HIDE DEF g
<1>6. Turns(c, g, E2, S, W)
  BY <1>1, <1>5, TurnsOn DEF g
<1>7. Extends(E2, E, c)
  BY <1>1, <1>5, ExtendsSame
<1>8. Lowered(g, frames, e)
  BY <1>6, <1>7, StayLowered DEF S, W
<1> QED
  BY <1>8 DEF g

\* A jump to a block where what is held here, or less, is known.
LEMMA GotoEnds ==
  ASSUME NEW c \in Context, NEW d, NEW E, NEW T, NEW W, Becomes(c, d, c.kinds, E, T, W),
         NEW b \in 1 .. Len(c.blocks), Weaker(Holding(T), E[b])
  PROVE  MayEnd(c, d, E, Goto(b), W)
<1> DEFINE t == Goto(b)
<1>1. Len(c.kinds) \in Nat /\ Len(c.blocks) \in Nat
  BY ContextIs
<1>2. /\ t \in Terminator(1 .. Len(c.kinds), 1 .. Len(c.blocks)) /\ t # Placeholder /\ Kept(t) = {}
      /\ Leads(E, t, Holding(T))
  BY <1>1, GotoIs
<1> HIDE DEF t
<1>3. Graph(d, E, Holding(T), W, T) /\ Same(c, d) /\ d.kinds = c.kinds
  BY DEF Becomes, Here
<1>4. Kept(t) \subseteq T
  BY <1>2
<1>5. Walk(d.kinds, Kept(t), d.blocks[d.cur].stmts, E[d.cur], Holding(T)) /\ Holding(T) \in Knowledge
  BY <1>3, <1>4, AtTheEnd
<1>6. MayEnd(c, d, E, t, W)
  BY <1>2, <1>3, <1>5 DEF MayEnd
<1> QED
  BY <1>6 DEF t

\* The loop on top of the loop stack is an open construct.
LEMMA LoopTop ==
  ASSUME NEW c \in Context, NEW frames, Looped(c, frames), c.loops # <<>>
  PROVE  \E k \in 1 .. Len(frames) :
           frames[k].kind = "loop" /\ Last(c.loops) = LoopOf(c, frames[k], k)
<1>1. Len(c.loops) \in Nat /\ Len(c.loops) \in 1 .. Len(c.loops)
  <2>1. c.loops \in Seq([break : Nat, continue : Nat, drop : Nat]) /\ Len(c.loops) \in Nat
    BY ContextIs
  <2>2. Len(c.loops) # 0
    BY <2>1, EmptySeq
  <2> QED
    BY <2>1, <2>2
<1>2. Last(c.loops) = c.loops[Len(c.loops)]
  BY DEF Last
<1>3. PICK w \in [1 .. Len(c.loops) -> 1 .. Len(frames)] :
        \A j \in 1 .. Len(c.loops) : frames[w[j]].kind = "loop" /\ c.loops[j] = LoopOf(c, frames[w[j]], w[j])
  BY DEF Looped
<1>4. w[Len(c.loops)] \in 1 .. Len(frames)
  BY <1>1
<1> QED
  BY <1>1, <1>2, <1>3, <1>4

\* Where the scopes around an open construct end among the owned locals.
LEMMA ScopeIs ==
  ASSUME NEW c \in Context, NEW n \in Nat, Scoped(c, n), NEW k \in 1 .. n
  PROVE  /\ c.scopes[k + 1] \in 0 .. Len(c.owned) /\ FirstOwned(c, c.scopes[k + 1]) = Around(c, k)
         /\ Around(c, k) \subseteq Range(c.owned)
         /\ \A i, j \in 1 .. Len(c.owned) : i # j => c.owned[i] # c.owned[j]
<1>1. Len(c.scopes) = n + 1 /\ k + 1 \in 1 .. n + 1 /\ n + 1 \in 1 .. n + 1 /\ k + 1 <= n + 1
  BY DEF Scoped
<1>2. c.scopes[k + 1] <= c.scopes[n + 1] /\ c.scopes[n + 1] <= Len(c.owned)
  BY <1>1 DEF Scoped
<1>3. c.scopes[k + 1] \in Nat /\ c.scopes[n + 1] \in Nat /\ Len(c.owned) \in Nat /\ c.owned \in Seq(Nat)
  BY <1>1, ContextIs
<1>4. c.scopes[k + 1] \in 0 .. Len(c.owned)
  BY <1>2, <1>3
<1>5. Around(c, k) \subseteq Range(c.owned)
  <2>1. \A i \in 1 .. c.scopes[k + 1] : i \in 1 .. Len(c.owned)
    BY <1>3, <1>4
  <2>2. \A i \in 1 .. Len(c.owned) : c.owned[i] \in Range(c.owned)
    BY <1>3, RangeIs
  <2> QED
    BY <2>1, <2>2 DEF Around
<1> QED
  BY <1>4, <1>5 DEF Around, FirstOwned, Scoped

\* A break or continue drops what the loop's body owns, then jumps.
LEMMA LeaveLowered ==
  ASSUME NEW c, NEW frames, NEW e, Lowered(c, frames, e), c.loops # <<>>,
         NEW where \in {"break", "continue"}, NEW top, top = Last(c.loops)
  PROVE  Lowered(Jump(PushAll(c, DropsOf(OwnedSince(c, top.drop))), Goto(top[where])), frames, e)
<1> DEFINE d == PushAll(c, DropsOf(OwnedSince(c, top.drop)))
<1>1. PICK E : /\ Here(c, E, Range(c.owned), Waits(frames)) /\ FramesFlow(c, E, frames) /\ Extends(E, E, c)
               /\ Books(c, frames, e) /\ c \in Context
  BY LoweredIs
<1>2. /\ Scoped(c, Len(frames)) /\ Framed(frames, Len(c.blocks)) /\ Looped(c, frames)
      /\ frames \in Seq(FrameSet) /\ Len(frames) \in Nat
  BY <1>1, BooksIs
<1>3. PICK k \in 1 .. Len(frames) : frames[k].kind = "loop" /\ top = LoopOf(c, frames[k], k)
  BY <1>1, <1>2, LoopTop
<1>4. top.drop = c.scopes[k + 1] /\ top["break"] = frames[k].next /\ top["continue"] = frames[k].exit
  BY <1>3 DEF LoopOf
<1>5. /\ c.scopes[k + 1] \in 0 .. Len(c.owned) /\ FirstOwned(c, c.scopes[k + 1]) = Around(c, k)
      /\ \A i, j \in 1 .. Len(c.owned) : i # j => c.owned[i] # c.owned[j]
  BY <1>1, <1>2, ScopeIs
<1>6. Becomes(c, d, c.kinds, E, Around(c, k), Waits(frames))
  <2>1. Here(c, E, Range(c.owned) \cup {}, Waits(frames)) /\ {} \cap Range(c.owned) = {}
    BY <1>1
  <2>2. Becomes(c, PushAll(c, DropsOf(OwnedSince(c, c.scopes[k + 1]))), c.kinds, E,
                FirstOwned(c, c.scopes[k + 1]) \cup {}, Waits(frames))
    BY <1>5, <2>1, DropSince
  <2>3. FirstOwned(c, c.scopes[k + 1]) \cup {} = Around(c, k)
    BY <1>5
  <2> QED
    BY <1>4, <2>2, <2>3
<1> HIDE DEF d
<1>7. top[where] \in 1 .. Len(c.blocks) /\ Weaker(Holding(Around(c, k)), E[top[where]])
  <2>1. FrameFits(frames[k], k, Len(c.blocks)) /\ FrameFlows(c, E, frames[k], k)
    BY <1>1, <1>2, <1>3 DEF Framed, FramesFlow
  <2>2. frames[k].exit # 0 /\ frames[k].exit \in 1 .. Len(c.blocks) /\ frames[k].next \in 1 .. Len(c.blocks)
    BY <1>3, <2>1 DEF FrameFits
  <2>3. E[frames[k].next] = Holding(Around(c, k)) /\ Weaker(Holding(Around(c, k)), E[frames[k].exit])
    BY <2>1, <2>2 DEF FrameFlows
  <2>4. Weaker(Holding(Around(c, k)), Holding(Around(c, k)))
    BY HoldingIs, WeakerIs
  <2> QED
    BY <1>4, <2>2, <2>3, <2>4
<1>8. MayEnd(c, d, E, Goto(top[where]), Waits(frames))
  BY <1>1, <1>6, <1>7, GotoEnds
<1>9. Lowered(Jump(d, Goto(top[where])), frames, e)
  BY <1>1, <1>8, JumpLowered
<1> QED
  BY <1>9 DEF d

\* A return drops everything that is owned.
LEMMA FlushIs ==
  ASSUME NEW c \in Context
  PROVE  /\ FlushAllForReturn(c) = PushAll(c, [i \in 1 .. Len(c.owned) |-> DropOf(c.owned[i])])
         /\ c.owned \in Seq(Nat) /\ Len(c.owned) \in Nat
BY ContextIs DEF FlushAllForReturn

\* Everything the scopes own is dropped, and the unit is returned.
LEMMA ReturnUnitLowered ==
  ASSUME NEW c, NEW frames, NEW e, Lowered(c, frames, e)
  PROVE  Lowered(Jump(FlushAllForReturn(c), Return(<<>>)), frames, e)
<1> DEFINE d == FlushAllForReturn(c)
           S == Range(c.owned)
           W == Waits(frames)
           t == Return(<<>>)
           n == Len(c.kinds)
<1>1. PICK E : /\ Here(c, E, S, W) /\ FramesFlow(c, E, frames) /\ Extends(E, E, c)
               /\ Books(c, frames, e) /\ c \in Context
  BY LoweredIs
<1>2. /\ c.owned \in Seq(1 .. n) /\ \A i, j \in 1 .. Len(c.owned) : i # j => c.owned[i] # c.owned[j]
      /\ n \in Nat /\ Len(c.blocks) \in Nat /\ S \ Range(c.owned) = {}
  <2>1. Range(c.owned) \subseteq 1 .. n /\ c.owned \in Seq(Nat)
    BY <1>1, BooksIs, ContextIs DEF Scoped
  <2>2. \A i \in 1 .. Len(c.owned) : c.owned[i] \in Range(c.owned)
    BY <2>1, RangeIs
  <2>3. c.owned \in Seq(1 .. n)
    <3>1. \A i \in 1 .. Len(c.owned) : c.owned[i] \in 1 .. n
      BY <2>1, <2>2
    <3> QED
      BY <2>1, <3>1, SeqIn
  <2> QED
    BY <1>1, <2>3, BooksIs, ContextIs DEF Scoped
<1>3. Becomes(c, d, c.kinds, E, {}, W)
  <2> DEFINE drops == [i \in 1 .. Len(c.owned) |-> DropOf(c.owned[i])]
  <2>1. d = PushAll(c, drops)
    BY <1>1, FlushIs
  <2> HIDE DEF drops
  <2>2. Becomes(c, PushAll(c, drops), c.kinds, E, S \ Range(c.owned), W)
    BY <1>1, <1>2, HereDrops DEF drops
  <2> QED
    BY <1>2, <2>1, <2>2
<1>4. /\ t \in Terminator(1 .. n, 1 .. Len(c.blocks)) /\ t # Placeholder
      /\ Kept(t) = {} /\ Leads(E, t, Holding({}))
  <2>1. Range(<<>>) = {}
    BY DEF Range
  <2> QED
    BY <1>2, <2>1, ReturnIs
<1> HIDE DEF d, t
<1>5. Graph(d, E, Holding({}), W, {}) /\ Same(c, d) /\ d.kinds = c.kinds
  BY <1>3 DEF Becomes, Here
<1>6. Walk(d.kinds, Kept(t), d.blocks[d.cur].stmts, E[d.cur], Holding({})) /\ Holding({}) \in Knowledge
  BY <1>4, <1>5, AtTheEnd
<1>7. MayEnd(c, d, E, t, W)
  BY <1>4, <1>5, <1>6 DEF MayEnd
<1>8. Lowered(Jump(d, t), frames, e)
  BY <1>1, <1>7, JumpLowered
<1> QED
  BY <1>8 DEF d, t

\* Everything but the value returned is dropped.
LEMMA ReturnNameLowered ==
  ASSUME NEW c, NEW frames, NEW e, Lowered(c, frames, e), NEW v \in Range(c.owned)
  PROVE  Lowered(Jump(FlushAllForReturn(c), Return(<<v>>)), frames, e)
<1> DEFINE d == FlushAllForReturn(c)
           S == Range(c.owned)
           W == Waits(frames)
           t == Return(<<v>>)
           n == Len(c.kinds)
           drops == [i \in 1 .. Len(c.owned) |-> DropOf(c.owned[i])]
           loose == Put(Holding({}), v, "loose")
<1>1. PICK E : /\ Here(c, E, S, W) /\ FramesFlow(c, E, frames) /\ Extends(E, E, c)
               /\ Books(c, frames, e) /\ c \in Context
  BY LoweredIs
<1>2. /\ c.owned \in Seq(1 .. n) /\ \A i, j \in 1 .. Len(c.owned) : i # j => c.owned[i] # c.owned[j]
      /\ n \in Nat /\ Len(c.blocks) \in Nat /\ v \in 1 .. n /\ v \in Nat
      /\ \A i \in 1 .. Len(c.owned) : c.owned[i] \in S
  <2>1. Range(c.owned) \subseteq 1 .. n /\ c.owned \in Seq(Nat)
    BY <1>1, BooksIs, ContextIs DEF Scoped
  <2>2. \A i \in 1 .. Len(c.owned) : c.owned[i] \in Range(c.owned)
    BY <2>1, RangeIs
  <2>3. c.owned \in Seq(1 .. n)
    <3>1. \A i \in 1 .. Len(c.owned) : c.owned[i] \in 1 .. n
      BY <2>1, <2>2
    <3> QED
      BY <2>1, <3>1, SeqIn
  <2> QED
    BY <1>1, <2>1, <2>2, <2>3, BooksIs, ContextIs DEF Scoped
<1>3. d = PushAll(c, drops) /\ drops = [i \in 1 .. Len(c.owned) |-> DropOf(c.owned[i])]
  BY <1>1, FlushIs
<1>4. /\ t \in Terminator(1 .. n, 1 .. Len(c.blocks)) /\ t # Placeholder
      /\ Kept(t) = {v} /\ Leads(E, t, Holding({v}))
  <2>1. Range(<<v>>) = {v} /\ <<v>> \in {<<>>} \cup {<<l>> : l \in 1 .. n}
    BY <1>2 DEF Range
  <2> QED
    BY <1>2, <2>1, ReturnIs
<1>5. /\ Holding(S) \in Knowledge /\ Settled(Holding(S)) /\ Holding({}) \in Knowledge /\ Holding({v}) \in Knowledge
      /\ loose \in Knowledge /\ Weaker(Holding({}), loose) /\ Weaker(Holding({v}), loose)
  <2>1. /\ \A l \in Nat : Holding({})[l] = "stale" /\ Holding({v})[l] = IF l = v THEN "held" ELSE "stale"
        /\ Holding(S) \in Knowledge /\ Settled(Holding(S)) /\ Holding({}) \in Knowledge /\ Holding({v}) \in Knowledge
    BY HoldingIs
  <2>2. loose \in Knowledge /\ loose[v] = "loose" /\ \A l \in Nat : l # v => loose[l] = Holding({})[l]
    BY <1>2, <2>1, PutIs DEF Statuses
  <2> HIDE DEF loose
  <2> QED
    BY <2>1, <2>2 DEF Weaker
<1> HIDE DEF drops, S, t, loose, d, n
<1>6. ASSUME NEW kept
      PROVE  /\ Walk(c.kinds, kept, drops, Holding(S), Dropped(Holding(S), S \ kept))
             /\ drops \in Seq(Statement(1 .. n)) /\ Dropped(Holding(S), S \ kept) \in Knowledge
  <2>1. \A i \in 1 .. Len(c.owned) : c.owned[i] \in kept \/ Holding(S)[c.owned[i]] \in {"held", "zero"}
    <3>1. \A l \in Nat : Holding(S)[l] = IF l \in S THEN "held" ELSE "stale"
      BY HoldingIs
    <3>2. \A i \in 1 .. Len(c.owned) : c.owned[i] \in Nat
      BY <1>1, ContextIs
    <3> QED
      BY <1>2, <3>1, <3>2
  <2>2. /\ Walk(c.kinds, kept, drops, Holding(S), Dropped(Holding(S), Range(c.owned) \ kept))
        /\ Dropped(Holding(S), Range(c.owned) \ kept) \in Knowledge
        /\ drops \in Seq(Statement(1 .. Len(c.kinds)))
    BY <1>2, <1>3, <1>5, <2>1, WalkDrops DEF n
  <2> QED
    BY <2>2 DEF n, S
<1>7. /\ Dropped(Holding(S), S \ {}) = Holding({}) /\ Dropped(Holding(S), S \ {v}) = Holding({v})
  <2>1. v \in S
    BY DEF S
  <2> QED
    BY <2>1 DEF Dropped, Holding
<1>8. Walks(c.kinds, {v}, drops, Holding(S), loose)
  <2>1. /\ Len(drops) \in Nat /\ \A i \in 1 .. Len(drops) : drops[i] \in Statement(1 .. Len(c.kinds))
        /\ Len(c.kinds) \in Nat
    BY <1>2, <1>6, LenProperties, ElementOfSeq DEF n
  <2>2. Walk(c.kinds, {}, drops, Holding(S), loose)
    <3>1. Walk(c.kinds, {}, drops, Holding(S), Holding({}))
      BY <1>6, <1>7
    <3> QED
      BY <1>5, <2>1, <3>1, WalkWeaker
  <2>3. Walk(c.kinds, {v}, drops, Holding(S), loose)
    <3>1. Walk(c.kinds, {v}, drops, Holding(S), Holding({v}))
      BY <1>6, <1>7
    <3> QED
      BY <1>5, <2>1, <3>1, WalkWeaker
  <2>4. \A kept \in SUBSET {v} : kept = {} \/ kept = {v}
    OBVIOUS
  <2> QED
    BY <2>2, <2>3, <2>4 DEF Walks
<1>9. Graph(c, E, Holding(S), W, {v})
  <2>1. Graph(c, E, Holding(S), W, S) /\ {v} \subseteq S
    BY <1>1 DEF Here, S
  <2> QED
    BY <1>5, <2>1, WeakerIs, GraphWeaker
<1>10. Pushes(c, d, E, loose, W, {v})
  <2>1. drops \in Seq(Statement(1 .. Len(c.kinds)))
    BY <1>6 DEF n
  <2>2. Pushes(c, PushAll(c, drops), E, loose, W, {v})
    BY <1>5, <1>8, <1>9, <2>1, GraphPush
  <2> QED
    BY <1>3, <2>2
<1>11. Walk(d.kinds, Kept(t), d.blocks[d.cur].stmts, E[d.cur], Holding({v}))
  <2>1. Walk(c.kinds, {v}, drops, Holding(S), Holding({v})) /\ drops \in Seq(Statement(1 .. Len(c.kinds)))
    BY <1>6, <1>7 DEF n
  <2>2. Walk(c.kinds, {v}, PushAll(c, drops).blocks[c.cur].stmts, E[c.cur], Holding({v}))
    BY <1>5, <1>9, <2>1, WalkPushed
  <2>3. d.kinds = c.kinds /\ d.cur = c.cur
    BY <1>10 DEF Pushes
  <2> QED
    BY <1>3, <1>4, <2>2, <2>3
<1>12. MayEnd(c, d, E, t, W)
  <2>1. Same(c, d) /\ d.kinds = c.kinds /\ Graph(d, E, loose, W, {v})
    BY <1>10 DEF Pushes, Same
  <2> QED
    BY <1>4, <1>5, <1>11, <2>1 DEF MayEnd, n
<1>13. Lowered(Jump(d, t), frames, e)
  BY <1>1, <1>12, JumpLowered
<1> QED
  BY <1>13 DEF d, t

\* A call takes the argument that is held.
LEMMA CallIs ==
  ASSUME NEW n \in Nat, NEW m \in Nat, NEW b \in 1 .. m, NEW v \in 1 .. n
  PROVE  /\ CallOwned(v, b) \in Terminator(1 .. n, 1 .. m) /\ CallOwned(v, b) # Placeholder
         /\ Kept(CallOwned(v, b)) = {}
         /\ \A E, st : Settled(st) /\ st[v] \in {"held", "zero"} /\ Weaker(Put(st, v, "stale"), E[b]) =>
                         Leads(E, CallOwned(v, b), st)
<1>1. CallOwned(v, b).op = "Call" /\ CallOwned(v, b).to = {b} /\ CallOwned(v, b).arg = v /\ Placeholder.op = "Unreachable"
  BY DEF CallOwned, Placeholder
<1>2. CallOwned(v, b) \in Terminator(1 .. n, 1 .. m)
  BY DEF CallOwned, Terminator
<1>3. Kept(CallOwned(v, b)) = {}
  BY <1>1 DEF Kept, Values, Range
<1>4. \A E, st : Settled(st) /\ st[v] \in {"held", "zero"} /\ Weaker(Put(st, v, "stale"), E[b]) =>
                         Leads(E, CallOwned(v, b), st)
  BY <1>1 DEF Leads
<1>5. CallOwned(v, b) # Placeholder
  BY <1>1
<1> QED
  BY <1>2, <1>3, <1>4, <1>5

\* The callee frees its argument, and lowering goes on where it returns.
LEMMA ConsumeLowered ==
  ASSUME NEW c, NEW frames, NEW e, Lowered(c, frames, e), NEW v \in Range(c.owned), NEW b, b = Len(c.blocks) + 1
  PROVE  Lowered(PushAll(At(AllocBb(Term(c, c.cur, CallOwned(v, b))), b), <<Deinit(v)>>), frames, e)
<1> DEFINE S == Range(c.owned)
           W == Waits(frames)
           t == CallOwned(v, b)
           n == Len(c.kinds)
           freed == Put(Holding(S), v, "stale")
           d == At(AllocBbs(Term(c, c.cur, t), 1), b)
           g == PushAll(d, <<Deinit(v)>>)
<1>1. PICK E : /\ Here(c, E, S, W) /\ FramesFlow(c, E, frames) /\ Extends(E, E, c)
               /\ Books(c, frames, e) /\ c \in Context
  BY LoweredIs
<1>2. /\ n \in Nat /\ S \subseteq 1 .. n /\ v \in 1 .. n /\ v \in Nat /\ v \in S /\ c.cur \in DOMAIN c.blocks
      /\ Len(c.blocks) \in Nat /\ b \in Nat /\ b > Len(c.blocks) /\ b \in 1 .. Len(c.blocks) + 1
      /\ E \in [Nat -> Knowledge] /\ DOMAIN c.blocks = 1 .. Len(c.blocks) /\ W \subseteq DOMAIN c.blocks
  BY <1>1, HereIs
<1>3. /\ Holding(S) \in Knowledge /\ Settled(Holding(S)) /\ freed \in Knowledge /\ freed[v] = "stale"
      /\ Holding(S)[v] = "held" /\ \A l \in Nat : l # v => freed[l] = Holding(S)[l]
  <2>1. Holding(S) \in Knowledge /\ Settled(Holding(S)) /\ Holding(S)[v] = "held"
    BY <1>2, HoldingIs
  <2> QED
    BY <1>2, <2>1, PutIs DEF Statuses
<1> DEFINE E2 == Put(E, b, freed)
<1> HIDE DEF freed
<1>4. Extends(E2, E, c) /\ E2[b] = freed
  BY <1>1, <1>2, <1>3, ExtendsPut
<1> HIDE DEF E2
<1>5. /\ t \in Terminator(1 .. n, 1 .. Len(c.blocks) + 1) /\ t # Placeholder /\ Kept(t) = {}
      /\ Leads(E2, t, Holding(S))
  <2>1. Weaker(Put(Holding(S), v, "stale"), E2[b])
    BY <1>3, <1>4, WeakerIs DEF freed
  <2>2. /\ t \in Terminator(1 .. n, 1 .. Len(c.blocks) + 1) /\ t # Placeholder /\ Kept(t) = {}
        /\ \A F, st : Settled(st) /\ st[v] \in {"held", "zero"} /\ Weaker(Put(st, v, "stale"), F[b]) =>
                         Leads(F, t, st)
    BY <1>2, CallIs
  <2> QED
    BY <1>3, <2>1, <2>2
<1> HIDE DEF t
<1>6. Graph(c, E, Holding(S), W, S) /\ Kept(t) \subseteq S
  BY <1>1, <1>5 DEF Here
<1>7. Walk(c.kinds, Kept(t), c.blocks[c.cur].stmts, E[c.cur], Holding(S))
  BY <1>6, AtTheEnd
<1>8. b \in Later(c, 1) /\ (W \cup Later(c, 1)) \ {b} = W
  BY <1>2 DEF Later
<1>9. Moves(c, d, E2, b, Len(c.blocks) + 1, W, S)
  <2>1. t \in Terminator(1 .. Len(c.kinds), 1 .. Len(c.blocks) + 1) /\ 1 \in Nat
    BY <1>5
  <2>2. Moves(c, d, E2, b, Len(c.blocks) + 1, (W \cup Later(c, 1)) \ {b}, S)
    BY <1>3, <1>4, <1>5, <1>6, <1>7, <1>8, <2>1, GoFresh
  <2> QED
    BY <1>8, <2>2
<1>10. d = At(AllocBb(Term(c, c.cur, t)), b)
  <2>1. t \in Terminator(Nat, Nat)
    BY <1>2, <1>5, TermTyped
  <2>2. AllocBb(Term(c, c.cur, t)) = AllocBbs(Term(c, c.cur, t), 1)
    BY <1>1, <1>2, <2>1, AllocBbAfter
  <2> QED
    BY <2>2
<1> HIDE DEF d
<1>11. Graph(d, E2, freed, W, S) /\ Keeps(c, d) /\ d.kinds = c.kinds /\ Len(d.blocks) = Len(c.blocks) + 1
  BY <1>4, <1>9 DEF Moves
<1>12. Walks(d.kinds, S, <<Deinit(v)>>, freed, Holding(S)) /\ <<Deinit(v)>> \in Seq(Statement(1 .. Len(d.kinds)))
  <2>1. Weaker(Put(freed, v, "zero"), Holding(S))
    <3>1. Put(freed, v, "zero")[v] = "zero" /\ \A l \in Nat : l # v => Put(freed, v, "zero")[l] = freed[l]
      BY <1>2, <1>3, PutIs DEF Statuses
    <3> QED
      BY <1>3, <3>1 DEF Weaker
  <2>2. n = Len(d.kinds) /\ freed[v] \in {"zero", "stale", "copy"}
    BY <1>3, <1>11
  <2>3. ASSUME NEW kept PROVE Walk(d.kinds, kept, <<Deinit(v)>>, freed, Holding(S))
    <3>1. Step(d.kinds, kept, freed, Deinit(v), Holding(S))
      BY <1>2, <1>3, <2>1, <2>2, DeinitStep
    <3> QED
      BY <1>3, <3>1, WalkOne
  <2>4. Deinit(v) \in Statement(1 .. Len(d.kinds))
    BY <1>2, <2>2 DEF Deinit, Statement
  <2> QED
    BY <2>3, <2>4 DEF Walks
<1>13. Pushes(d, g, E2, Holding(S), W, S)
  BY <1>3, <1>11, <1>12, GraphPush
<1> HIDE DEF g
<1>14. Turns(c, g, E2, S, W)
  <2>1. Keeps(c, g) /\ g.kinds = c.kinds /\ Len(g.blocks) = Len(c.blocks) + 1 /\ Graph(g, E2, Holding(S), W, S)
    BY <1>11, <1>13, KeepsOn DEF Pushes
  <2>2. Len(c.kinds) <= Len(g.kinds) /\ S \subseteq 1 .. Len(g.kinds) /\ Len(c.blocks) <= Len(g.blocks)
    BY <1>2, <2>1
  <2> QED
    BY <2>1, <2>2 DEF Turns, Here
<1>15. Lowered(g, frames, e)
  BY <1>1, <1>4, <1>14, StayLowered
<1> QED
  BY <1>10, <1>15 DEF g, t

-----------------------------------------------------------------------------
(* Blocks made for a construct *)

\* E2 is E with st at block b, which c does not have.
Sets(c, E, E1, b, st, E2) ==
  Extends(E2, E, c) /\ E2[b] = st /\ \A i \in Nat : i # b => E2[i] = E1[i]

\* Knowledge of a new block added to other new knowledge.
LEMMA SetsIs ==
  ASSUME NEW c \in Context, NEW E \in [Nat -> Knowledge], NEW E1, Extends(E1, E, c),
         NEW b \in Nat, b > Len(c.blocks), NEW st \in Knowledge
  PROVE  Sets(c, E, E1, b, st, Put(E1, b, st))
BY ExtendsPut DEF Sets

\* E2 is E with four states more, from block m on.
Four(c, E, E2, m, st1, st2, st3, st4) ==
  /\ Extends(E2, E, c)
  /\ E2[m + 1] = st1 /\ E2[m + 2] = st2 /\ E2[m + 3] = st3 /\ E2[m + 4] = st4

\* Four new blocks may be given what is known there.
LEMMA ExtendsFour ==
  ASSUME NEW c \in Context, NEW E \in [Nat -> Knowledge], NEW st1 \in Knowledge, NEW st2 \in Knowledge,
         NEW st3 \in Knowledge, NEW st4 \in Knowledge, NEW m, m = Len(c.blocks)
  PROVE  \E E2 : Four(c, E, E2, m, st1, st2, st3, st4)
<1> DEFINE E1 == Put(E, m + 1, st1)
           E2 == Put(E1, m + 2, st2)
           E3 == Put(E2, m + 3, st3)
           E4 == Put(E3, m + 4, st4)
<1>1. m \in Nat /\ m + 1 \in Nat /\ m + 2 \in Nat /\ m + 3 \in Nat /\ m + 4 \in Nat
      /\ m + 1 > Len(c.blocks) /\ m + 2 > Len(c.blocks) /\ m + 3 > Len(c.blocks) /\ m + 4 > Len(c.blocks)
  BY ContextIs
<1>2. Extends(E, E, c)
  BY ExtendsItself
<1>3. Sets(c, E, E, m + 1, st1, E1)
  BY <1>1, <1>2, SetsIs
<1> HIDE DEF E1
<1>4. Sets(c, E, E1, m + 2, st2, E2)
  <2>1. Extends(E1, E, c)
    BY <1>3 DEF Sets
  <2> QED
    BY <1>1, <2>1, SetsIs
<1> HIDE DEF E2
<1>5. Sets(c, E, E2, m + 3, st3, E3)
  <2>1. Extends(E2, E, c)
    BY <1>4 DEF Sets
  <2> QED
    BY <1>1, <2>1, SetsIs
<1> HIDE DEF E3
<1>6. Sets(c, E, E3, m + 4, st4, E4)
  <2>1. Extends(E3, E, c)
    BY <1>5 DEF Sets
  <2> QED
    BY <1>1, <2>1, SetsIs
<1> HIDE DEF E4
<1>7. Four(c, E, E4, m, st1, st2, st3, st4)
  BY <1>1, <1>3, <1>4, <1>5, <1>6 DEF Sets, Four
<1> QED
  BY <1>7

\* d is c lowered up to the start of block b, where the locals of T hold.
Arrives(c, d, E, T, b, n, W) ==
  Here(d, E, T, W) /\ Keeps(c, d) /\ d.kinds = c.kinds /\ d.cur = b /\ Len(d.blocks) = n

\* Lowering goes on in one of the blocks just made.
LEMMA HereFresh ==
  ASSUME NEW c, NEW E, NEW S, NEW W, Here(c, E, S, W), NEW n \in Nat, NEW E2, Extends(E2, E, c),
         NEW b \in Later(c, n), NEW t \in Terminator(1 .. Len(c.kinds), 1 .. Len(c.blocks) + n),
         t # Placeholder, Kept(t) \subseteq S, Leads(E2, t, Holding(S)),
         NEW T, T \subseteq 1 .. Len(c.kinds), E2[b] = Holding(T)
  PROVE  Arrives(c, At(AllocBbs(Term(c, c.cur, t), n), b), E2, T, b, Len(c.blocks) + n, (W \cup Later(c, n)) \ {b})
<1> DEFINE d == At(AllocBbs(Term(c, c.cur, t), n), b)
           W2 == (W \cup Later(c, n)) \ {b}
<1>1. Graph(c, E, Holding(S), W, S)
  BY DEF Here
<1>2. Walk(c.kinds, Kept(t), c.blocks[c.cur].stmts, E[c.cur], Holding(S)) /\ Holding(S) \in Knowledge
  BY <1>1, AtTheEnd
<1>3. Moves(c, d, E2, b, Len(c.blocks) + n, W2, T)
  BY <1>1, <1>2, GoFresh
<1> HIDE DEF d, W2
<1>4. Arrives(c, d, E2, T, b, Len(c.blocks) + n, W2)
  BY <1>3 DEF Moves, Arrives, Here
<1> QED
  BY <1>4 DEF d, W2

\* Lowering goes on in a block that waited.
LEMMA HereGo ==
  ASSUME NEW c, NEW E, NEW S, NEW W, Here(c, E, S, W), NEW b \in W,
         NEW t \in Terminator(1 .. Len(c.kinds), 1 .. Len(c.blocks)),
         t # Placeholder, Kept(t) \subseteq S, Leads(E, t, Holding(S)),
         NEW T, T \subseteq 1 .. Len(c.kinds), E[b] = Holding(T)
  PROVE  Arrives(c, At(Term(c, c.cur, t), b), E, T, b, Len(c.blocks), W \ {b})
<1> DEFINE d == At(Term(c, c.cur, t), b)
           W2 == W \ {b}
<1>1. Graph(c, E, Holding(S), W, S)
  BY DEF Here
<1>2. Moves(c, d, E, b, Len(c.blocks), W2, T)
  BY <1>1, GoOn
<1> HIDE DEF d, W2
<1>3. Arrives(c, d, E, T, b, Len(c.blocks), W2)
  BY <1>2 DEF Moves, Arrives, Here
<1> QED
  BY <1>3 DEF d, W2

\* d is c with one more local.
Gains(c, d, kind, E, S, W) ==
  Here(d, E, S, W) /\ Same(c, d) /\ d.kinds = Append(c.kinds, kind) /\ Len(d.kinds) = Len(c.kinds) + 1

\* A new local, of which nothing is known.
LEMMA HereLocal ==
  ASSUME NEW c, NEW E, NEW S, NEW W, Here(c, E, S, W), NEW kind \in {"string", "record"}
  PROVE  Gains(c, AllocLocal(c, kind), kind, E, S, W)
<1> DEFINE d == AllocLocal(c, kind)
<1>1. Graph(c, E, Holding(S), W, S) /\ S \cap 1 .. Len(c.kinds) \subseteq S
  BY DEF Here
<1>2. /\ Graph(d, E, Holding(S), W, S) /\ Keeps(c, d) /\ d.kinds = Append(c.kinds, kind) /\ d.cur = c.cur
      /\ Len(d.blocks) = Len(c.blocks) /\ Len(d.kinds) = Len(c.kinds) + 1
  BY <1>1, GraphLocal
<1>3. S \subseteq 1 .. Len(c.kinds) + 1
  BY HereIs
<1> HIDE DEF d
<1>4. Gains(c, d, kind, E, S, W)
  BY <1>2, <1>3 DEF Gains, Here, Same
<1> QED
  BY <1>4 DEF d

-----------------------------------------------------------------------------
(* Nullable calls *)

\* A call that may return null gives its local a fresh object or zero.
LEMMA AskIs ==
  ASSUME NEW n \in Nat, NEW m \in Nat, NEW b \in 1 .. m, NEW l \in 1 .. n
  PROVE  /\ CallNullable(l, b) \in Terminator(1 .. n, 1 .. m) /\ CallNullable(l, b) # Placeholder
         /\ Kept(CallNullable(l, b)) = {}
         /\ \A E, st : Settled(st) /\ st[l] \in {"stale", "zero"} /\ Weaker(Put(st, l, "held"), E[b]) =>
                         Leads(E, CallNullable(l, b), st)
<1>1. /\ CallNullable(l, b).op = "CallNullable" /\ CallNullable(l, b).to = {b} /\ CallNullable(l, b).dest = l
      /\ Placeholder.op = "Unreachable"
  BY DEF CallNullable, Placeholder
<1>2. CallNullable(l, b) \in Terminator(1 .. n, 1 .. m)
  BY DEF CallNullable, Terminator
<1>3. Kept(CallNullable(l, b)) = {}
  BY <1>1 DEF Kept, Values, Range
<1>4. \A E, st : Settled(st) /\ st[l] \in {"stale", "zero"} /\ Weaker(Put(st, l, "held"), E[b]) =>
                         Leads(E, CallNullable(l, b), st)
  BY <1>1 DEF Leads
<1>5. CallNullable(l, b) # Placeholder
  BY <1>1
<1> QED
  BY <1>2, <1>3, <1>4, <1>5

\* On the null side of a test the local is zero.
LEMMA NullTestIs ==
  ASSUME NEW n \in Nat, NEW m \in Nat, NEW a \in 1 .. m, NEW b \in 1 .. m, NEW l \in 1 .. n
  PROVE  /\ NullTest(l, a, b) \in Terminator(1 .. n, 1 .. m) /\ NullTest(l, a, b) # Placeholder
         /\ Kept(NullTest(l, a, b)) = {}
         /\ \A E, st : st[l] \in {"held", "zero"} /\ Weaker(Put(st, l, "zero"), E[a]) /\ Weaker(st, E[b]) =>
                         Leads(E, NullTest(l, a, b), st)
<1>1. /\ NullTest(l, a, b).op = "IfNull" /\ NullTest(l, a, b).to = {a, b} /\ NullTest(l, a, b).local = l
      /\ NullTest(l, a, b).null = a /\ NullTest(l, a, b).present = b /\ Placeholder.op = "Unreachable"
  BY DEF NullTest, Placeholder
<1>2. NullTest(l, a, b) \in Terminator(1 .. n, 1 .. m)
  BY DEF NullTest, Terminator
<1>3. Kept(NullTest(l, a, b)) = {}
  BY <1>1 DEF Kept, Values, Range
<1>4. \A E, st : st[l] \in {"held", "zero"} /\ Weaker(Put(st, l, "zero"), E[a]) /\ Weaker(st, E[b]) =>
                         Leads(E, NullTest(l, a, b), st)
  BY <1>1 DEF Leads
<1>5. NullTest(l, a, b) # Placeholder
  BY <1>1
<1> QED
  BY <1>2, <1>3, <1>4, <1>5

\* A branch leads to where less or as much is known.
LEMMA BranchIs ==
  ASSUME NEW n \in Nat, NEW m \in Nat, NEW a \in 1 .. m, NEW b \in 1 .. m
  PROVE  /\ Branch(a, b) \in Terminator(1 .. n, 1 .. m) /\ Branch(a, b) # Placeholder /\ Kept(Branch(a, b)) = {}
         /\ \A E, st : Weaker(st, E[a]) /\ Weaker(st, E[b]) => Leads(E, Branch(a, b), st)
<1>1. Branch(a, b).op = "If" /\ Branch(a, b).to = {a, b} /\ Placeholder.op = "Unreachable"
  BY DEF Branch, Placeholder
<1>2. Branch(a, b) \in Terminator(1 .. n, 1 .. m)
  BY DEF Branch, Terminator
<1>3. Kept(Branch(a, b)) = {}
  BY <1>1 DEF Kept, Values, Range
<1>4. \A E, st : Weaker(st, E[a]) /\ Weaker(st, E[b]) => Leads(E, Branch(a, b), st)
  BY <1>1 DEF Leads
<1>5. Branch(a, b) # Placeholder
  BY <1>1
<1> QED
  BY <1>2, <1>3, <1>4, <1>5

\* What holds after a value is put in a local, and after it moves.
LEMMA HoldMore ==
  ASSUME NEW S, NEW l \in Nat
  PROVE  Put(Holding(S), l, "held") = Holding(S \cup {l})
BY DEF Put, Holding

\* A string moved is held at its new place and only there.
LEMMA HoldMoved ==
  ASSUME NEW S, NEW l \in Nat, NEW r \in Nat, l # r
  PROVE  Weaker(Put(Put(Holding(S), l, "zero"), r, "held"), Holding((S \ {l}) \cup {r}))
<1> DEFINE a == Put(Put(Holding(S), l, "zero"), r, "held")
           b == Holding((S \ {l}) \cup {r})
<1>1. \A k \in Nat : a[k] = IF k = r THEN "held" ELSE IF k = l THEN "zero" ELSE IF k \in S THEN "held" ELSE "stale"
  BY DEF Put, Holding
<1>2. \A k \in Nat : b[k] = IF k \in (S \ {l}) \cup {r} THEN "held" ELSE "stale"
  BY DEF Holding
<1> HIDE DEF a, b
<1>3. Weaker(a, b)
  BY <1>1, <1>2 DEF Weaker
<1> QED
  BY <1>3 DEF a, b

\* The default's literal moves into the result, both locals made for it.
LEMMA DefaultStep ==
  ASSUME NEW c, NEW E, NEW S, NEW W, Here(c, E, S, W), NEW f, f = Len(c.kinds) + 1, NEW r, r = Len(c.kinds) + 2,
         NEW d, d = PushAll(AllocLocal(AllocLocal(c, "string"), "string"), <<Literal(f), Move(r, f)>>)
  PROVE  Gains(AllocLocal(c, "string"), d, "string", E, S \cup {r}, W)
<1> DEFINE c1 == AllocLocal(c, "string")
           kinds == Append(c1.kinds, "string")
           stmts == <<Literal(f), Move(r, f)>>
           T == S \cup {r}
           U == S \cup {f}
<1>1. Gains(c, c1, "string", E, S, W)
  BY HereLocal
<1>2. /\ Len(c.kinds) \in Nat /\ S \subseteq 1 .. Len(c.kinds) /\ Len(c1.kinds) = Len(c.kinds) + 1
      /\ c1.kinds \in Seq({"string", "record"}) /\ c1.kinds = Append(c.kinds, "string")
      /\ c.kinds \in Seq({"string", "record"})
  BY <1>1, HereIs DEF Gains
<1> HIDE DEF c1
<1>3. Len(kinds) = r /\ kinds[f] = "string" /\ r = Len(c1.kinds) + 1 /\ r \in Nat /\ f \in 1 .. r /\ r \in 1 .. r /\ f # r
      /\ f \notin S /\ r \notin S
  <2>1. c1.kinds[f] = "string"
    BY <1>2, AppendProperties
  <2>2. Len(kinds) = Len(c1.kinds) + 1 /\ kinds[f] = c1.kinds[f]
    BY <1>2, AppendProperties
  <2> QED
    BY <1>2, <2>1, <2>2
<1> HIDE DEF kinds
<1>4. /\ Holding(S) \in Knowledge /\ Settled(Holding(S)) /\ Holding(U) \in Knowledge /\ Settled(Holding(U))
      /\ Holding(T) \in Knowledge
  BY HoldingIs
<1>5. Weaker(Put(Holding(S), f, "held"), Holding(U))
  <2>1. f \in Nat
    BY <1>3
  <2>2. Weaker(Holding(S \cup {f}), Holding(U))
    BY <1>4, WeakerIs
  <2> QED
    BY <2>1, <2>2, HoldMore
<1>6. Weaker(Put(Put(Holding(U), f, "zero"), r, "held"), Holding(T))
  <2>1. f \in Nat /\ r \in Nat /\ f # r /\ U \ {f} = S
    BY <1>3
  <2>2. Weaker(Put(Put(Holding(U), f, "zero"), r, "held"), Holding((U \ {f}) \cup {r}))
    BY <2>1, HoldMoved
  <2> QED
    BY <2>1, <2>2
<1>7. ASSUME NEW kept
      PROVE  Walk(kinds, kept, stmts, Holding(S), Holding(T)) /\ stmts \in Seq(Statement(1 .. Len(kinds)))
  <2>1. Step(kinds, kept, Holding(S), Literal(f), Holding(U))
    <3> HIDE DEF U, T, stmts
    <3> DEFINE st == Holding(S)
               next == Holding(U)
    <3>1. /\ r \in Nat /\ r = Len(kinds) /\ f \in 1 .. r /\ st \in Knowledge /\ Settled(st)
          /\ Weaker(Put(st, f, "held"), next)
      BY <1>3, <1>4, <1>5
    <3> HIDE DEF st, next
    <3>2. Step(kinds, kept, st, Literal(f), next)
      BY <3>1, LiteralStep
    <3> QED
      BY <3>2 DEF st, next
  <2>2. Holding(U)[f] = "held"
    <3>1. f \in Nat /\ f \in U
      BY <1>3
    <3> HIDE DEF U
    <3> QED
      BY <3>1, HoldingIs
  <2>3. Step(kinds, kept, Holding(U), Move(r, f), Holding(T))
    BY <1>3, <1>4, <1>6, <2>2, MoveStep
  <2> QED
    BY <1>3, <1>4, <2>1, <2>3, WalkTwo
<1>8. Here(c1, E, S, W)
  BY <1>1 DEF Gains
<1>9. Becomes(c1, PushAll(AllocLocal(c1, "string"), stmts), kinds, E, T, W)
  <2>1. Walks(kinds, S \cup {Len(c1.kinds) + 1}, stmts, Holding(S), Holding(T))
    BY <1>7 DEF Walks
  <2>2. T \subseteq S \cup {Len(c1.kinds) + 1}
    BY <1>3
  <2>3. stmts \in Seq(Statement(1 .. Len(c1.kinds) + 1))
    BY <1>3, <1>7
  <2> HIDE DEF stmts, T
  <2> QED
    BY <1>8, <2>1, <2>2, <2>3, HereGrow DEF kinds
<1>10. d = PushAll(AllocLocal(c1, "string"), stmts)
  BY DEF c1
<1> HIDE DEF stmts, T
<1>11. Gains(c1, d, "string", E, T, W)
  BY <1>3, <1>9, <1>10 DEF Becomes, Gains, kinds
<1> QED
  BY <1>11 DEF T, c1

\* d has k blocks.
Made(d, k) == d \in Context /\ DOMAIN d.blocks = 1 .. k

\* What is new in a context with new blocks.
LEMMA MadeIs ==
  ASSUME NEW c \in Context, NEW b \in DOMAIN c.blocks, NEW t \in Terminator(Nat, Nat), NEW n \in Nat,
         NEW d, d = AllocBbs(Term(c, b, t), n), NEW k, k = Len(c.blocks) + n
  PROVE  Made(d, k)
<1> DEFINE g == Term(c, b, t)
           block == [stmts |-> c.blocks[b].stmts, term |-> t]
<1>1. /\ g \in Context /\ g.blocks = Put(c.blocks, b, block) /\ Len(g.blocks) = Len(c.blocks)
  <2>1. g \in Context /\ g.blocks = Put(c.blocks, b, block)
    BY TermSets DEF Edited
  <2>2. DOMAIN g.blocks = DOMAIN c.blocks
    BY <2>1 DEF Put
  <2>3. DOMAIN c.blocks = 1 .. Len(c.blocks) /\ Len(c.blocks) \in Nat /\ DOMAIN g.blocks = 1 .. Len(g.blocks) /\ Len(g.blocks) \in Nat
    BY <2>1, BlocksAre
  <2> QED
    BY <2>1, <2>2, <2>3
<1> HIDE DEF g
<1>2. d \in Context /\ d.blocks = g.blocks \o Fresh(n)
  BY <1>1, AllocBbsIs DEF Edited, g
<1>3. Len(g.blocks \o Fresh(n)) = Len(g.blocks) + n
  <2>1. Fresh(n) \in Seq({Empty}) /\ Len(Fresh(n)) = n /\ g.blocks \in Seq(MirBlock)
    BY <1>1, FreshIs DEF Context
  <2> DEFINE T == MirBlock \cup {Empty}
  <2>2. MirBlock \subseteq T /\ {Empty} \subseteq T
    OBVIOUS
  <2> HIDE DEF T
  <2> DEFINE u == g.blocks
             v == Fresh(n)
  <2>3. u \in Seq(T) /\ v \in Seq(T) /\ Len(v) = n
    BY <2>1, <2>2, SeqMonotonic
  <2> HIDE DEF u, v
  <2>4. Len(u \o v) = Len(u) + Len(v)
    BY <2>3, ConcatIs
  <2> QED
    BY <2>3, <2>4 DEF u, v
<1>4. DOMAIN d.blocks = 1 .. Len(d.blocks)
  BY <1>2, BlocksAre
<1> QED
  BY <1>1, <1>2, <1>3, <1>4 DEF Made

\* A local known to be zero is not held.
LEMMA HoldZero ==
  ASSUME NEW S, NEW l \in Nat
  PROVE  Weaker(Put(Holding(S), l, "zero"), Holding(S \ {l}))
<1> DEFINE a == Put(Holding(S), l, "zero")
           b == Holding(S \ {l})
<1>1. \A k \in Nat : a[k] = IF k = l THEN "zero" ELSE IF k \in S THEN "held" ELSE "stale"
  BY DEF Put, Holding
<1>2. \A k \in Nat : b[k] = IF k \in S \ {l} THEN "held" ELSE "stale"
  BY DEF Holding
<1> HIDE DEF a, b
<1>3. Weaker(a, b)
  BY <1>1, <1>2 DEF Weaker
<1> QED
  BY <1>3 DEF a, b

\* The locals and blocks made for a nullable call with a default.
Numbered(c, o, f, r, a, b, p, g) ==
  /\ o = Len(c.kinds) + 1 /\ f = Len(c.kinds) + 2 /\ r = Len(c.kinds) + 3
  /\ a = Len(c.blocks) + 1 /\ b = Len(c.blocks) + 2 /\ p = Len(c.blocks) + 3 /\ g = Len(c.blocks) + 4

\* Both sides of ?: leave their value in the same local, held.
LEMMA ElvisLowered ==
  ASSUME NEW c, NEW frames, NEW e, Lowered(c, frames, e),
         NEW o, NEW f, NEW r, NEW a, NEW b, NEW p, NEW g, Numbered(c, o, f, r, a, b, p, g),
         NEW x \in Names, \A k \in 1 .. Len(frames) : frames[k].env[x] = 0,
         NEW asked, asked = Term(AllocLocal(c, "string"), c.cur, CallNullable(o, a)),
         NEW tested, tested = At(Term(AllocBbs(asked, 4), a, NullTest(o, b, p)), b),
         NEW filled, filled = PushAll(AllocLocal(AllocLocal(tested, "string"), "string"),
                                      <<Literal(f), Move(r, f)>>),
         NEW absent, absent = Term(filled, b, Goto(g)),
         NEW both, both = Term(PushAll(At(absent, p), <<Move(r, o)>>), p, Goto(g))
  PROVE  Lowered(Bind(At(both, g), x, r), frames, Put(e, x, r))
<1> DEFINE n == Len(c.kinds)
           m == Len(c.blocks)
           S == Range(c.owned)
           W == Waits(frames)
           So == S \cup {o}
           Sr == S \cup {r}
<1>1. PICK E : /\ Here(c, E, S, W) /\ FramesFlow(c, E, frames) /\ Extends(E, E, c)
               /\ Books(c, frames, e) /\ c \in Context
  BY LoweredIs
<1>0. /\ n \in Nat /\ m \in Nat /\ S \subseteq 1 .. n /\ W \subseteq 1 .. m /\ E \in [Nat -> Knowledge]
      /\ c.cur \in DOMAIN c.blocks /\ DOMAIN c.blocks = 1 .. m
  BY <1>1, HereIs
<1>n1. /\ o = n + 1 /\ f = n + 2 /\ r = n + 3 /\ a = m + 1 /\ b = m + 2 /\ p = m + 3 /\ g = m + 4
  BY DEF Numbered
<1> HIDE DEF n, m, S, W
<1>2. /\ n \in Nat /\ m \in Nat /\ S \subseteq 1 .. n /\ W \subseteq 1 .. m /\ E \in [Nat -> Knowledge]
      /\ o = n + 1 /\ f = n + 2 /\ r = n + 3 /\ a = m + 1 /\ b = m + 2 /\ p = m + 3 /\ g = m + 4
      /\ o \in Nat /\ f \in Nat /\ r \in Nat /\ a \in Nat /\ b \in Nat /\ p \in Nat /\ g \in Nat
      /\ c.cur \in DOMAIN c.blocks /\ DOMAIN c.blocks = 1 .. m
  BY <1>0, <1>n1
<1>ar. /\ n \in Nat /\ m \in Nat
       /\ o = n + 1 /\ f = n + 2 /\ r = n + 3 /\ a = m + 1 /\ b = m + 2 /\ p = m + 3 /\ g = m + 4
  BY <1>0, <1>n1
<1>n2. o \notin S /\ r \notin S
  <2>1. S \subseteq 1 .. n
    BY <1>2
  <2> QED
    BY <1>ar, <2>1
<1>3. PICK E2 : /\ Extends(E2, E, c) /\ E2[a] = Holding(So) /\ E2[b] = Holding(S)
                /\ E2[p] = Holding(So) /\ E2[g] = Holding(Sr)
  <2>1. Holding(S) \in Knowledge /\ Holding(So) \in Knowledge /\ Holding(Sr) \in Knowledge
    BY HoldingIs
  <2> HIDE DEF So, Sr
  <2>2. \E E2 : Four(c, E, E2, m, Holding(So), Holding(S), Holding(So), Holding(Sr))
    BY <1>1, <1>2, <2>1, ExtendsFour DEF m
  <2> QED
    BY <1>2, <2>2 DEF Four
<1>4. Holding(S) \in Knowledge /\ Settled(Holding(S)) /\ Holding(So) \in Knowledge /\ Holding(Sr) \in Knowledge
  BY HoldingIs
\* The call.
<1> DEFINE c0 == AllocLocal(c, "string")
           ask == CallNullable(o, a)
           made == AllocBbs(Term(c0, c0.cur, ask), 4)
           c1 == At(made, a)
<1>5. Gains(c, c0, "string", E, S, W)
  BY <1>1, HereLocal
<1>6. /\ Here(c0, E, S, W) /\ Keeps(c, c0) /\ c0.cur = c.cur /\ Len(c0.blocks) = m /\ Len(c0.kinds) = o
      /\ c0 \in Context /\ Extends(E2, E, c0)
  <2>1. /\ Here(c0, E, S, W) /\ Keeps(c, c0) /\ c0.cur = c.cur /\ Len(c0.blocks) = m /\ Len(c0.kinds) = o
    <3> HIDE DEF c0
    <3> QED
      BY <1>2, <1>5 DEF Gains, Same, n, m
  <2>2. c0 \in Context
    BY <2>1 DEF Keeps
  <2> HIDE DEF c0
  <2>3. Extends(E2, E, c0)
    BY <1>1, <1>3, <2>1, <2>2, ExtendsSame DEF m
  <2> QED
    BY <2>1, <2>2, <2>3
<1> HIDE DEF c0
<1>7. /\ ask \in Terminator(1 .. o, 1 .. g) /\ ask # Placeholder /\ Kept(ask) = {}
      /\ Leads(E2, ask, Holding(S))
  <2>1. g \in Nat /\ a \in 1 .. g /\ o \in 1 .. o
    BY <1>2
  <2>2. Holding(S)[o] = "stale"
    BY <1>2, HoldingIs
  <2>3. Weaker(Put(Holding(S), o, "held"), E2[a])
    <3>1. Put(Holding(S), o, "held") = Holding(So)
      BY <1>2, HoldMore
    <3> QED
      BY <1>3, <1>4, <3>1, WeakerIs
  <2> QED
    BY <1>2, <1>4, <2>1, <2>2, <2>3, AskIs
<1> HIDE DEF ask
<1> DEFINE W1 == (W \cup Later(c0, 4)) \ {a}
<1>8. Arrives(c0, c1, E2, So, a, g, W1)
  <2>1. a \in Later(c0, 4) /\ 4 \in Nat
    <3>1. Later(c0, 4) = m + 1 .. m + 4
      BY <1>6 DEF Later
    <3> QED
      BY <1>2, <3>1
  <2>2. So \subseteq 1 .. Len(c0.kinds)
    <3>1. S \subseteq 1 .. n /\ Len(c0.kinds) = o
      BY <1>2, <1>6
    <3> QED
      BY <1>ar, <3>1
  <2>3. ask \in Terminator(1 .. Len(c0.kinds), 1 .. Len(c0.blocks) + 4) /\ Kept(ask) \subseteq S
    <3>1. Len(c0.kinds) = o /\ Len(c0.blocks) + 4 = g
      BY <1>ar, <1>6
    <3> QED
      BY <1>7, <3>1
  <2> HIDE DEF So, W1
  <2>4. Arrives(c0, At(AllocBbs(Term(c0, c0.cur, ask), 4), a), E2, So, a, Len(c0.blocks) + 4,
                (W \cup Later(c0, 4)) \ {a})
    BY <1>3, <1>6, <1>7, <2>1, <2>2, <2>3, HereFresh
  <2> QED
    BY <1>2, <1>6, <2>4 DEF W1
<1>9. W1 = W \cup {b, p, g}
  <2>1. Later(c0, 4) = m + 1 .. m + 4
    BY <1>6 DEF Later
  <2>2. W \subseteq 1 .. m
    BY <1>2
  <2> QED
    BY <1>ar, <2>1, <2>2
<1>10. asked = Term(c0, c0.cur, ask)
  BY <1>6 DEF c0, ask
<1>11. made \in Context /\ a \in DOMAIN made.blocks
  <2>1. c0.cur \in DOMAIN c0.blocks
    BY <1>6, HereIs
  <2>2. ask \in Terminator(Nat, Nat)
    <3>1. o \in Nat /\ g \in Nat
      BY <1>2
    <3> QED
      BY <1>7, <3>1, TermTyped
  <2>3. made = AllocBbs(Term(c0, c0.cur, ask), 4) /\ 4 \in Nat
    BY Zenon
  <2> HIDE DEF made
  <2>4. Made(made, g)
    <3>1. g = Len(c0.blocks) + 4
      BY <1>ar, <1>6
    <3> QED
      BY <1>6, <2>1, <2>2, <2>3, <3>1, MadeIs
  <2> QED
    BY <1>ar, <2>4 DEF Made
<1> HIDE DEF made
\* The test.
<1> DEFINE test == NullTest(o, b, p)
           c2 == At(Term(c1, c1.cur, test), b)
           W2 == W \cup {p, g}
<1>12. /\ Here(c1, E2, So, W1) /\ Keeps(c0, c1) /\ c1.cur = a /\ Len(c1.blocks) = g
       /\ Len(c1.kinds) = o
  BY <1>6, <1>8 DEF Arrives
<1>13. tested = At(Term(made, a, test), b)
  BY <1>10 DEF made
<1>14. /\ test \in Terminator(1 .. o, 1 .. g) /\ test # Placeholder /\ Kept(test) = {}
       /\ Leads(E2, test, Holding(So))
  <2>1. g \in Nat /\ b \in 1 .. g /\ p \in 1 .. g /\ o \in 1 .. o
    BY <1>2
  <2>2. Holding(So)[o] = "held"
    <3>1. o \in So
      OBVIOUS
    <3> HIDE DEF So
    <3> QED
      BY <1>2, <3>1, HoldingIs
  <2>3. Weaker(Put(Holding(So), o, "zero"), E2[b])
    <3>1. So \ {o} = S
      BY <1>2
    <3>2. Weaker(Put(Holding(So), o, "zero"), Holding(So \ {o}))
      BY <1>2, HoldZero
    <3> QED
      BY <1>3, <3>1, <3>2
  <2>4. Weaker(Holding(So), E2[p])
    BY <1>3, <1>4, WeakerIs
  <2> QED
    BY <1>2, <2>1, <2>2, <2>3, <2>4, NullTestIs, SMTT(20)
<1> HIDE DEF test
<1>15. tested = c2
  <2>1. test \in Terminator(Nat, Nat)
    <3>1. o \in Nat /\ g \in Nat
      BY <1>2
    <3> QED
      BY <1>14, <3>1, TermTyped
  <2>2. a \in Nat /\ b \in Nat
    BY <1>2
  <2>3. At(Term(At(made, a), a, test), b) = At(Term(made, a, test), b)
    BY <1>11, <2>1, <2>2, AtThenTerm
  <2> QED
    BY <1>12, <1>13, <2>3
<1> HIDE DEF c1
<1>16. Arrives(c1, c2, E2, S, b, g, W2)
  <2>1. b \in W1 /\ W1 \ {b} = W2
    BY <1>2, <1>9
  <2>2. S \subseteq 1 .. Len(c1.kinds)
    BY <1>2, <1>12
  <2>3. test \in Terminator(1 .. Len(c1.kinds), 1 .. Len(c1.blocks)) /\ Kept(test) \subseteq So
    BY <1>12, <1>14
  <2> HIDE DEF W1, W2, So
  <2>4. Arrives(c1, At(Term(c1, c1.cur, test), b), E2, S, b, Len(c1.blocks), W1 \ {b})
    BY <1>3, <1>12, <1>14, <2>1, <2>2, <2>3, HereGo
  <2> QED
    BY <1>12, <2>1, <2>4
<1>17. /\ Here(tested, E2, S, W2) /\ Keeps(c1, tested) /\ tested.cur = b /\ Len(tested.blocks) = g
       /\ Len(tested.kinds) = o
  BY <1>12, <1>15, <1>16 DEF Arrives
\* Where the call has answered null.
<1> DEFINE t1 == AllocLocal(tested, "string")
<1>18. Gains(tested, t1, "string", E2, S, W2)
  BY <1>17, HereLocal
<1>19. Gains(t1, filled, "string", E2, Sr, W2)
  <2>1. f = Len(tested.kinds) + 1 /\ r = Len(tested.kinds) + 2
    BY <1>2, <1>17
  <2> HIDE DEF W2
  <2>2. Gains(AllocLocal(tested, "string"), filled, "string", E2, S \cup {r}, W2)
    BY <1>17, <2>1, DefaultStep
  <2> QED
    BY <2>2
<1>20. /\ Here(filled, E2, Sr, W2) /\ Keeps(tested, t1) /\ Keeps(t1, filled) /\ filled.cur = b
       /\ Len(filled.blocks) = g /\ Len(filled.kinds) = r
  <2>1. Len(t1.kinds) = f /\ t1.cur = b /\ Len(t1.blocks) = g /\ Keeps(tested, t1)
    <3> HIDE DEF t1
    <3> QED
      BY <1>2, <1>17, <1>18 DEF Gains, Same
  <2> HIDE DEF t1, Sr, W2
  <2> QED
    BY <1>2, <1>19, <2>1 DEF Gains, Same
<1>21. \A E3, st : Weaker(st, E3[g]) => Leads(E3, Goto(g), st)
  BY <1>2, GotoIs, SMTT(20)
<1>22. Goto(g) \in Terminator(1 .. r, 1 .. g) /\ Goto(g) # Placeholder /\ Kept(Goto(g)) = {}
  <2>1. r \in Nat /\ g \in Nat /\ g \in 1 .. g
    BY <1>2
  <2> QED
    BY <2>1, GotoIs
<1>23. Leads(E2, Goto(g), Holding(Sr))
  BY <1>3, <1>4, <1>21, WeakerIs
<1> DEFINE c5 == At(absent, p)
           W3 == W \cup {g}
<1>24. Arrives(filled, c5, E2, So, p, g, W3)
  <2>1. p \in W2 /\ W2 \ {p} = W3
    BY <1>2
  <2>2. So \subseteq 1 .. Len(filled.kinds)
    BY <1>2, <1>20
  <2>3. Goto(g) \in Terminator(1 .. Len(filled.kinds), 1 .. Len(filled.blocks)) /\ Kept(Goto(g)) \subseteq Sr
    BY <1>20, <1>22
  <2> HIDE DEF W2, W3, So, Sr
  <2>4. Arrives(filled, At(Term(filled, filled.cur, Goto(g)), p), E2, So, p, Len(filled.blocks), W2 \ {p})
    BY <1>3, <1>20, <1>22, <1>23, <2>1, <2>2, <2>3, HereGo, ZenonT(30)
  <2> QED
    BY <1>20, <2>1, <2>4
\* Where it has answered a value.
<1> HIDE DEF c5
<1>25. /\ Graph(c5, E2, Holding(So), W3, {}) /\ Keeps(filled, c5) /\ c5.cur = p /\ Len(c5.blocks) = g
       /\ Len(c5.kinds) = r
  <2>1. Here(c5, E2, So, W3)
    BY <1>24 DEF Arrives
  <2>2. Graph(c5, E2, Holding(So), W3, So) /\ Weaker(Holding(So), Holding(So)) /\ {} \subseteq So
    BY <1>4, <2>1, WeakerIs DEF Here
  <2>3. Graph(c5, E2, Holding(So), W3, {})
    BY <1>4, <2>2, GraphWeaker
  <2> QED
    BY <1>20, <1>24, <2>3 DEF Arrives
<1> DEFINE c6 == PushAll(c5, <<Move(r, o)>>)
<1>26. Pushes(c5, c6, E2, Holding(Sr), W3, {})
  <2>1. r \in 1 .. r /\ o \in 1 .. r /\ r # o /\ r = Len(c5.kinds)
    BY <1>2, <1>25
  <2>2. Move(r, o) \in Statement(1 .. r)
    BY <2>1 DEF Move, Statement
  <2>3. Holding(So)[o] = "held" /\ Settled(Holding(So))
    <3>1. o \in So
      OBVIOUS
    <3> HIDE DEF So
    <3> QED
      BY <1>2, <3>1, HoldingIs
  <2>4. c5.kinds[o] = "string"
    <3>1. c5.kinds = filled.kinds
      BY <1>24 DEF Arrives
    <3>2. /\ filled.kinds = Append(t1.kinds, "string") /\ t1.kinds = Append(tested.kinds, "string")
          /\ tested.kinds = c1.kinds /\ c1.kinds = c0.kinds /\ c0.kinds = Append(c.kinds, "string")
      BY <1>5, <1>8, <1>15, <1>16, <1>18, <1>19 DEF Gains, Arrives
    <3>3. c.kinds \in Seq({"string", "record"})
      BY <1>1, HereIs
    <3> DEFINE K == {"string", "record"}
    <3> HIDE DEF t1
    <3>4. c0.kinds \in Seq(K) /\ Len(c0.kinds) = o /\ c0.kinds[o] = "string"
      <4>1. "string" \in K /\ c.kinds \in Seq(K) /\ c0.kinds = Append(c.kinds, "string") /\ Len(c.kinds) + 1 = o
        BY <1>2, <3>2, <3>3 DEF n
      <4> HIDE DEF K
      <4> QED
        BY <4>1, AppendIs
    <3>5. t1.kinds \in Seq(K) /\ Len(t1.kinds) = f /\ t1.kinds[o] = "string"
      <4>1. /\ "string" \in K /\ t1.kinds = Append(c0.kinds, "string") /\ Len(c0.kinds) + 1 = f
            /\ o \in 1 .. Len(c0.kinds)
        <5>1. t1.kinds = Append(c0.kinds, "string")
          BY <3>2, Zenon
        <5>2. Len(c0.kinds) = o
          BY <3>4
        <5> QED
          BY <1>ar, <5>1, <5>2
      <4> HIDE DEF K
      <4> QED
        BY <3>4, <4>1, AppendIs
    <3>6. filled.kinds[o] = "string"
      <4>1. "string" \in K /\ filled.kinds = Append(t1.kinds, "string") /\ o \in 1 .. Len(t1.kinds)
        <5>1. Len(t1.kinds) = f /\ filled.kinds = Append(t1.kinds, "string")
          BY <3>2, <3>5, Zenon
        <5>2. "string" \in K
          OBVIOUS
        <5>3. o \in 1 .. f
          BY <1>ar
        <5> QED
          BY <5>1, <5>2, <5>3, Zenon
      <4> HIDE DEF K
      <4>2. \A i \in 1 .. Len(t1.kinds) : filled.kinds[i] = t1.kinds[i]
        BY <3>5, <4>1, AppendIs, SMTT(20)
      <4> QED
        BY <3>5, <4>1, <4>2, Zenon
    <3> QED
      BY <3>1, <3>6
  <2>5. Weaker(Put(Put(Holding(So), o, "zero"), r, "held"), Holding(Sr))
    <3>1. (So \ {o}) \cup {r} = Sr /\ o \in Nat /\ r \in Nat /\ o # r
      BY <1>2
    <3> HIDE DEF So, Sr
    <3>2. Weaker(Put(Put(Holding(So), o, "zero"), r, "held"), Holding((So \ {o}) \cup {r}))
      BY <3>1, HoldMoved
    <3> QED
      BY <3>1, <3>2
  <2> DEFINE st == Holding(So)
             next == Holding(Sr)
             N == r
  <2>6. /\ N \in Nat /\ N = Len(c5.kinds) /\ N \in 1 .. N /\ o \in 1 .. N /\ N # o /\ st[o] = "held" /\ Settled(st)
        /\ c5.kinds[o] = "string" /\ st \in Knowledge /\ next \in Knowledge
        /\ Weaker(Put(Put(st, o, "zero"), N, "held"), next)
    BY <1>2, <1>4, <2>1, <2>3, <2>4, <2>5
  <2>7. <<Move(N, o)>> \in Seq(Statement(1 .. Len(c5.kinds)))
    BY <1>25, <2>2
  <2> HIDE DEF st, next, N
  <2>8. ASSUME NEW kept PROVE Walk(c5.kinds, kept, <<Move(N, o)>>, st, next)
    <3>1. Step(c5.kinds, kept, st, Move(N, o), next)
      BY <2>6, MoveStep
    <3> QED
      BY <2>6, <3>1, WalkOne
  <2>9. Walks(c5.kinds, {}, <<Move(N, o)>>, st, next)
    BY <2>8 DEF Walks
  <2>10. Graph(c5, E2, st, W3, {})
    BY <1>25 DEF st
  <2>11. Pushes(c5, PushAll(c5, <<Move(N, o)>>), E2, next, W3, {})
    <3> HIDE DEF W3
    <3> QED
      BY <2>6, <2>7, <2>9, <2>10, GraphPush
  <2> QED
    BY <2>11 DEF N, next
<1> DEFINE c7 == At(Term(c6, c6.cur, Goto(g)), g)
<1> HIDE DEF c6
<1>27. /\ Graph(c6, E2, Holding(Sr), W3, {}) /\ Keeps(c5, c6) /\ c6.cur = p /\ Len(c6.blocks) = g
       /\ Len(c6.kinds) = r
  BY <1>25, <1>26 DEF Pushes
<1>28. Moves(c6, c7, E2, g, g, W, Sr)
  <2>1. g \in W3 /\ W3 \ {g} = W
    <3>1. W \subseteq 1 .. m
      BY <1>2
    <3> QED
      BY <1>ar, <3>1
  <2>2. Goto(g) \in Terminator(1 .. Len(c6.kinds), 1 .. Len(c6.blocks)) /\ Kept(Goto(g)) \subseteq {}
    BY <1>22, <1>27
  <2> HIDE DEF W3, Sr
  <2>3. Moves(c6, At(Term(c6, c6.cur, Goto(g)), g), E2, g, Len(c6.blocks), W3 \ {g}, Sr)
    BY <1>22, <1>23, <1>27, <2>1, <2>2, GoOn
  <2> QED
    BY <1>27, <2>1, <2>3
<1>29. At(both, g) = c7
  <2>1. absent = Term(filled, filled.cur, Goto(g))
    BY <1>20
  <2>2. c6 = PushAll(At(absent, p), <<Move(r, o)>>)
    BY DEF c6, c5
  <2> QED
    BY <1>27, <2>2
<1> HIDE DEF c7
<1>30. Turns(c, c7, E2, Sr, W) /\ Len(c7.kinds) = r
  <2>1. /\ Graph(c7, E2, Holding(Sr), W, Sr) /\ Keeps(c6, c7) /\ Len(c7.blocks) = g /\ Len(c7.kinds) = r
    BY <1>3, <1>27, <1>28 DEF Moves
  <2>2. Sr \subseteq 1 .. Len(c7.kinds)
    BY <1>2, <2>1
  <2>3. Keeps(c, c7)
    <3>1. Keeps(c, c1)
      BY <1>6, <1>12, KeepsOn
    <3>2. Keeps(c, t1)
      BY <1>17, <1>20, <3>1, KeepsOn
    <3>3. Keeps(c, c5)
      BY <1>20, <1>25, <3>2, KeepsOn
    <3> QED
      BY <1>27, <2>1, <3>3, KeepsOn
  <2> HIDE DEF Sr
  <2>4. Len(c.kinds) <= Len(c7.kinds) /\ Len(c.blocks) <= Len(c7.blocks)
    BY <1>2, <2>1 DEF n, m
  <2> QED
    BY <2>1, <2>2, <2>3, <2>4 DEF Turns, Here
<1>31. r \in Len(c.kinds) + 1 .. Len(c7.kinds)
  BY <1>2, <1>30 DEF n
<1>32. Lowered(Bind(c7, x, r), frames, Put(e, x, r))
  BY <1>1, <1>3, <1>30, <1>31, LetLowered DEF S, W
<1> QED
  BY <1>29, <1>32

-----------------------------------------------------------------------------
(* Constructs are opened *)

\* g is d in the scope of the construct f, just opened.
Opened(d, g, f) ==
  /\ g \in Context /\ g.blocks = d.blocks /\ g.cur = d.cur /\ g.kinds = d.kinds /\ g.owned = d.owned
  /\ g.names = d.names /\ g.scopes = Append(d.scopes, Len(d.owned))
  /\ g.loops = IF f.kind = "loop"
               THEN Append(d.loops, [break |-> f.next, continue |-> f.exit, drop |-> Len(d.owned)])
               ELSE d.loops

\* The construct f may be opened in d.
Opens(d, E, f, e, frames) ==
  /\ f \in FrameSet /\ f.env = e /\ FrameFits(f, Len(frames) + 1, Len(d.blocks))
  /\ Waiting(f) \cap Waits(frames) = {}
  /\ f.exit # 0 => /\ E[f.next] = Holding(Range(d.owned)) /\ Weaker(Holding(Range(d.owned)), E[f.exit])
                   /\ f.kind # "loop" => E[f.exit] = Holding(Range(d.owned))

\* The new construct has a scope, and the scopes around it are those there were.
LEMMA OpenScoped ==
  ASSUME NEW d \in Context, NEW n \in Nat, Scoped(d, n), NEW g, NEW f, Opened(d, g, f)
  PROVE  /\ Scoped(g, n + 1) /\ g.scopes[n + 2] = Len(d.owned)
         /\ \A i \in 1 .. n + 1 : g.scopes[i] = d.scopes[i]
<1> DEFINE s == d.scopes
           t == g.scopes
           k == Len(d.owned)
<1>1. s \in Seq(Nat) /\ k \in Nat /\ t = Append(s, k) /\ Len(s) = n + 1
  BY ContextIs DEF Opened, Scoped
<1>2. /\ s[1] = 0 /\ s[n + 1] <= k /\ \A i, j \in 1 .. n + 1 : i <= j => s[i] <= s[j]
  BY DEF Scoped
<1>3. /\ \A i, j \in 1 .. Len(g.owned) : i # j => g.owned[i] # g.owned[j]
      /\ Range(g.owned) \subseteq 1 .. Len(g.kinds) /\ k = Len(g.owned)
  BY DEF Scoped, Opened
<1> HIDE DEF s, t, k
<1>4. Len(t) = n + 2 /\ t[n + 2] = k /\ \A i \in 1 .. n + 1 : t[i] = s[i]
  <2>1. Len(t) = Len(s) + 1 /\ t[Len(s) + 1] = k /\ \A i \in 1 .. Len(s) : t[i] = s[i]
    BY <1>1, AppendIs
  <2>2. Len(s) + 1 = n + 2
    BY <1>1
  <2> QED
    BY <1>1, <2>1, <2>2
<1>5. \A i, j \in 1 .. n + 2 : i <= j => t[i] <= t[j]
  <2>1. ASSUME NEW i \in 1 .. n + 2, NEW j \in 1 .. n + 2, i <= j PROVE t[i] <= t[j]
    <3>1. \A l \in 1 .. n + 1 : s[l] \in Nat /\ s[l] <= s[n + 1] /\ s[l] <= k
      <4>1. \A l \in 1 .. n + 1 : s[l] \in Nat
        BY <1>1, ElementOfSeq
      <4>2. n + 1 \in 1 .. n + 1
        OBVIOUS
      <4> QED
        BY <1>1, <1>2, <4>1, <4>2
    <3>2. CASE j \in 1 .. n + 1
      BY <1>2, <1>4, <2>1, <3>2
    <3>3. CASE j = n + 2 /\ i \in 1 .. n + 1
      BY <1>4, <3>1, <3>3
    <3>4. CASE j = n + 2 /\ i = n + 2
      BY <1>1, <1>4, <3>4
    <3> QED
      BY <2>1, <3>2, <3>3, <3>4
  <2> QED
    BY <2>1
<1>6. t[1] = 0 /\ t[n + 2] <= k
  BY <1>1, <1>2, <1>4
<1>7. (n + 1) + 1 = n + 2
  OBVIOUS
<1>8. Scoped(g, n + 1)
  BY <1>3, <1>4, <1>5, <1>6, <1>7 DEF Scoped, t
<1> QED
  BY <1>4, <1>8 DEF s, t, k

\* Around the new construct is all that was owned.
LEMMA OpenAround ==
  ASSUME NEW d \in Context, NEW n \in Nat, Scoped(d, n), NEW g, NEW f, Opened(d, g, f)
  PROVE  /\ \A k \in 1 .. n : Around(g, k) = Around(d, k)
         /\ Around(g, n + 1) = Range(d.owned)
<1>a. g.scopes[n + 2] = Len(d.owned)
  BY OpenScoped
<1>b. \A i \in 1 .. n + 1 : g.scopes[i] = d.scopes[i]
  BY OpenScoped
<1>c. g.owned = d.owned
  BY DEF Opened
<1>1. /\ g.scopes[n + 2] = Len(d.owned) /\ \A i \in 1 .. n + 1 : g.scopes[i] = d.scopes[i]
      /\ g.owned = d.owned
  BY <1>a, <1>b, <1>c
<1>2. ASSUME NEW k \in 1 .. n PROVE Around(g, k) = Around(d, k)
  <2>1. k + 1 \in 1 .. n + 1
    OBVIOUS
  <2> QED
    BY <1>1, <2>1 DEF Around
<1>3. Around(g, n + 1) = Range(d.owned)
  <2>1. Around(g, n + 1) = {d.owned[i] : i \in 1 .. Len(d.owned)}
    <3>1. (n + 1) + 1 = n + 2
      OBVIOUS
    <3> QED
      BY <1>1, <3>1 DEF Around
  <2>2. d.owned \in Seq(Nat)
    BY ContextIs
  <2>3. (\A i \in 1 .. Len(d.owned) : d.owned[i] \in Range(d.owned)) /\ \A l \in Range(d.owned) : \E i \in 1 .. Len(d.owned) : d.owned[i] = l
    BY <2>2, RangeIs
  <2> QED
    BY <2>1, <2>3
<1> QED
  BY <1>2, <1>3

\* The open constructs, with one more.
LEMMA FramesAppend ==
  ASSUME NEW frames \in Seq(FrameSet), NEW f \in FrameSet, NEW t, t = Append(frames, f), NEW n, n = Len(frames)
  PROVE  /\ t \in Seq(FrameSet) /\ n \in Nat /\ Len(t) = n + 1 /\ t[n + 1] = f
         /\ \A i \in 1 .. n : t[i] = frames[i]
         /\ \A i \in 1 .. n + 1 : i \in 1 .. n \/ i = n + 1
<1>1. n \in Nat
  BY LenProperties
<1> QED
  BY <1>1, AppendIs

\* The blocks that wait, with those of one construct more.
LEMMA WaitsAppend ==
  ASSUME NEW frames \in Seq(FrameSet), NEW f \in FrameSet
  PROVE  Waits(Append(frames, f)) = Waits(frames) \cup Waiting(f)
<1> DEFINE t == Append(frames, f)
           n == Len(frames)
<1>1. /\ t \in Seq(FrameSet) /\ n \in Nat /\ Len(t) = n + 1 /\ t[n + 1] = f
      /\ \A i \in 1 .. n : t[i] = frames[i] /\ \A j \in 1 .. n + 1 : j \in 1 .. n \/ j = n + 1
  BY FramesAppend
<1>2. DOMAIN t = 1 .. n + 1 /\ DOMAIN frames = 1 .. n
  BY <1>1, LenProperties
<1> HIDE DEF t, n
<1>3. Waits(t) \subseteq Waits(frames) \cup Waiting(f)
  BY <1>1, <1>2 DEF Waits
<1>4. Waits(frames) \cup Waiting(f) \subseteq Waits(t)
  <2>1. \A i \in 1 .. n : i \in 1 .. n + 1
    BY <1>1
  <2>2. n + 1 \in 1 .. n + 1
    BY <1>1
  <2> QED
    BY <1>1, <1>2, <2>1, <2>2 DEF Waits
<1> QED
  BY <1>3, <1>4 DEF t

\* The blocks of the new construct are its own.
LEMMA OpenFramed ==
  ASSUME NEW frames, NEW n \in Nat, Framed(frames, n), NEW f \in FrameSet, FrameFits(f, Len(frames) + 1, n),
         Waiting(f) \cap Waits(frames) = {}
  PROVE  Framed(Append(frames, f), n)
<1> DEFINE t == Append(frames, f)
           m == Len(frames)
<1>1. /\ frames \in Seq(FrameSet) /\ \A k \in 1 .. m : FrameFits(frames[k], k, n)
      /\ \A j, k \in 1 .. m : j # k => Waiting(frames[j]) \cap Waiting(frames[k]) = {}
  BY DEF Framed
<1>2. /\ t \in Seq(FrameSet) /\ m \in Nat /\ Len(t) = m + 1 /\ t[m + 1] = f
      /\ \A i \in 1 .. m : t[i] = frames[i]
  BY <1>1, FramesAppend
<1>3. \A i \in 1 .. m + 1 : i \in 1 .. m \/ i = m + 1
  BY <1>2
<1>4. DOMAIN frames = 1 .. m /\ FrameFits(f, m + 1, n)
  BY <1>1, LenProperties
<1> HIDE DEF t, m
<1>5. \A k \in 1 .. m : Waiting(frames[k]) \cap Waiting(f) = {}
  BY <1>4 DEF Waits
<1>6. \A k \in 1 .. m + 1 : FrameFits(t[k], k, n)
  BY <1>1, <1>2, <1>3, <1>4
<1>7. \A j, k \in 1 .. m + 1 : j # k => Waiting(t[j]) \cap Waiting(t[k]) = {}
  BY <1>1, <1>2, <1>3, <1>5
<1> QED
  BY <1>2, <1>6, <1>7 DEF Framed, t

\* w is where the loops of the context stand among the frames.
Places(c, frames, l, n, w) ==
  /\ l = Len(c.loops) /\ n = Len(frames) /\ w \in [1 .. l -> 1 .. n]
  /\ \A i, j \in 1 .. l : i < j => w[i] < w[j]
  /\ \A k \in 1 .. n : frames[k].kind = "loop" => \E j \in 1 .. l : w[j] = k
  /\ \A j \in 1 .. l : frames[w[j]].kind = "loop" /\ c.loops[j] = LoopOf(c, frames[w[j]], w[j])

\* The loop stack is the open loops when each is at its place.
LEMMA LoopedBy ==
  ASSUME NEW c, NEW frames, NEW l, NEW n, NEW w, Places(c, frames, l, n, w)
  PROVE  Looped(c, frames)
BY DEF Looped, Places

\* The loop stack follows the open constructs when one is opened.
LEMMA OpenLooped ==
  ASSUME NEW d \in Context, NEW frames \in Seq(FrameSet), Scoped(d, Len(frames)), Looped(d, frames),
         NEW g, NEW f \in FrameSet, Opened(d, g, f)
  PROVE  Looped(g, Append(frames, f))
<1> DEFINE t == Append(frames, f)
           n == Len(frames)
           L == Len(d.loops)
           top == [break |-> f.next, continue |-> f.exit, drop |-> Len(d.owned)]
<1>1. /\ t \in Seq(FrameSet) /\ n \in Nat /\ Len(t) = n + 1 /\ t[n + 1] = f
      /\ \A i \in 1 .. n : t[i] = frames[i]
  BY FramesAppend
<1>2. L \in Nat /\ Len(d.owned) \in Nat
  BY ContextIs
<1>3. g.scopes[n + 2] = Len(d.owned)
  BY <1>1, OpenScoped
<1>4. \A i \in 1 .. n + 1 : g.scopes[i] = d.scopes[i]
  BY <1>1, OpenScoped
<1>5. PICK w \in [1 .. L -> 1 .. n] :
        /\ \A i, j \in 1 .. L : i < j => w[i] < w[j]
        /\ \A k \in 1 .. n : frames[k].kind = "loop" => \E j \in 1 .. L : w[j] = k
        /\ \A j \in 1 .. L : frames[w[j]].kind = "loop" /\ d.loops[j] = LoopOf(d, frames[w[j]], w[j])
  BY DEF Looped
<1> HIDE DEF t, n, L
<1>6. \A j \in 1 .. L : w[j] \in 1 .. n /\ t[w[j]] = frames[w[j]] /\ t[w[j]].kind = "loop"
  BY <1>1, <1>5
<1>7. ASSUME NEW j \in 1 .. L PROVE LoopOf(g, t[w[j]], w[j]) = d.loops[j]
  <2>1. w[j] \in 1 .. n /\ t[w[j]] = frames[w[j]]
    BY <1>6
  <2>2. w[j] + 1 \in 1 .. n + 1
    BY <1>1, <2>1
  <2>3. g.scopes[w[j] + 1] = d.scopes[w[j] + 1]
    BY <1>4, <2>2
  <2> QED
    BY <1>5, <2>1, <2>3 DEF LoopOf
<1>8. CASE f.kind = "loop"
  <2> DEFINE v == [j \in 1 .. L + 1 |-> IF j = L + 1 THEN n + 1 ELSE w[j]]
  <2>1. g.loops = Append(d.loops, top)
    BY <1>8 DEF Opened
  <2>2. Len(g.loops) = L + 1 /\ g.loops[L + 1] = top /\ \A j \in 1 .. L : g.loops[j] = d.loops[j]
    <3> DEFINE R == [break : Nat, continue : Nat, drop : Nat]
    <3>1. d.loops \in Seq(R)
      BY ContextIs
    <3>2. top \in R
      BY <1>2 DEF FrameSet
    <3> HIDE DEF R, top
    <3> QED
      BY <2>1, <3>1, <3>2, AppendIs DEF L
  <2>3. /\ v \in [1 .. L + 1 -> 1 .. n + 1] /\ v[L + 1] = n + 1 /\ \A j \in 1 .. L : v[j] = w[j]
    BY <1>1, <1>2, <1>6
  <2>4. \A j \in 1 .. L + 1 : j \in 1 .. L \/ j = L + 1
    BY <1>2
  <2> HIDE DEF v
  <2>5. \A i, j \in 1 .. L + 1 : i < j => v[i] < v[j]
    <3>1. ASSUME NEW i \in 1 .. L + 1, NEW j \in 1 .. L + 1, i < j PROVE v[i] < v[j]
      <4>1. i \in 1 .. L
        BY <1>2, <3>1
      <4>2. v[i] = w[i] /\ w[i] \in 1 .. n
        BY <1>6, <2>3, <4>1
      <4>3. CASE j \in 1 .. L
        BY <1>5, <2>3, <3>1, <4>1, <4>2, <4>3
      <4>4. CASE j = L + 1
        BY <1>1, <2>3, <4>2, <4>4
      <4> QED
        BY <2>4, <4>3, <4>4
    <3> QED
      BY <3>1
  <2>6. ASSUME NEW k \in 1 .. n + 1, t[k].kind = "loop" PROVE \E j \in 1 .. L + 1 : v[j] = k
    <3>1. CASE k = n + 1
      <4>1. L + 1 \in 1 .. L + 1
        BY <1>2
      <4> QED
        BY <2>3, <3>1, <4>1
    <3>2. CASE k \in 1 .. n
      <4>1. frames[k].kind = "loop"
        BY <1>1, <2>6, <3>2
      <4>2. PICK j \in 1 .. L : w[j] = k
        BY <1>5, <3>2, <4>1
      <4>3. j \in 1 .. L + 1
        BY <1>2
      <4> QED
        BY <2>3, <4>2, <4>3
    <3> QED
      BY <1>1, <3>1, <3>2
  <2>7. ASSUME NEW j \in 1 .. L + 1 PROVE t[v[j]].kind = "loop" /\ g.loops[j] = LoopOf(g, t[v[j]], v[j])
    <3>1. CASE j \in 1 .. L
      BY <1>6, <1>7, <2>2, <2>3, <3>1
    <3>2. CASE j = L + 1
      <4>1. LoopOf(g, f, n + 1) = top
        <5>1. (n + 1) + 1 = n + 2
          BY <1>1
        <5> QED
          BY <1>3, <5>1 DEF LoopOf
      <4> HIDE DEF top
      <4> QED
        BY <1>1, <1>8, <2>2, <2>3, <3>2, <4>1
    <3> QED
      BY <2>4, <3>1, <3>2
  <2> QED
    <3>1. L + 1 = Len(g.loops) /\ n + 1 = Len(t)
      BY <1>1, <2>2
    <3>2. \A k \in 1 .. n + 1 : t[k].kind = "loop" => \E j \in 1 .. L + 1 : v[j] = k
      BY <2>6
    <3>3. \A j \in 1 .. L + 1 : t[v[j]].kind = "loop" /\ g.loops[j] = LoopOf(g, t[v[j]], v[j])
      BY <2>7
    <3>4. Places(g, t, L + 1, n + 1, v)
      BY <2>3, <2>5, <3>1, <3>2, <3>3 DEF Places
    <3>5. Looped(g, t)
      BY <3>4, LoopedBy
    <3> QED
      BY <3>5 DEF t
<1>9. CASE f.kind # "loop"
  <2>1. g.loops = d.loops
    BY <1>9 DEF Opened
  <2>2. w \in [1 .. L -> 1 .. n + 1]
    BY <1>1, <1>6
  <2>3. ASSUME NEW k \in 1 .. n + 1, t[k].kind = "loop" PROVE \E j \in 1 .. L : w[j] = k
    <3>1. k # n + 1
      BY <1>1, <1>9, <2>3
    <3>2. k \in 1 .. n
      BY <1>1, <3>1
    <3> QED
      BY <1>1, <1>5, <2>3, <3>2
  <2>4. \A j \in 1 .. L : t[w[j]].kind = "loop" /\ g.loops[j] = LoopOf(g, t[w[j]], w[j])
    BY <1>6, <1>7, <2>1
  <2> QED
    <3>1. L = Len(g.loops) /\ n + 1 = Len(t)
      BY <1>1, <2>1 DEF L
    <3>2. \A k \in 1 .. n + 1 : t[k].kind = "loop" => \E j \in 1 .. L : w[j] = k
      BY <2>3
    <3>3. Places(g, t, L, n + 1, w)
      BY <1>5, <2>2, <2>4, <3>1, <3>2 DEF Places
    <3>4. Looped(g, t)
      BY <3>3, LoopedBy
    <3> QED
      BY <3>4 DEF t
<1> QED
  BY <1>8, <1>9

\* The names around the new construct are the names bound when it was opened.
LEMMA OpenNamed ==
  ASSUME NEW d \in Context, NEW frames \in Seq(FrameSet), Scoped(d, Len(frames)),
         NEW g, NEW f \in FrameSet, Opened(d, g, f), Named(d, frames, f.env)
  PROVE  Named(g, Append(frames, f), f.env)
<1> DEFINE t == Append(frames, f)
           n == Len(frames)
           e == f.env
<1>1. /\ t \in Seq(FrameSet) /\ n \in Nat /\ Len(t) = n + 1 /\ t[n + 1] = f
      /\ \A i \in 1 .. n : t[i] = frames[i]
  BY FramesAppend
<1>2. g.names = d.names /\ g.owned = d.owned /\ g.kinds = d.kinds
  BY DEF Opened
<1>3. \A k \in 1 .. n : Around(g, k) = Around(d, k)
  BY <1>1, OpenAround
<1>4. Around(g, n + 1) = Range(d.owned)
  BY <1>1, OpenAround
<1>5. /\ d.names \in [Names -> 0 .. Len(d.kinds)] /\ e \in [Names -> 0 .. Len(d.kinds)]
      /\ \A x \in Names : e[x] # 0 => d.names[x] = e[x] /\ e[x] \in Range(d.owned)
      /\ \A x, y \in Names : e[x] # 0 /\ e[x] = e[y] => x = y
  BY DEF Named
<1>6. \A k \in 1 .. n : \A x \in Names : frames[k].env[x] # 0 =>
         /\ e[x] = frames[k].env[x] /\ e[x] \in Around(d, k)
         /\ \A j \in 1 .. n : j >= k => frames[j].env[x] = e[x]
  BY DEF Named
<1>7. \A k \in 1 .. n + 1 : k \in 1 .. n \/ k = n + 1
  BY <1>1
<1> HIDE DEF t, n
<1>8. t[n + 1].env = e
  BY <1>1
<1> HIDE DEF e
<1>9. ASSUME NEW k \in 1 .. n + 1, NEW x \in Names, t[k].env[x] # 0
      PROVE  /\ e[x] = t[k].env[x] /\ e[x] \in Around(g, k)
             /\ \A j \in 1 .. n + 1 : j >= k => t[j].env[x] = e[x]
  <2>1. CASE k = n + 1
    <3>1. e[x] = t[k].env[x]
      BY <1>8, <2>1
    <3>2. e[x] \in Around(g, k)
      BY <1>4, <1>5, <1>9, <2>1, <3>1
    <3>3. \A j \in 1 .. n + 1 : j >= k => j = n + 1
      BY <1>1, <2>1
    <3> QED
      BY <1>8, <3>1, <3>2, <3>3
  <2>2. CASE k \in 1 .. n
    <3>1. t[k] = frames[k]
      BY <1>1, <2>2
    <3>2. frames[k].env[x] # 0
      BY <1>9, <3>1
    <3>3. e[x] = frames[k].env[x] /\ e[x] \in Around(d, k)
      BY <1>6, <2>2, <3>2
    <3>4. \A j \in 1 .. n : j >= k => frames[j].env[x] = e[x]
      BY <1>6, <2>2, <3>2
    <3>5. ASSUME NEW j \in 1 .. n + 1, j >= k PROVE t[j].env[x] = e[x]
      BY <1>1, <1>7, <1>8, <3>4, <3>5
    <3> QED
      BY <1>3, <2>2, <3>1, <3>3, <3>5
  <2> QED
    BY <1>7, <2>1, <2>2
<1> QED
  BY <1>1, <1>2, <1>5, <1>9 DEF Named, t, e

\* What is known at the blocks of the new construct is what its end may rely on.
LEMMA OpenFlows ==
  ASSUME NEW d \in Context, NEW frames \in Seq(FrameSet), Scoped(d, Len(frames)), NEW g, NEW f \in FrameSet,
         Opened(d, g, f), NEW E, FramesFlow(d, E, frames), Opens(d, E, f, f.env, frames)
  PROVE  FramesFlow(g, E, Append(frames, f))
<1> DEFINE t == Append(frames, f)
           n == Len(frames)
<1>1. /\ t \in Seq(FrameSet) /\ n \in Nat /\ Len(t) = n + 1 /\ t[n + 1] = f
      /\ \A i \in 1 .. n : t[i] = frames[i]
  BY FramesAppend
<1>2. \A k \in 1 .. n : Around(g, k) = Around(d, k)
  BY <1>1, OpenAround
<1>3. Around(g, n + 1) = Range(d.owned)
  BY <1>1, OpenAround
<1> HIDE DEF t, n
<1>4. \A k \in 1 .. n : FrameFlows(d, E, frames[k], k)
  BY DEF FramesFlow, n
<1>5. \A k \in 1 .. n : FrameFlows(g, E, t[k], k)
  BY <1>1, <1>2, <1>4 DEF FrameFlows
<1>6. FrameFlows(g, E, f, n + 1)
  BY <1>3 DEF FrameFlows, Opens
<1>7. \A k \in 1 .. n + 1 : k \in 1 .. n \/ k = n + 1
  BY <1>1
<1>8. \A k \in 1 .. Len(t) : FrameFlows(g, E, t[k], k)
  BY <1>1, <1>5, <1>6, <1>7
<1> QED
  BY <1>8 DEF FramesFlow, t

\* The body of a construct that has just been opened is lowered as any other.
LEMMA EnterLowered ==
  ASSUME NEW c, NEW frames, NEW e, Books(c, frames, e), NEW E, FramesFlow(c, E, frames), c \in Context,
         NEW d, Grows(c, d), d.names = c.names, NEW E2, Extends(E2, E, c),
         NEW f, f.env = e, Opens(d, E2, f, e, frames), Here(d, E2, Range(d.owned), Waits(frames) \cup Waiting(f)),
         NEW g, Opened(d, g, f)
  PROVE  Lowered(g, Append(frames, f), e)
<1> DEFINE t == Append(frames, f)
<1>1. Books(d, frames, e) /\ d \in Context
  BY BooksGrow DEF Grows
<1>2. /\ Scoped(d, Len(frames)) /\ Framed(frames, Len(d.blocks)) /\ Looped(d, frames) /\ Named(d, frames, e)
      /\ frames \in Seq(FrameSet) /\ Len(frames) \in Nat
  BY <1>1, BooksIs
<1>3. f \in FrameSet /\ FrameFits(f, Len(frames) + 1, Len(d.blocks)) /\ Waiting(f) \cap Waits(frames) = {}
  BY DEF Opens
<1>4. Len(t) = Len(frames) + 1
  BY <1>2, <1>3, FramesAppend
<1>5. Scoped(g, Len(t))
  <2>1. Scoped(g, Len(frames) + 1)
    BY <1>1, <1>2, OpenScoped
  <2> QED
    BY <1>4, <2>1
<1>6. Framed(t, Len(g.blocks))
  <2>1. Len(d.blocks) \in Nat
    BY <1>1, ContextIs
  <2>2. Framed(t, Len(d.blocks))
    BY <1>2, <1>3, <2>1, OpenFramed
  <2> QED
    BY <2>2 DEF Opened
<1>7. Looped(g, t)
  BY <1>1, <1>2, <1>3, OpenLooped
<1>8. Named(g, t, e)
  BY <1>1, <1>2, <1>3, OpenNamed
<1>9. Books(g, t, e)
  BY <1>5, <1>6, <1>7, <1>8 DEF Books
<1>10. FramesFlow(d, E2, frames)
  <2>1. Scoped(c, Len(frames)) /\ Framed(frames, Len(c.blocks))
    BY BooksIs
  <2> QED
    BY <2>1, FlowGrow
<1>11. FramesFlow(g, E2, t)
  BY <1>1, <1>2, <1>3, <1>10, OpenFlows
<1>12. Here(g, E2, Range(g.owned), Waits(t))
  <2>1. Waits(t) = Waits(frames) \cup Waiting(f)
    BY <1>2, <1>3, WaitsAppend
  <2>2. g \in Context /\ g.blocks = d.blocks /\ g.cur = d.cur /\ g.kinds = d.kinds /\ g.owned = d.owned
    BY DEF Opened
  <2> DEFINE S == Range(d.owned)
             W == Waits(frames) \cup Waiting(f)
  <2> HIDE DEF S, W, t
  <2>3. Graph(d, E2, Holding(S), W, S) /\ S \subseteq 1 .. Len(d.kinds)
    BY DEF Here, S, W
  <2>4. Graph(g, E2, Holding(S), W, S)
    BY <2>2, <2>3, GraphSame
  <2> QED
    BY <2>1, <2>2, <2>3, <2>4 DEF Here, S, W
<1> QED
  BY <1>9, <1>11, <1>12 DEF Lowered, Flow, t

-----------------------------------------------------------------------------
(* The constructs that have a body *)

\* A scope is pushed for a construct that is no loop.
LEMMA ScopeOpened ==
  ASSUME NEW d \in Context, NEW f, f.kind # "loop"
  PROVE  Opened(d, PushScope(d), f)
<1> DEFINE s == Append(d.scopes, Len(d.owned))
           g == PushScope(d)
<1>1. s \in Seq(Nat)
  BY ContextIs, AppendProperties
<1>2. g = [d EXCEPT !.scopes = s]
  BY DEF PushScope
<1> HIDE DEF s, g
<1>3. /\ g \in Context /\ g.blocks = d.blocks /\ g.cur = d.cur /\ g.kinds = d.kinds /\ g.owned = d.owned
      /\ g.names = d.names /\ g.loops = d.loops /\ g.scopes = s
  BY <1>1, <1>2 DEF Context
<1> QED
  BY <1>3 DEF Opened, s, g

\* A scope and a loop are pushed for a loop.
LEMMA LoopOpened ==
  ASSUME NEW d \in Context, NEW f \in FrameSet, f.kind = "loop",
         NEW r, r = [break |-> f.next, continue |-> f.exit, drop |-> Len(d.owned)]
  PROVE  Opened(d, PushScope([d EXCEPT !.loops = Append(@, r)]), f)
<1> DEFINE R == [break : Nat, continue : Nat, drop : Nat]
           ls == Append(d.loops, r)
           s == Append(d.scopes, Len(d.owned))
           d1 == [d EXCEPT !.loops = Append(@, r)]
           g == PushScope(d1)
<1>1. s \in Seq(Nat)
  BY ContextIs, AppendProperties
<1>2. ls \in Seq(R)
  <2>1. r \in R /\ d.loops \in Seq(R)
    BY ContextIs DEF FrameSet
  <2> HIDE DEF R
  <2> QED
    BY <2>1, AppendProperties
<1>3. d1 = [d EXCEPT !.loops = ls]
  OBVIOUS
<1> HIDE DEF d1, ls
<1>4. /\ d1 \in Context /\ d1.blocks = d.blocks /\ d1.cur = d.cur /\ d1.kinds = d.kinds /\ d1.owned = d.owned
      /\ d1.names = d.names /\ d1.scopes = d.scopes /\ d1.loops = ls
  BY <1>2, <1>3 DEF Context
<1>5. g = [d1 EXCEPT !.scopes = s]
  BY <1>4 DEF PushScope
<1> HIDE DEF s, g
<1>6. /\ g \in Context /\ g.blocks = d1.blocks /\ g.cur = d1.cur /\ g.kinds = d1.kinds /\ g.owned = d1.owned
      /\ g.names = d1.names /\ g.loops = d1.loops /\ g.scopes = s
  BY <1>1, <1>4, <1>5 DEF Context
<1>7. Opened(d, g, f)
  BY <1>4, <1>6 DEF Opened, s, ls
<1> QED
  BY <1>7 DEF g, d1

\* A construct as the books keep it.
LEMMA FrameIs ==
  ASSUME NEW c, NEW frames, NEW e, Books(c, frames, e), c \in Context,
         NEW kind \in {"body", "block", "then", "loop", "init"}, NEW exit \in Nat, NEW next \in Nat
  PROVE  [kind |-> kind, exit |-> exit, next |-> next, env |-> e] \in FrameSet
<1>1. e \in [Names -> 0 .. Len(c.kinds)] /\ Len(c.kinds) \in Nat
  BY BooksIs, ContextIs DEF Named
<1>2. e \in [Names -> Nat]
  BY <1>1
<1> QED
  BY <1>2 DEF FrameSet

\* A body grows into itself.
LEMMA GrowsItself ==
  ASSUME NEW c \in Context
  PROVE  Grows(c, c)
BY ContextIs DEF Grows

\* { ... } and let x = { ... }
LEMMA OpenBlockLowered ==
  ASSUME NEW c, NEW frames, NEW e, Lowered(c, frames, e), frames # <<>>, NEW kind \in {"block", "init"},
         NEW f, f = [kind |-> kind, exit |-> 0, next |-> 0, env |-> e]
  PROVE  Lowered(PushScope(c), Append(frames, f), e)
<1> DEFINE g == PushScope(c)
<1>1. PICK E : /\ Here(c, E, Range(c.owned), Waits(frames)) /\ FramesFlow(c, E, frames) /\ Extends(E, E, c)
               /\ Books(c, frames, e) /\ c \in Context
  BY LoweredIs
<1>2. Opened(c, g, f)
  BY <1>1, ScopeOpened
<1>3. f \in FrameSet
  BY <1>1, FrameIs
<1>4. Len(frames) + 1 # 1
  BY <1>1, BooksIs, EmptySeq
<1>5. Waiting(f) = {}
  BY DEF Waiting
<1>6. Opens(c, E, f, e, frames)
  BY <1>3, <1>4, <1>5 DEF Opens, FrameFits
<1>7. Here(c, E, Range(c.owned), Waits(frames) \cup Waiting(f))
  BY <1>1, <1>5
<1>8. Grows(c, c) /\ f.env = e
  BY <1>1, GrowsItself
<1> HIDE DEF g
<1> QED
  BY <1>1, <1>2, <1>6, <1>7, <1>8, EnterLowered DEF g

\* The blocks made for a construct wait for nothing else.
LEMMA FreshOpens ==
  ASSUME NEW c, NEW frames, NEW e, Books(c, frames, e), frames # <<>>, c \in Context,
         NEW E, NEW W, Here(c, E, Range(c.owned), W), W = Waits(frames),
         NEW d, NEW E2, NEW n \in Nat, Len(d.blocks) = Len(c.blocks) + n,
         NEW kind \in {"block", "then", "loop"}, NEW exit \in Later(c, n), NEW next \in Later(c, n),
         kind = "then" => exit # next, kind = "block" => exit = next,
         E2[next] = Holding(Range(d.owned)), Weaker(Holding(Range(d.owned)), E2[exit]),
         kind # "loop" => E2[exit] = Holding(Range(d.owned)),
         NEW f, f = [kind |-> kind, exit |-> exit, next |-> next, env |-> e]
  PROVE  Opens(d, E2, f, e, frames)
<1> DEFINE m == Len(c.blocks)
<1>1. m \in Nat /\ W \subseteq 1 .. m
  BY HereIs
<1> DEFINE q == Len(frames)
<1>2. q + 1 # 1 /\ q \in Nat
  BY BooksIs, EmptySeq
<1> HIDE DEF m, q
<1>3. /\ exit \in Nat /\ next \in Nat /\ exit # 0 /\ next # 0 /\ exit \in 1 .. m + n /\ next \in 1 .. m + n
      /\ exit \notin W /\ next \notin W
  BY <1>1 DEF Later, m
<1>4. f \in FrameSet
  BY <1>3, FrameIs
<1>5. /\ f.kind = kind /\ f.exit = exit /\ f.next = next /\ f.env = e
  OBVIOUS
<1>6. Waiting(f) \cap Waits(frames) = {}
  BY <1>3, <1>5 DEF Waiting
<1>7. FrameFits(f, q + 1, m + n)
  BY <1>2, <1>3, <1>5 DEF FrameFits
<1> QED
  BY <1>4, <1>5, <1>6, <1>7 DEF Opens, m, q

\* The current block ends and control goes on in a block made for a construct,
\* whose other blocks wait.
Leaps(c, E, E2, n, b, t) ==
  /\ Extends(E2, E, c) /\ n \in Nat /\ b \in Later(c, n)
  /\ t \in Terminator(1 .. Len(c.kinds), 1 .. Len(c.blocks) + n) /\ t # Placeholder /\ Kept(t) = {}
  /\ Leads(E2, t, Holding(Range(c.owned))) /\ E2[b] = Holding(Range(c.owned))

\* The blocks of the construct f are among the n blocks just made.
Suits(c, E2, n, b, f) ==
  /\ f.kind \in {"block", "then", "loop"} /\ f.exit \in Later(c, n) /\ f.next \in Later(c, n)
  /\ f.kind = "then" => f.exit # f.next
  /\ f.kind = "block" => f.exit = f.next
  /\ E2[f.next] = Holding(Range(c.owned)) /\ E2[f.exit] = Holding(Range(c.owned))
  /\ Waiting(f) = Later(c, n) \ {b}

\* A construct whose body is one of the blocks just made is opened.
LEMMA FreshEnters ==
  ASSUME NEW c, NEW frames, NEW e, Books(c, frames, e), frames # <<>>, c \in Context,
         NEW E, FramesFlow(c, E, frames), Here(c, E, Range(c.owned), Waits(frames)),
         NEW E2, NEW n, NEW b, NEW t, Leaps(c, E, E2, n, b, t), NEW f, Suits(c, E2, n, b, f),
         f = [kind |-> f.kind, exit |-> f.exit, next |-> f.next, env |-> e],
         NEW g, Opened(At(AllocBbs(Term(c, c.cur, t), n), b), g, f)
  PROVE  Lowered(g, Append(frames, f), e)
<1> DEFINE W == Waits(frames)
           kind == f.kind
           exit == f.exit
           next == f.next
           st == Holding(Range(c.owned))
<1>a. /\ Extends(E2, E, c) /\ n \in Nat /\ b \in Later(c, n)
      /\ t \in Terminator(1 .. Len(c.kinds), 1 .. Len(c.blocks) + n) /\ t # Placeholder /\ Kept(t) = {}
      /\ Leads(E2, t, st) /\ E2[b] = st
  BY DEF Leaps
<1>b. /\ kind \in {"block", "then", "loop"} /\ exit \in Later(c, n) /\ next \in Later(c, n)
      /\ kind = "then" => exit # next
      /\ kind = "block" => exit = next
      /\ E2[next] = st /\ E2[exit] = st /\ Waiting(f) = Later(c, n) \ {b}
  BY DEF Suits
<1>c. f = [kind |-> kind, exit |-> exit, next |-> next, env |-> e] /\ Here(c, E, Range(c.owned), W)
      /\ st = Holding(Range(c.owned)) /\ W = Waits(frames)
  OBVIOUS
<1> HIDE DEF W, kind, exit, next, st
<1> DEFINE S == Range(c.owned)
           d == At(AllocBbs(Term(c, c.cur, t), n), b)
<1>1. Arrives(c, d, E2, S, b, Len(c.blocks) + n, (W \cup Later(c, n)) \ {b})
  <2>1. S \subseteq 1 .. Len(c.kinds) /\ Kept(t) \subseteq S
    BY <1>a, <1>c DEF Here
  <2> HIDE DEF S
  <2>2. Here(c, E, S, W) /\ E2[b] = Holding(S) /\ Leads(E2, t, Holding(S))
    BY <1>a, <1>c DEF S
  <2>3. Arrives(c, At(AllocBbs(Term(c, c.cur, t), n), b), E2, S, b, Len(c.blocks) + n, (W \cup Later(c, n)) \ {b})
    BY <1>a, <2>1, <2>2, HereFresh
  <2> QED
    BY <2>3
<1>2. (W \cup Later(c, n)) \ {b} = W \cup Waiting(f)
  <2>1. W \subseteq 1 .. Len(c.blocks) /\ Len(c.blocks) \in Nat
    BY <1>c, HereIs
  <2>2. b \notin W
    BY <1>a, <2>1 DEF Later
  <2> QED
    BY <1>b, <2>2
<1>3. Opened(d, g, f)
  OBVIOUS
<1> HIDE DEF d
<1>4. Here(d, E2, S, W \cup Waiting(f)) /\ Keeps(c, d) /\ d.kinds = c.kinds /\ Len(d.blocks) = Len(c.blocks) + n
  BY <1>1, <1>2 DEF Arrives
<1>5. Grows(c, d) /\ d.names = c.names /\ d.owned = c.owned
  <2>1. Len(c.kinds) \in Nat /\ Len(c.blocks) \in Nat
    BY ContextIs
  <2>2. Len(c.blocks) <= Len(d.blocks)
    BY <1>a, <1>4, <2>1
  <2>3. Len(c.kinds) <= Len(d.kinds)
    BY <1>4, <2>1
  <2> QED
    BY <1>4, <2>2, <2>3 DEF Grows, Keeps
<1>6. Opens(d, E2, f, e, frames)
  <2>1. Holding(Range(d.owned)) = st /\ Weaker(st, E2[exit])
    <3>1. st \in Knowledge
      BY <1>c, HoldingIs
    <3> QED
      BY <1>b, <1>c, <1>5, <3>1, WeakerIs
  <2>2. E2[next] = Holding(Range(d.owned)) /\ E2[exit] = Holding(Range(d.owned))
        /\ Weaker(Holding(Range(d.owned)), E2[exit])
    BY <1>b, <2>1
  <2> QED
    BY <1>a, <1>b, <1>c, <1>4, <2>2, FreshOpens
<1>7. f.env = e /\ Here(d, E2, Range(d.owned), Waits(frames) \cup Waiting(f))
  BY <1>4, <1>5 DEF S, W
<1> QED
  BY <1>a, <1>3, <1>5, <1>6, <1>7, EnterLowered

\* if ... { ... } and if ... { ... } else { ... }
LEMMA OpenIfLowered ==
  ASSUME NEW c, NEW frames, NEW e, Lowered(c, frames, e), frames # <<>>, NEW withElse \in BOOLEAN,
         NEW n, n = (IF withElse THEN 3 ELSE 2), NEW a, a = Len(c.blocks) + 1, NEW b, b = a + 1,
         NEW s, s = (IF withElse THEN a + 2 ELSE b),
         NEW kind, kind = (IF withElse THEN "then" ELSE "block"),
         NEW f, f = [kind |-> kind, exit |-> b, next |-> s, env |-> e]
  PROVE  Lowered(PushScope(At(AllocBbs(Term(c, c.cur, Branch(a, s)), n), a)), Append(frames, f), e)
<1> DEFINE S == Range(c.owned)
           W == Waits(frames)
           st == Holding(S)
           m == Len(c.blocks)
           t == Branch(a, s)
           d == At(AllocBbs(Term(c, c.cur, t), n), a)
           g == PushScope(d)
<1>1. PICK E : /\ Here(c, E, S, W) /\ FramesFlow(c, E, frames) /\ Extends(E, E, c)
               /\ Books(c, frames, e) /\ c \in Context
  BY LoweredIs
<1>2. m \in Nat /\ Len(c.kinds) \in Nat /\ E \in [Nat -> Knowledge] /\ st \in Knowledge
  BY <1>1, HereIs, HoldingIs
<1> HIDE DEF m, S, st
<1>3. a = m + 1 /\ m \in Nat /\ Later(c, n) = m + 1 .. m + n
  BY <1>2 DEF m, Later
<1>4. /\ n \in Nat /\ a \in m + 1 .. m + n /\ b \in m + 1 .. m + n /\ s \in m + 1 .. m + n
      /\ a \in 1 .. m + n /\ s \in 1 .. m + n /\ m + n \in Nat
  <2>1. CASE withElse
    <3>1. n = 3 /\ b = m + 2 /\ s = m + 3
      BY <1>3, <2>1
    <3> QED
      BY <1>3, <3>1
  <2>2. CASE ~withElse
    <3>1. n = 2 /\ b = m + 2 /\ s = m + 2
      BY <1>3, <2>2
    <3> QED
      BY <1>3, <3>1
  <2> QED
    BY <2>1, <2>2
<1>5. Waiting(f) = Later(c, n) \ {a}
  <2>1. Waiting(f) = {b, s}
    BY <1>3, <1>4 DEF Waiting
  <2>2. CASE withElse
    <3>1. n = 3 /\ b = m + 2 /\ s = m + 3
      BY <1>3, <2>2
    <3> QED
      BY <1>3, <2>1, <3>1
  <2>3. CASE ~withElse
    <3>1. n = 2 /\ b = m + 2 /\ s = m + 2
      BY <1>3, <2>3
    <3> QED
      BY <1>3, <2>1, <3>1
  <2> QED
    BY <2>2, <2>3
<1>6. PICK E2 : Four(c, E, E2, m, st, st, st, st)
  BY <1>1, <1>2, ExtendsFour DEF m
<1>7. Extends(E2, E, c) /\ E2[a] = st /\ E2[b] = st /\ E2[s] = st
  <2>1. a = m + 1 /\ b = m + 2 /\ (s = m + 2 \/ s = m + 3)
    BY <1>3
  <2> QED
    BY <1>6, <2>1 DEF Four
<1>8. t \in Terminator(1 .. Len(c.kinds), 1 .. m + n) /\ t # Placeholder /\ Kept(t) = {} /\ Leads(E2, t, st)
  <2>1. \A E3, st3 : Weaker(st3, E3[a]) /\ Weaker(st3, E3[s]) => Leads(E3, t, st3)
    BY <1>2, <1>4, BranchIs
  <2>2. Weaker(st, E2[a]) /\ Weaker(st, E2[s])
    BY <1>2, <1>7, WeakerIs
  <2>3. t \in Terminator(1 .. Len(c.kinds), 1 .. m + n) /\ t # Placeholder /\ Kept(t) = {}
    BY <1>2, <1>4, BranchIs
  <2> QED
    BY <2>1, <2>2, <2>3
<1>9. d \in Context
  <2>1. a \in Later(c, n) /\ Kept(t) \subseteq S /\ S \subseteq 1 .. Len(c.kinds)
    BY <1>1, <1>3, <1>4, <1>8, HereIs
  <2> HIDE DEF t
  <2>2. Arrives(c, d, E2, S, a, m + n, (W \cup Later(c, n)) \ {a})
    BY <1>1, <1>4, <1>7, <1>8, <2>1, HereFresh DEF st, m
  <2> QED
    BY <2>2 DEF Arrives, Keeps
<1> HIDE DEF t
<1>10. Opened(d, g, f)
  BY <1>9, ScopeOpened
<1>11. /\ kind \in {"block", "then", "loop"} /\ kind = "then" => b # s
       /\ kind = "block" => b = s
  <2>1. CASE withElse
    BY <1>3, <2>1
  <2>2. CASE ~withElse
    BY <2>2
  <2> QED
    BY <2>1, <2>2
<1>12. a \in Later(c, n) /\ b \in Later(c, n) /\ s \in Later(c, n)
  BY <1>3, <1>4
<1>13. st = Holding(Range(c.owned)) /\ S = Range(c.owned) /\ m = Len(c.blocks)
  BY DEF st, S, m
<1> HIDE DEF g, W, d
<1>14. Leaps(c, E, E2, n, a, t)
  BY <1>4, <1>7, <1>8, <1>12, <1>13 DEF Leaps
<1>15. Suits(c, E2, n, a, f)
  BY <1>5, <1>7, <1>11, <1>12, <1>13 DEF Suits
<1>16. Here(c, E, Range(c.owned), Waits(frames))
  BY <1>1, <1>13 DEF W
<1>17. f = [kind |-> f.kind, exit |-> f.exit, next |-> f.next, env |-> e]
  OBVIOUS
<1>18. Opened(At(AllocBbs(Term(c, c.cur, t), n), a), g, f)
  BY <1>10 DEF d
<1>19. Lowered(g, Append(frames, f), e)
  BY <1>1, <1>14, <1>15, <1>16, <1>17, <1>18, FreshEnters
<1> QED
  BY <1>19 DEF g, d, t

\* loop { ... }
LEMMA OpenLoopLowered ==
  ASSUME NEW c, NEW frames, NEW e, Lowered(c, frames, e), frames # <<>>, NEW h, h = Len(c.blocks) + 1,
         NEW f, f = [kind |-> "loop", exit |-> h, next |-> h + 1, env |-> e]
  PROVE  Lowered(LoopBody(c), Append(frames, f), e)
<1> DEFINE S == Range(c.owned)
           W == Waits(frames)
           st == Holding(S)
           m == Len(c.blocks)
           t == Goto(h)
           d == At(AllocBbs(Term(c, c.cur, t), 2), h)
           r == [break |-> h + 1, continue |-> h, drop |-> Len(d.owned)]
           g == PushScope([d EXCEPT !.loops = Append(@, r)])
<1>0. g = LoopBody(c)
  BY DEF LoopBody, NextBb
<1>1. PICK E : /\ Here(c, E, S, W) /\ FramesFlow(c, E, frames) /\ Extends(E, E, c)
               /\ Books(c, frames, e) /\ c \in Context
  BY LoweredIs
<1>2. m \in Nat /\ Len(c.kinds) \in Nat /\ E \in [Nat -> Knowledge] /\ st \in Knowledge
  BY <1>1, HereIs, HoldingIs
<1> HIDE DEF m, S, st, g
<1>3. /\ m \in Nat /\ Later(c, 2) = {h, h + 1} /\ h \in 1 .. m + 2 /\ m + 2 \in Nat /\ h # 0
      /\ h \in Nat /\ h + 1 \in Nat /\ h + 1 # h
  BY <1>2 DEF m, Later
<1>4. PICK E2 : Four(c, E, E2, m, st, st, st, st)
  BY <1>1, <1>2, ExtendsFour DEF m
<1>5. Extends(E2, E, c) /\ E2[h] = st /\ E2[h + 1] = st
  <2>1. h = m + 1 /\ h + 1 = m + 2
    BY <1>2 DEF m
  <2> QED
    BY <1>4, <2>1 DEF Four
<1>6. t \in Terminator(1 .. Len(c.kinds), 1 .. m + 2) /\ t # Placeholder /\ Kept(t) = {} /\ Leads(E2, t, st)
  <2>1. \A E3, st3 : Weaker(st3, E3[h]) => Leads(E3, t, st3)
    BY <1>2, <1>3, GotoIs
  <2>2. Weaker(st, E2[h])
    BY <1>2, <1>5, WeakerIs
  <2>3. t \in Terminator(1 .. Len(c.kinds), 1 .. m + 2) /\ t # Placeholder /\ Kept(t) = {}
    BY <1>2, <1>3, GotoIs
  <2> QED
    BY <2>1, <2>2, <2>3
<1>7. d \in Context
  <2>1. h \in Later(c, 2) /\ Kept(t) \subseteq S /\ S \subseteq 1 .. Len(c.kinds) /\ 2 \in Nat
    BY <1>1, <1>3, <1>6, HereIs
  <2> HIDE DEF t
  <2>2. Arrives(c, d, E2, S, h, m + 2, (W \cup Later(c, 2)) \ {h})
    BY <1>1, <1>5, <1>6, <2>1, HereFresh DEF st, m
  <2> QED
    BY <2>2 DEF Arrives, Keeps
<1> HIDE DEF t
<1>8. f \in FrameSet
  BY <1>1, <1>3, FrameIs
<1>9. Opened(d, g, f)
  <2>1. r = [break |-> f.next, continue |-> f.exit, drop |-> Len(d.owned)] /\ f.kind = "loop"
    OBVIOUS
  <2> HIDE DEF d, r
  <2>2. Opened(d, PushScope([d EXCEPT !.loops = Append(@, r)]), f)
    BY <1>7, <1>8, <2>1, LoopOpened
  <2> QED
    BY <2>2 DEF g
<1>10. st = Holding(Range(c.owned)) /\ S = Range(c.owned) /\ m = Len(c.blocks)
  BY DEF st, S, m
<1> HIDE DEF W, d, r
<1>11. Leaps(c, E, E2, 2, h, t)
  BY <1>3, <1>5, <1>6, <1>10 DEF Leaps
<1>12. Suits(c, E2, 2, h, f)
  <2>1. Waiting(f) = {h + 1}
    BY <1>3 DEF Waiting
  <2>2. Later(c, 2) \ {h} = {h + 1}
    BY <1>3
  <2> QED
    BY <1>3, <1>5, <1>10, <2>1, <2>2 DEF Suits
<1>13. Here(c, E, Range(c.owned), Waits(frames))
  BY <1>1, <1>10 DEF W
<1>14. f = [kind |-> f.kind, exit |-> f.exit, next |-> f.next, env |-> e]
  OBVIOUS
<1>15. Opened(At(AllocBbs(Term(c, c.cur, t), 2), h), g, f)
  BY <1>9 DEF d
<1>16. Lowered(g, Append(frames, f), e)
  BY <1>1, <1>11, <1>12, <1>13, <1>14, <1>15, FreshEnters
<1> QED
  BY <1>0, <1>16

\* q is c at the end of the header of a loop: b is its body, x its exit.
Tests(c, q, E2, h, b, x, W) ==
  /\ Here(q, E2, Range(q.owned), W \cup {b, x}) /\ Grows(c, q) /\ q.names = c.names /\ q.cur = h
  /\ h = Len(c.blocks) + 1 /\ b = Len(c.blocks) + 2 /\ x = Len(c.blocks) + 3 /\ Len(q.blocks) = Len(c.blocks) + 3
  /\ E2[b] = Holding(Range(q.owned)) /\ E2[x] = Holding(Range(q.owned))
  /\ Weaker(Holding(Range(q.owned)), E2[h])

\* A while loop is opened in its body, after the test of its condition.
LEMMA WhileEnters ==
  ASSUME NEW c, NEW frames, NEW e, Books(c, frames, e), frames # <<>>, c \in Context,
         NEW E, FramesFlow(c, E, frames), Here(c, E, Range(c.owned), Waits(frames)), NEW E2, Extends(E2, E, c),
         NEW q, NEW h, NEW b, NEW x, Tests(c, q, E2, h, b, x, Waits(frames)),
         NEW f, f = [kind |-> "loop", exit |-> h, next |-> x, env |-> e],
         NEW body, body = At(Term(q, h, Branch(b, x)), b),
         NEW r, r = [break |-> x, continue |-> h, drop |-> Len(body.owned)]
  PROVE  Lowered(PushScope([body EXCEPT !.loops = Append(@, r)]), Append(frames, f), e)
<1> DEFINE S == Range(q.owned)
           W == Waits(frames)
           st == Holding(S)
           m == Len(c.blocks)
           t == Branch(b, x)
           g == PushScope([body EXCEPT !.loops = Append(@, r)])
<1>1. /\ Here(q, E2, S, W \cup {b, x}) /\ Grows(c, q) /\ q.names = c.names /\ q.cur = h
      /\ h = m + 1 /\ b = m + 2 /\ x = m + 3 /\ Len(q.blocks) = m + 3 /\ E2[b] = st /\ E2[x] = st
      /\ Weaker(st, E2[h])
  BY DEF Tests
<1>2. m \in Nat /\ st \in Knowledge /\ W \subseteq 1 .. m /\ Len(q.kinds) \in Nat /\ S \subseteq 1 .. Len(q.kinds)
  BY <1>1, HereIs, HoldingIs
<1> HIDE DEF S, st, m, W
<1>3. /\ h = m + 1 /\ b = m + 2 /\ x = m + 3 /\ m \in Nat /\ W \subseteq 1 .. m
  BY <1>1, <1>2
<1>4. /\ m + 3 \in Nat /\ b \in 1 .. m + 3 /\ x \in 1 .. m + 3 /\ h \in Nat /\ x \in Nat /\ b # x
      /\ h # 0 /\ b \in Nat
  BY <1>3
<1>5. (W \cup {b, x}) \ {b} = W \cup {x} /\ b \in W \cup {b, x}
  BY <1>3
<1>6. t \in Terminator(1 .. Len(q.kinds), 1 .. m + 3) /\ t # Placeholder /\ Kept(t) = {} /\ Leads(E2, t, st)
  <2>1. \A E3, st3 : Weaker(st3, E3[b]) /\ Weaker(st3, E3[x]) => Leads(E3, t, st3)
    BY <1>2, <1>4, BranchIs
  <2>2. Weaker(st, E2[b]) /\ Weaker(st, E2[x])
    BY <1>1, <1>2, WeakerIs
  <2>3. t \in Terminator(1 .. Len(q.kinds), 1 .. m + 3) /\ t # Placeholder /\ Kept(t) = {}
    BY <1>2, <1>4, BranchIs
  <2> QED
    BY <2>1, <2>2, <2>3
<1>7. body = At(Term(q, q.cur, t), b)
  BY <1>1
<1> HIDE DEF t, g
<1>8. Arrives(q, body, E2, S, b, m + 3, W \cup {x})
  <2>1. t \in Terminator(1 .. Len(q.kinds), 1 .. Len(q.blocks)) /\ Kept(t) \subseteq S /\ Leads(E2, t, Holding(S))
        /\ E2[b] = Holding(S)
    BY <1>1, <1>6 DEF st
  <2>2. Arrives(q, At(Term(q, q.cur, t), b), E2, S, b, Len(q.blocks), (W \cup {b, x}) \ {b})
    BY <1>1, <1>2, <1>5, <1>6, <2>1, HereGo
  <2> QED
    BY <1>1, <1>5, <1>7, <2>2
<1>9. /\ Here(body, E2, S, W \cup {x}) /\ Keeps(q, body) /\ body.kinds = q.kinds /\ Len(body.blocks) = m + 3
      /\ body \in Context /\ body.owned = q.owned
  BY <1>8 DEF Arrives, Keeps
<1>10. Grows(c, body) /\ body.names = c.names
  <2>1. Len(c.blocks) <= Len(body.blocks)
    BY <1>3, <1>9 DEF m
  <2> QED
    BY <1>1, <1>9, <2>1 DEF Grows, Keeps
<1>11. h \in Later(c, 3) /\ x \in Later(c, 3)
  <2>1. Later(c, 3) = m + 1 .. m + 3
    BY DEF Later, m
  <2> QED
    BY <1>3, <2>1
<1>12. f \in FrameSet
  BY <1>4, FrameIs
<1>13. Opened(body, g, f)
  <2>1. r = [break |-> f.next, continue |-> f.exit, drop |-> Len(body.owned)] /\ f.kind = "loop"
    OBVIOUS
  <2>2. Opened(body, PushScope([body EXCEPT !.loops = Append(@, r)]), f)
    BY <1>9, <1>12, <2>1, LoopOpened
  <2> QED
    BY <2>2 DEF g
<1>14. Opens(body, E2, f, e, frames)
  <2>1. Holding(Range(body.owned)) = st /\ Len(body.blocks) = Len(c.blocks) + 3
    BY <1>9 DEF st, S, m
  <2>2. E2[x] = Holding(Range(body.owned)) /\ Weaker(Holding(Range(body.owned)), E2[h])
    BY <1>1, <2>1
  <2>3. W = Waits(frames) /\ Here(c, E, Range(c.owned), W)
    BY DEF W
  <2> DEFINE kind == "loop"
  <2>4. /\ kind \in {"block", "then", "loop"} /\ kind = "loop" /\ kind # "then" /\ kind # "block" /\ 3 \in Nat
        /\ f = [kind |-> kind, exit |-> h, next |-> x, env |-> e]
    OBVIOUS
  <2> HIDE DEF kind
  <2> QED
    BY <1>11, <2>1, <2>2, <2>3, <2>4, FreshOpens
<1>15. Here(body, E2, Range(body.owned), Waits(frames) \cup Waiting(f)) /\ f.env = e
  <2>1. Waiting(f) = {x}
    BY <1>4 DEF Waiting
  <2> QED
    BY <1>9, <2>1 DEF S, W
<1>16. Lowered(g, Append(frames, f), e)
  BY <1>10, <1>13, <1>14, <1>15, EnterLowered
<1> QED
  BY <1>16 DEF g

\* while ... { ... }
LEMMA OpenWhileLowered ==
  ASSUME NEW c, NEW frames, NEW e, Lowered(c, frames, e), frames # <<>>,
         NEW h, h = Len(c.blocks) + 1, NEW b, b = Len(c.blocks) + 2, NEW x, x = Len(c.blocks) + 3,
         NEW start, start = At(AllocBbs(Term(c, c.cur, Goto(h)), 3), h),
         NEW f, f = [kind |-> "loop", exit |-> h, next |-> x, env |-> e],
         NEW body, body = At(Term(start, h, Branch(b, x)), b),
         NEW r, r = [break |-> x, continue |-> h, drop |-> Len(body.owned)]
  PROVE  Lowered(PushScope([body EXCEPT !.loops = Append(@, r)]), Append(frames, f), e)
<1> DEFINE S == Range(c.owned)
           W == Waits(frames)
           st == Holding(S)
           m == Len(c.blocks)
           t == Goto(h)
<1>1. PICK E : /\ Here(c, E, S, W) /\ FramesFlow(c, E, frames) /\ Extends(E, E, c)
               /\ Books(c, frames, e) /\ c \in Context
  BY LoweredIs
<1>2. m \in Nat /\ Len(c.kinds) \in Nat /\ E \in [Nat -> Knowledge] /\ st \in Knowledge /\ W \subseteq 1 .. m
      /\ S \subseteq 1 .. Len(c.kinds)
  BY <1>1, HereIs, HoldingIs
<1> HIDE DEF m, S, st, W
<1>3. /\ m \in Nat /\ h = m + 1 /\ b = m + 2 /\ x = m + 3
  BY <1>2 DEF m
<1>4. /\ Later(c, 3) = {h, b, x} /\ h \in 1 .. m + 3 /\ m + 3 \in Nat
  BY <1>3 DEF m, Later
<1>5. PICK E2 : Four(c, E, E2, m, st, st, st, st)
  BY <1>1, <1>2, ExtendsFour DEF m
<1>6. Extends(E2, E, c) /\ E2[h] = st /\ E2[b] = st /\ E2[x] = st
  BY <1>3, <1>5 DEF Four
<1>7. t \in Terminator(1 .. Len(c.kinds), 1 .. m + 3) /\ t # Placeholder /\ Kept(t) = {} /\ Leads(E2, t, st)
  <2>1. \A E3, st3 : Weaker(st3, E3[h]) => Leads(E3, t, st3)
    BY <1>2, <1>4, GotoIs
  <2>2. Weaker(st, E2[h])
    BY <1>2, <1>6, WeakerIs
  <2>3. t \in Terminator(1 .. Len(c.kinds), 1 .. m + 3) /\ t # Placeholder /\ Kept(t) = {}
    BY <1>2, <1>4, GotoIs
  <2> QED
    BY <2>1, <2>2, <2>3
<1>8. start = At(AllocBbs(Term(c, c.cur, t), 3), h)
  OBVIOUS
<1> HIDE DEF t
<1>9. Arrives(c, start, E2, S, h, m + 3, W \cup {b, x})
  <2>1. h \in Later(c, 3) /\ Kept(t) \subseteq S /\ S \subseteq 1 .. Len(c.kinds) /\ 3 \in Nat
    BY <1>2, <1>4, <1>7
  <2>2. (W \cup Later(c, 3)) \ {h} = W \cup {b, x}
    <3>1. h \notin W /\ h # b /\ h # x
      BY <1>2, <1>3
    <3> QED
      BY <1>4, <3>1
  <2>3. Leads(E2, t, Holding(S)) /\ E2[h] = Holding(S) /\ t \in Terminator(1 .. Len(c.kinds), 1 .. Len(c.blocks) + 3)
    BY <1>6, <1>7 DEF st, m
  <2>4. Arrives(c, At(AllocBbs(Term(c, c.cur, t), 3), h), E2, S, h, Len(c.blocks) + 3, (W \cup Later(c, 3)) \ {h})
    BY <1>1, <1>6, <1>7, <2>1, <2>3, HereFresh
  <2> QED
    BY <1>8, <2>2, <2>4 DEF m
<1>10. /\ Here(start, E2, S, W \cup {b, x}) /\ Keeps(c, start) /\ start.kinds = c.kinds /\ start.cur = h
       /\ Len(start.blocks) = m + 3 /\ start.owned = c.owned
  BY <1>9 DEF Arrives, Keeps
<1>11. Grows(c, start) /\ start.names = c.names
  <2>1. Len(c.blocks) <= Len(start.blocks) /\ Len(c.kinds) <= Len(start.kinds)
    BY <1>2, <1>3, <1>10 DEF m
  <2> QED
    BY <1>10, <2>1 DEF Grows, Keeps
<1>12. Tests(c, start, E2, h, b, x, W)
  <2>1. Range(start.owned) = S /\ Holding(Range(start.owned)) = st /\ Weaker(st, E2[h])
    BY <1>2, <1>6, <1>10, WeakerIs DEF S, st
  <2> QED
    BY <1>3, <1>6, <1>10, <1>11, <2>1 DEF Tests, m
<1>13. Here(c, E, Range(c.owned), Waits(frames)) /\ W = Waits(frames)
  BY <1>1 DEF S, W
<1> QED
  BY <1>1, <1>6, <1>12, <1>13, WhileEnters, SMTT(20)

\* A scope that owns one local more.
LEMMA OwnedMore ==
  ASSUME NEW c \in Context, NEW d, NEW l \in Nat, d.owned = Append(c.owned, l)
  PROVE  Range(d.owned) = Range(c.owned) \cup {l}
<1>1. c.owned \in Seq(Nat)
  BY ContextIs
<1> QED
  BY <1>1, RangeAppend

\* The literal the condition of a loop reads is allocated again each turn.
LEMMA OpenWhileCallLowered ==
  ASSUME NEW c, NEW frames, NEW e, Lowered(c, frames, e), frames # <<>>,
         NEW h, h = Len(c.blocks) + 1, NEW b, b = Len(c.blocks) + 2, NEW x, x = Len(c.blocks) + 3,
         NEW start, start = At(AllocBbs(Term(c, c.cur, Goto(h)), 3), h),
         NEW tested, tested = ReadLiteral(start, NextLocal(start)),
         NEW f, f = [kind |-> "loop", exit |-> h, next |-> x, env |-> e],
         NEW body, body = At(Term(tested, h, Branch(b, x)), b),
         NEW r, r = [break |-> x, continue |-> h, drop |-> Len(body.owned)]
  PROVE  Lowered(PushScope([body EXCEPT !.loops = Append(@, r)]), Append(frames, f), e)
<1> DEFINE S == Range(c.owned)
           W == Waits(frames)
           n == Len(c.kinds)
           l == n + 1
           T == S \cup {l}
           m == Len(c.blocks)
           t == Goto(h)
           loose == Put(Holding(S), l, "loose")
<1>1. PICK E : /\ Here(c, E, S, W) /\ FramesFlow(c, E, frames) /\ Extends(E, E, c)
               /\ Books(c, frames, e) /\ c \in Context
  BY LoweredIs
<1>2. m \in Nat /\ n \in Nat /\ E \in [Nat -> Knowledge] /\ W \subseteq 1 .. m /\ S \subseteq 1 .. n
  BY <1>1, HereIs
<1>z. h = m + 1 /\ b = m + 2 /\ x = m + 3
  OBVIOUS
<1> HIDE DEF m, n, S, W
<1>3. /\ m \in Nat /\ h = m + 1 /\ b = m + 2 /\ x = m + 3
  BY <1>2, <1>z
<1>4. /\ Later(c, 3) = {h, b, x} /\ h \in 1 .. m + 3 /\ m + 3 \in Nat
  BY <1>3 DEF m, Later
<1>5. n \in Nat /\ l \in Nat /\ l = n + 1 /\ l \notin S /\ l \in n + 1 .. n + 1 /\ l \in 1 .. l
  BY <1>2
<1> HIDE DEF l
<1>6. /\ Holding(S) \in Knowledge /\ Holding(T) \in Knowledge /\ Settled(Holding(S)) /\ Holding(S)[l] = "stale"
      /\ \A k \in Nat : Holding(S)[k] = IF k \in S THEN "held" ELSE "stale"
  BY <1>5, HoldingIs
<1>7. \A k \in Nat : Holding(T)[k] = IF k \in T THEN "held" ELSE "stale"
  BY HoldingIs
<1>8. /\ loose \in Knowledge /\ loose[l] = "loose" /\ \A k \in Nat : k # l => loose[k] = Holding(S)[k]
  BY <1>5, <1>6, PutIs DEF Statuses
<1> HIDE DEF loose
<1>9. Weaker(Holding(S), loose) /\ Settled(loose)
  BY <1>5, <1>6, <1>8 DEF Weaker, Settled
<1>10. Weaker(Holding(T), loose)
  BY <1>6, <1>7, <1>8 DEF Weaker
<1>11. Weaker(Put(loose, l, "held"), Holding(T))
  <2>1. Put(loose, l, "held")[l] = "held" /\ \A k \in Nat : k # l => Put(loose, l, "held")[k] = loose[k]
    BY <1>5, <1>8, PutIs DEF Statuses
  <2> QED
    BY <1>5, <1>6, <1>7, <1>8, <2>1 DEF Weaker
<1> HIDE DEF T
<1>12. PICK E2 : Four(c, E, E2, m, loose, Holding(T), Holding(T), Holding(T))
  BY <1>1, <1>2, <1>6, <1>8, ExtendsFour DEF m
<1>13. Extends(E2, E, c) /\ E2[h] = loose /\ E2[b] = Holding(T) /\ E2[x] = Holding(T)
  BY <1>3, <1>12 DEF Four
<1>14. t \in Terminator(1 .. n, 1 .. m + 3) /\ t # Placeholder /\ Kept(t) = {} /\ Leads(E2, t, Holding(S))
  <2>1. \A E3, st3 : Weaker(st3, E3[h]) => Leads(E3, t, st3)
    BY <1>2, <1>4, GotoIs
  <2>2. Weaker(Holding(S), E2[h])
    BY <1>9, <1>13
  <2>3. t \in Terminator(1 .. n, 1 .. m + 3) /\ t # Placeholder /\ Kept(t) = {}
    BY <1>2, <1>4, GotoIs
  <2> QED
    BY <2>1, <2>2, <2>3
<1>15. start = At(AllocBbs(Term(c, c.cur, t), 3), h)
  OBVIOUS
<1> HIDE DEF t
<1>16. Moves(c, start, E2, h, m + 3, W \cup {b, x}, S)
  <2>1. (W \cup Later(c, 3)) \ {h} = W \cup {b, x} /\ h \in Later(c, 3)
    <3>1. h \notin W /\ h # b /\ h # x
      BY <1>2, <1>3
    <3> QED
      BY <1>4, <3>1
  <2>2. Graph(c, E, Holding(S), W, S) /\ Kept(t) \subseteq S
    BY <1>1, <1>14 DEF Here
  <2>3. Walk(c.kinds, Kept(t), c.blocks[c.cur].stmts, E[c.cur], Holding(S))
    BY <2>2, AtTheEnd
  <2>4. t \in Terminator(1 .. Len(c.kinds), 1 .. Len(c.blocks) + 3) /\ 3 \in Nat
    BY <1>14 DEF n, m
  <2>5. Moves(c, At(AllocBbs(Term(c, c.cur, t), 3), h), E2, h, Len(c.blocks) + 3, (W \cup Later(c, 3)) \ {h}, S)
    BY <1>6, <1>13, <1>14, <2>1, <2>2, <2>3, <2>4, GoFresh
  <2> QED
    BY <1>15, <2>1, <2>5 DEF m
<1>17. /\ Graph(start, E2, loose, W \cup {b, x}, S) /\ Keeps(c, start) /\ start.kinds = c.kinds /\ start.cur = h
       /\ Len(start.blocks) = m + 3
  BY <1>13, <1>16 DEF Moves
<1> DEFINE a == AllocLocal(start, "string")
           stmts == <<Literal(l), Read(l)>>
           p == PushAll(a, stmts)
           q == PushOwned(p, l)
<1>18. tested = q
  <2>1. NextLocal(start) = l
    BY <1>5, <1>17 DEF NextLocal, n
  <2> QED
    BY <2>1 DEF ReadLiteral
<1>19. /\ Graph(a, E2, loose, W \cup {b, x}, T) /\ Keeps(start, a) /\ a.cur = h /\ Len(a.blocks) = m + 3
       /\ Len(a.kinds) = l
  <2>1. T \cap 1 .. Len(start.kinds) \subseteq S
    BY <1>5, <1>17 DEF T, n
  <2> HIDE DEF T
  <2>2. /\ Graph(a, E2, loose, W \cup {b, x}, T) /\ Keeps(start, a)
        /\ a.kinds = Append(start.kinds, "string") /\ a.cur = start.cur
        /\ Len(a.blocks) = Len(start.blocks)
        /\ Len(a.kinds) = Len(start.kinds) + 1
    BY <1>17, <2>1, GraphLocal
  <2> HIDE DEF a
  <2> QED
    BY <1>5, <1>17, <2>2 DEF n
<1> HIDE DEF a
<1>20. Walks(a.kinds, T, stmts, loose, Holding(T)) /\ stmts \in Seq(Statement(1 .. Len(a.kinds)))
  <2>1. ASSUME NEW kept
        PROVE  Walk(a.kinds, kept, stmts, loose, Holding(T)) /\ stmts \in Seq(Statement(1 .. l))
    <3>1. Step(a.kinds, kept, loose, Literal(l), Holding(T))
      BY <1>5, <1>8, <1>9, <1>11, <1>19, LiteralStep
    <3>2. Step(a.kinds, kept, Holding(T), Read(l), Holding(T))
      BY <1>5, <1>6, <1>19, ReadStep
    <3> QED
      BY <1>5, <1>6, <1>8, <1>19, <3>1, <3>2, WalkTwo
  <2> HIDE DEF stmts
  <2> QED
    BY <1>19, <2>1 DEF Walks
<1> HIDE DEF stmts
<1>21. Pushes(a, p, E2, Holding(T), W \cup {b, x}, T)
  BY <1>6, <1>19, <1>20, GraphPush
<1> HIDE DEF p
<1>22. /\ Graph(p, E2, Holding(T), W \cup {b, x}, T) /\ Keeps(c, p) /\ p.cur = h /\ Len(p.blocks) = m + 3
       /\ Len(p.kinds) = l /\ p \in Context
  <2>1. Keeps(c, a)
    BY <1>17, <1>19, KeepsOn
  <2> QED
    BY <1>19, <1>21, <2>1, KeepsOn DEF Pushes, Keeps
<1>23. Owns(p, q, l)
  BY <1>5, <1>22, PushOwnedIs
<1> HIDE DEF q
<1>24. /\ q \in Context /\ q.blocks = p.blocks /\ q.cur = h /\ q.kinds = p.kinds
       /\ q.scopes = c.scopes /\ q.loops = c.loops /\ q.names = c.names
       /\ q.owned = Append(c.owned, l)
  <2>1. p.owned = c.owned /\ l \notin Range(c.owned)
    BY <1>5, <1>22 DEF Keeps, S
  <2> QED
    BY <1>22, <1>23, <2>1 DEF Owns, Keeps
<1>25. Range(q.owned) = T
  <2>1. Range(q.owned) = Range(c.owned) \cup {l}
    BY <1>1, <1>5, <1>24, OwnedMore
  <2> QED
    BY <2>1 DEF T, S
<1>26. Here(q, E2, T, W \cup {b, x})
  <2>1. Graph(q, E2, Holding(T), W \cup {b, x}, T)
    BY <1>22, <1>24, GraphSame
  <2>2. T \subseteq 1 .. Len(q.kinds)
    <3>1. Len(q.kinds) = l
      BY <1>22, <1>24
    <3> QED
      BY <1>2, <1>5, <3>1 DEF T
  <2> QED
    BY <2>1, <2>2 DEF Here
<1>27. Grows(c, q)
  <2>1. Len(c.blocks) <= Len(q.blocks)
    BY <1>3, <1>22, <1>24 DEF m
  <2>2. l \in Len(c.kinds) + 1 .. Len(q.kinds) /\ Len(c.kinds) <= Len(q.kinds)
    BY <1>5, <1>22, <1>24 DEF n
  <2> QED
    BY <1>24, <2>1, <2>2 DEF Grows
<1>28. Tests(c, q, E2, h, b, x, W)
  <2>1. Len(q.blocks) = m + 3
    BY <1>22, <1>24
  <2> QED
    BY <1>3, <1>10, <1>13, <1>24, <1>25, <1>26, <1>27, <2>1 DEF Tests, m
<1>29. Here(c, E, Range(c.owned), Waits(frames)) /\ W = Waits(frames)
  BY <1>1 DEF S, W
<1>30. Tests(c, tested, E2, h, b, x, Waits(frames))
  BY <1>18, <1>28, <1>29, Zenon
<1> QED
  BY <1>1, <1>13, <1>30, <1>29, WhileEnters, SMTT(20)

-----------------------------------------------------------------------------
(* Constructs end *)

\* t is s without its last element, l.
Fronts(S, s, t, l) ==
  /\ t \in Seq(S) /\ l \in S /\ Len(s) \in Nat /\ Len(s) >= 1 /\ Len(t) = Len(s) - 1 /\ l = s[Len(s)]
  /\ \A i \in 1 .. Len(s) - 1 : t[i] = s[i]

\* A sequence without its last element.
LEMMA FrontIs ==
  ASSUME NEW S, NEW s \in Seq(S), s # <<>>
  PROVE  Fronts(S, s, Front(s), Last(s))
<1> DEFINE t == Front(s)
           n == Len(s)
<1>1. n \in Nat /\ n # 0
  BY EmptySeq, LenProperties
<1>2. t = SubSeq(s, 1, n - 1)
  BY DEF Front
<1>3. t = [i \in 1 .. n - 1 |-> s[i]]
  BY <1>1, <1>2
<1>4. \A i \in 1 .. n - 1 : s[i] \in S
  BY <1>1
<1>5. n - 1 \in Nat
  BY <1>1
<1>6. t \in Seq(S)
  BY <1>3, <1>4, <1>5, IsASeq
<1>7. Len(t) = n - 1
  BY <1>3, <1>5
<1>8. Last(s) = s[n] /\ s[n] \in S
  BY <1>1 DEF Last
<1> QED
  BY <1>1, <1>3, <1>6, <1>7, <1>8 DEF Fronts

\* t is the first k elements of s.
Firsts(S, s, t, k) == t \in Seq(S) /\ Len(t) = k /\ \A i \in 1 .. k : t[i] = s[i]

\* The beginning of a sequence.
LEMMA FirstsIs ==
  ASSUME NEW S, NEW s \in Seq(S), NEW k \in 0 .. Len(s)
  PROVE  Firsts(S, s, SubSeq(s, 1, k), k)
<1> DEFINE t == SubSeq(s, 1, k)
<1>1. Len(s) \in Nat /\ k \in Nat
  BY LenProperties
<1>2. t = [i \in 1 .. k |-> s[i]]
  BY <1>1
<1>3. \A i \in 1 .. k : s[i] \in S
  BY <1>1
<1>4. t \in Seq(S)
  BY <1>1, <1>2, <1>3, IsASeq
<1> QED
  BY <1>1, <1>2, <1>4 DEF Firsts

\* The context around the innermost construct f, at the end of its body: what
\* the body owns is forgotten.
Shut(c, f) ==
  [c EXCEPT !.scopes = Front(@), !.owned = SubSeq(@, 1, Last(c.scopes)),
            !.loops = IF f.kind = "loop" THEN Front(@) ELSE @]

\* What shutting changes, and what it keeps; n is the number of the construct.
Shuts(c, p, f, n) ==
  /\ p \in Context /\ p.blocks = c.blocks /\ p.cur = c.cur /\ p.kinds = c.kinds /\ p.names = c.names
  /\ Len(p.scopes) = n /\ \A i \in 1 .. n : p.scopes[i] = c.scopes[i]
  /\ Len(p.owned) = c.scopes[n + 1] /\ \A i \in 1 .. Len(p.owned) : p.owned[i] = c.owned[i]
  /\ \A i \in 1 .. Len(p.loops) : p.loops[i] = c.loops[i]
  /\ Len(c.loops) = IF f.kind = "loop" THEN Len(p.loops) + 1 ELSE Len(p.loops)

\* What is left of the scopes, the loops and the names when a construct ends.
LEMMA ShutIs ==
  ASSUME NEW c \in Context, NEW n \in Nat, n # 0, Scoped(c, n), NEW f, f.kind = "loop" => c.loops # <<>>
  PROVE  Shuts(c, Shut(c, f), f, n)
<1> DEFINE s == Front(c.scopes)
           o == SubSeq(c.owned, 1, Last(c.scopes))
           ls == IF f.kind = "loop" THEN Front(c.loops) ELSE c.loops
           p == Shut(c, f)
           R == [break : Nat, continue : Nat, drop : Nat]
<1>1. /\ c.scopes \in Seq(Nat) /\ c.owned \in Seq(Nat) /\ c.loops \in Seq(R) /\ Len(c.owned) \in Nat
  BY ContextIs
<1>2. Len(c.scopes) = n + 1 /\ c.scopes[n + 1] <= Len(c.owned)
  BY DEF Scoped
<1>3. c.scopes # <<>>
  BY <1>1, <1>2, EmptySeq
<1>4. /\ s \in Seq(Nat) /\ Len(s) = n /\ Last(c.scopes) = c.scopes[n + 1] /\ Last(c.scopes) \in Nat
      /\ \A i \in 1 .. n : s[i] = c.scopes[i]
  <2> DEFINE N == n + 1
  <2>1. N = Len(c.scopes)
    BY <1>2
  <2> HIDE DEF N, s
  <2>2. /\ s \in Seq(Nat) /\ Len(s) = N - 1 /\ Last(c.scopes) = c.scopes[N] /\ Last(c.scopes) \in Nat
        /\ \A i \in 1 .. N - 1 : s[i] = c.scopes[i]
    <3>1. Fronts(Nat, c.scopes, Front(c.scopes), Last(c.scopes))
      BY <1>1, <1>3, FrontIs
    <3> QED
      BY <2>1, <3>1 DEF Fronts, s
  <2>3. N - 1 = n /\ N = n + 1
    BY DEF N
  <2> QED
    BY <2>2, <2>3
<1>5. o \in Seq(Nat) /\ Len(o) = c.scopes[n + 1] /\ \A i \in 1 .. Len(o) : o[i] = c.owned[i]
  <2> DEFINE k == Last(c.scopes)
  <2>1. k \in 0 .. Len(c.owned) /\ k = c.scopes[n + 1]
    BY <1>1, <1>2, <1>4
  <2> HIDE DEF k, o
  <2>2. o \in Seq(Nat) /\ Len(o) = k /\ \A i \in 1 .. k : o[i] = c.owned[i]
    <3>1. Firsts(Nat, c.owned, SubSeq(c.owned, 1, k), k)
      BY <1>1, <2>1, FirstsIs
    <3> QED
      BY <3>1 DEF Firsts, o, k
  <2> QED
    BY <2>1, <2>2
<1>6. /\ ls \in Seq(R) /\ \A i \in 1 .. Len(ls) : ls[i] = c.loops[i]
      /\ Len(c.loops) = IF f.kind = "loop" THEN Len(ls) + 1 ELSE Len(ls)
  <2> HIDE DEF R
  <2>1. CASE f.kind = "loop"
    <3> DEFINE N == Len(c.loops)
               u == Front(c.loops)
    <3>1. u \in Seq(R) /\ N \in Nat /\ Len(u) = N - 1 /\ \A i \in 1 .. N - 1 : u[i] = c.loops[i]
      <4>1. Fronts(R, c.loops, Front(c.loops), Last(c.loops))
        BY <1>1, <2>1, FrontIs
      <4> QED
        BY <4>1 DEF Fronts
    <3> HIDE DEF u
    <3>2. ls = u
      BY <2>1 DEF u
    <3> HIDE DEF ls, N
    <3>3. N - 1 + 1 = N
      BY <3>1
    <3> QED
      BY <2>1, <3>1, <3>2, <3>3 DEF N
  <2>2. CASE f.kind # "loop"
    BY <1>1, <2>2
  <2> QED
    BY <2>1, <2>2
<1>7. p = [[[c EXCEPT !.scopes = s] EXCEPT !.owned = o] EXCEPT !.loops = ls]
  BY DEF Shut
<1> HIDE DEF s, o, ls, p
<1>8. /\ p \in Context /\ p.blocks = c.blocks /\ p.cur = c.cur /\ p.kinds = c.kinds /\ p.names = c.names
      /\ p.scopes = s /\ p.owned = o /\ p.loops = ls
  BY <1>4, <1>5, <1>6, <1>7 DEF Context
<1>9. Shuts(c, p, f, n)
  BY <1>4, <1>5, <1>6, <1>8 DEF Shuts
<1> QED
  BY <1>9 DEF p

\* What the scopes left own is what was owned around the construct.
LEMMA ShutAround ==
  ASSUME NEW c \in Context, NEW n \in Nat, n # 0, Scoped(c, n), NEW f, NEW p, Shuts(c, p, f, n)
  PROVE  /\ \A k \in 1 .. n - 1 : Around(p, k) = Around(c, k)
         /\ Range(p.owned) = Around(c, n)
<1>1. /\ \A i \in 1 .. n : p.scopes[i] = c.scopes[i]
      /\ Len(p.owned) = c.scopes[n + 1] /\ \A i \in 1 .. Len(p.owned) : p.owned[i] = c.owned[i]
  BY DEF Shuts
<1>2. /\ \A i, j \in 1 .. n + 1 : i <= j => c.scopes[i] <= c.scopes[j]
      /\ \A i \in 1 .. n + 1 : c.scopes[i] \in Nat
  BY ContextIs DEF Scoped
<1>3. ASSUME NEW k \in 1 .. n - 1 PROVE Around(p, k) = Around(c, k)
  <2>1. k + 1 \in 1 .. n /\ k + 1 \in 1 .. n + 1 /\ n + 1 \in 1 .. n + 1 /\ k + 1 <= n + 1
    OBVIOUS
  <2>2. p.scopes[k + 1] = c.scopes[k + 1] /\ c.scopes[k + 1] \in Nat /\ c.scopes[k + 1] <= Len(p.owned)
    BY <1>1, <1>2, <2>1
  <2>3. Len(p.owned) \in Nat
    BY <1>1, <1>2, <2>1
  <2>4. \A i \in 1 .. c.scopes[k + 1] : p.owned[i] = c.owned[i]
    BY <1>1, <2>2, <2>3
  <2> QED
    BY <2>2, <2>4 DEF Around
<1>4. Range(p.owned) = Around(c, n)
  <2>1. p.owned \in Seq(Nat)
    BY ContextIs DEF Shuts
  <2>2. /\ \A i \in 1 .. Len(p.owned) : p.owned[i] \in Range(p.owned)
        /\ \A l \in Range(p.owned) : \E i \in 1 .. Len(p.owned) : p.owned[i] = l
    BY <2>1, RangeIs
  <2>3. Around(c, n) = {c.owned[i] : i \in 1 .. Len(p.owned)}
    BY <1>1 DEF Around
  <2> QED
    BY <1>1, <2>2, <2>3, SMTT(20)
<1> QED
  BY <1>3, <1>4

\* The scopes left are those of the constructs around.
LEMMA ShutScoped ==
  ASSUME NEW c \in Context, NEW n \in Nat, n # 0, Scoped(c, n), NEW f, NEW p, Shuts(c, p, f, n)
  PROVE  Scoped(p, n - 1)
<1>1. /\ Len(p.scopes) = n /\ \A i \in 1 .. n : p.scopes[i] = c.scopes[i]
      /\ Len(p.owned) = c.scopes[n + 1] /\ \A i \in 1 .. Len(p.owned) : p.owned[i] = c.owned[i]
      /\ p.kinds = c.kinds /\ p \in Context
  BY DEF Shuts
<1>2. /\ c.scopes[1] = 0 /\ c.scopes[n + 1] <= Len(c.owned) /\ Len(c.owned) \in Nat
      /\ \A i, j \in 1 .. n + 1 : i <= j => c.scopes[i] <= c.scopes[j]
      /\ \A i, j \in 1 .. Len(c.owned) : i # j => c.owned[i] # c.owned[j]
      /\ Range(c.owned) \subseteq 1 .. Len(c.kinds)
      /\ \A i \in 1 .. n + 1 : c.scopes[i] \in Nat
  BY ContextIs DEF Scoped
<1>3. Len(p.owned) \in Nat /\ Len(p.owned) <= Len(c.owned)
  BY <1>1, <1>2
<1>4. \A i \in 1 .. Len(p.owned) : i \in 1 .. Len(c.owned)
  BY <1>2, <1>3
<1>5. \A i, j \in 1 .. Len(p.owned) : i # j => p.owned[i] # p.owned[j]
  BY <1>1, <1>2, <1>4
<1>6. Range(p.owned) \subseteq 1 .. Len(p.kinds)
  <2>1. \A l \in Range(p.owned) : \E i \in 1 .. Len(p.owned) : p.owned[i] = l
    <3>1. p.owned \in Seq(Nat)
      BY <1>1, ContextIs
    <3> QED
      BY <3>1, RangeIs
  <2>2. \A i \in 1 .. Len(c.owned) : c.owned[i] \in Range(c.owned)
    <3>1. c.owned \in Seq(Nat)
      BY ContextIs
    <3> QED
      BY <3>1, RangeIs
  <2>3. ASSUME NEW l \in Range(p.owned) PROVE l \in 1 .. Len(p.kinds)
    <3>1. PICK i \in 1 .. Len(p.owned) : p.owned[i] = l
      BY <2>1
    <3>2. l = c.owned[i] /\ i \in 1 .. Len(c.owned)
      BY <1>1, <1>4, <3>1
    <3>3. l \in Range(c.owned)
      BY <2>2, <3>2
    <3> QED
      BY <1>1, <1>2, <3>3
  <2> QED
    BY <2>3
<1>7. p.scopes[1] = 0 /\ p.scopes[n] <= Len(p.owned)
  <2>1. 1 \in 1 .. n /\ n \in 1 .. n /\ n \in 1 .. n + 1 /\ n + 1 \in 1 .. n + 1 /\ n <= n + 1
    OBVIOUS
  <2> QED
    BY <1>1, <1>2, <2>1
<1>8. \A i, j \in 1 .. n : i <= j => p.scopes[i] <= p.scopes[j]
  <2>1. \A i \in 1 .. n : i \in 1 .. n + 1
    OBVIOUS
  <2> QED
    BY <1>1, <1>2, <2>1
<1>9. (n - 1) + 1 = n
  OBVIOUS
<1> QED
  BY <1>1, <1>5, <1>6, <1>7, <1>8, <1>9 DEF Scoped

\* The constructs around keep their blocks.
LEMMA FramesFront ==
  ASSUME NEW frames, NEW m, Framed(frames, m), frames # <<>>
  PROVE  Framed(Front(frames), m)
<1> DEFINE t == Front(frames)
           n == Len(frames)
<1>1. frames \in Seq(FrameSet)
  BY DEF Framed
<1>2. /\ t \in Seq(FrameSet) /\ n \in Nat /\ Len(t) = n - 1 /\ \A i \in 1 .. n - 1 : t[i] = frames[i]
  BY <1>1, FrontIs DEF Fronts
<1>3. /\ \A k \in 1 .. n : FrameFits(frames[k], k, m)
      /\ \A j, k \in 1 .. n : j # k => Waiting(frames[j]) \cap Waiting(frames[k]) = {}
  BY DEF Framed
<1> HIDE DEF t, n
<1>4. \A i \in 1 .. n - 1 : i \in 1 .. n
  BY <1>2
<1>5. Framed(t, m)
  BY <1>2, <1>3, <1>4 DEF Framed
<1> QED
  BY <1>5 DEF t

\* The blocks that wait, without those of the construct that ends.
LEMMA WaitsFront ==
  ASSUME NEW frames, NEW m, Framed(frames, m), frames # <<>>, NEW f, f = frames[Len(frames)]
  PROVE  Waits(frames) = Waits(Front(frames)) \cup Waiting(f) /\ Waits(Front(frames)) \cap Waiting(f) = {}
<1> DEFINE t == Front(frames)
           n == Len(frames)
<1>1. frames \in Seq(FrameSet)
  BY DEF Framed
<1>2. /\ t \in Seq(FrameSet) /\ n \in Nat /\ n >= 1 /\ Len(t) = n - 1 /\ \A i \in 1 .. n - 1 : t[i] = frames[i]
  BY <1>1, FrontIs DEF Fronts
<1>3. /\ \A j, k \in 1 .. n : j # k => Waiting(frames[j]) \cap Waiting(frames[k]) = {}
  BY DEF Framed
<1>4. DOMAIN frames = 1 .. n /\ DOMAIN t = 1 .. n - 1 /\ f = frames[n]
  BY <1>1, <1>2
<1> HIDE DEF t, n
<1>5. n \in 1 .. n /\ \A i \in 1 .. n : (i \in 1 .. n - 1 \/ i = n)
  BY <1>2
<1>6. \A i \in 1 .. n - 1 : i \in 1 .. n /\ i # n
  BY <1>2
<1>7. Waits(frames) \subseteq Waits(t) \cup Waiting(f)
  BY <1>2, <1>4, <1>5 DEF Waits
<1>8. Waits(t) \cup Waiting(f) \subseteq Waits(frames)
  BY <1>2, <1>4, <1>5, <1>6 DEF Waits
<1>9. Waits(t) \cap Waiting(f) = {}
  BY <1>2, <1>3, <1>4, <1>5, <1>6 DEF Waits
<1> QED
  BY <1>7, <1>8, <1>9 DEF t

\* The loop stack follows the open constructs when one ends.
LEMMA ShutLooped ==
  ASSUME NEW c \in Context, NEW frames \in Seq(FrameSet), frames # <<>>, Looped(c, frames),
         NEW n, n = Len(frames), NEW f, f = frames[n], NEW p, Shuts(c, p, f, n)
  PROVE  Looped(p, Front(frames))
<1> DEFINE t == Front(frames)
           L == Len(c.loops)
           l == Len(p.loops)
<1>1. /\ t \in Seq(FrameSet) /\ n \in Nat /\ n >= 1 /\ Len(t) = n - 1 /\ \A i \in 1 .. n - 1 : t[i] = frames[i]
  BY FrontIs DEF Fronts
<1>2. L \in Nat /\ l \in Nat
  BY ContextIs DEF Shuts
<1>3. PICK w \in [1 .. L -> 1 .. n] :
        /\ \A i, j \in 1 .. L : i < j => w[i] < w[j]
        /\ \A k \in 1 .. n : frames[k].kind = "loop" => \E j \in 1 .. L : w[j] = k
        /\ \A j \in 1 .. L : frames[w[j]].kind = "loop" /\ c.loops[j] = LoopOf(c, frames[w[j]], w[j])
  BY DEF Looped
<1>4. /\ \A i \in 1 .. n : p.scopes[i] = c.scopes[i]
      /\ \A i \in 1 .. l : p.loops[i] = c.loops[i]
      /\ L = IF f.kind = "loop" THEN l + 1 ELSE l
  BY DEF Shuts
<1> HIDE DEF t, L, l
<1>5. \A j \in 1 .. L : w[j] \in 1 .. n
  BY <1>3
<1>6. ASSUME NEW j \in 1 .. l PROVE j \in 1 .. L /\ w[j] \in 1 .. n - 1
  <2>1. j \in 1 .. L /\ w[j] \in 1 .. n
    BY <1>2, <1>4, <1>5
  <2>2. w[j] # n
    <3>1. CASE f.kind = "loop"
      <4>1. n \in 1 .. n /\ frames[n].kind = "loop"
        BY <1>1, <3>1
      <4>2. PICK i \in 1 .. L : w[i] = n
        BY <1>3, <4>1
      <4>3. L = l + 1 /\ L \in 1 .. L /\ j < L
        BY <1>2, <1>4, <3>1
      <4>4. w[j] < w[L] /\ w[L] \in 1 .. n
        BY <1>3, <1>5, <2>1, <4>3
      <4> QED
        BY <1>1, <2>1, <4>4
    <3>2. CASE f.kind # "loop"
      BY <1>3, <2>1, <3>2
    <3> QED
      BY <3>1, <3>2
  <2> QED
    BY <1>1, <2>1, <2>2
<1> DEFINE v == [j \in 1 .. l |-> w[j]]
<1>7. v \in [1 .. l -> 1 .. n - 1] /\ \A j \in 1 .. l : v[j] = w[j]
  BY <1>6
<1> HIDE DEF v
<1>8. \A i, j \in 1 .. l : i < j => v[i] < v[j]
  BY <1>3, <1>6, <1>7
<1>9. ASSUME NEW k \in 1 .. n - 1, t[k].kind = "loop" PROVE \E j \in 1 .. l : v[j] = k
  <2>1. k \in 1 .. n /\ frames[k].kind = "loop" /\ k # n
    BY <1>1, <1>9
  <2>2. PICK j \in 1 .. L : w[j] = k
    BY <1>3, <2>1
  <2>3. j \in 1 .. l
    <3>1. CASE f.kind = "loop"
      <4>1. n \in 1 .. n /\ frames[n].kind = "loop"
        BY <1>1, <3>1
      <4>2. PICK i \in 1 .. L : w[i] = n
        BY <1>3, <4>1
      <4>3. L = l + 1
        BY <1>4, <3>1
      <4>4. j # L
        <5>1. SUFFICES ASSUME j = L PROVE FALSE
          OBVIOUS
        <5>2. i # j
          BY <2>1, <2>2, <4>2
        <5>3. i < j
          BY <1>2, <5>1, <5>2
        <5>4. w[i] < w[j]
          BY <1>3, <5>3
        <5> QED
          BY <1>1, <2>1, <2>2, <4>2, <5>4
      <4> QED
        BY <1>2, <4>3, <4>4
    <3>2. CASE f.kind # "loop"
      BY <1>4, <3>2
    <3> QED
      BY <3>1, <3>2
  <2> QED
    BY <1>7, <2>2, <2>3
<1>10. ASSUME NEW j \in 1 .. l PROVE t[v[j]].kind = "loop" /\ p.loops[j] = LoopOf(p, t[v[j]], v[j])
  <2>1. j \in 1 .. L /\ w[j] \in 1 .. n - 1 /\ v[j] = w[j] /\ t[v[j]] = frames[w[j]]
    BY <1>1, <1>6, <1>7
  <2>2. w[j] + 1 \in 1 .. n
    BY <1>1, <2>1
  <2>3. p.scopes[w[j] + 1] = c.scopes[w[j] + 1] /\ p.loops[j] = c.loops[j]
    BY <1>4, <2>2
  <2>4. frames[w[j]].kind = "loop" /\ c.loops[j] = LoopOf(c, frames[w[j]], w[j])
    BY <1>3, <2>1
  <2> QED
    BY <2>1, <2>3, <2>4 DEF LoopOf
<1>11. Places(p, t, l, n - 1, v)
  BY <1>1, <1>7, <1>8, <1>9, <1>10 DEF Places, l
<1>12. Looped(p, t)
  BY <1>11, LoopedBy
<1> QED
  BY <1>12 DEF t

\* A loop that is open is one the context knows of.
LEMMA LoopOpen ==
  ASSUME NEW c \in Context, NEW frames \in Seq(FrameSet), frames # <<>>, Looped(c, frames),
         NEW n, n = Len(frames), frames[n].kind = "loop"
  PROVE  c.loops # <<>>
<1>1. n \in 1 .. n
  BY EmptySeq, LenProperties
<1>2. \E j \in 1 .. Len(c.loops) : TRUE
  BY <1>1 DEF Looped
<1> QED
  BY <1>2, EmptySeq

\* The names left are those bound when the construct was opened.
LEMMA ShutNamed ==
  ASSUME NEW c \in Context, NEW frames \in Seq(FrameSet), frames # <<>>, NEW e, Named(c, frames, e),
         NEW n, n = Len(frames), Scoped(c, n), NEW f, f = frames[n], NEW p, Shuts(c, p, f, n)
  PROVE  Named(p, Front(frames), f.env)
<1> DEFINE t == Front(frames)
           g == f.env
           m == Len(c.kinds)
<1>1. /\ t \in Seq(FrameSet) /\ n \in Nat /\ n >= 1 /\ Len(t) = n - 1 /\ \A i \in 1 .. n - 1 : t[i] = frames[i]
  BY FrontIs DEF Fronts
<1>2. p.names = c.names /\ p.kinds = c.kinds
  BY DEF Shuts
<1>3. Range(p.owned) = Around(c, n)
  BY <1>1, ShutAround
<1>4. \A k \in 1 .. n - 1 : Around(p, k) = Around(c, k)
  BY <1>1, ShutAround
<1>5. /\ c.names \in [Names -> 0 .. m] /\ e \in [Names -> 0 .. m]
      /\ \A x \in Names : e[x] # 0 => c.names[x] = e[x]
      /\ \A x, y \in Names : e[x] # 0 /\ e[x] = e[y] => x = y
  BY DEF Named
<1>6. \A k \in 1 .. n : \A x \in Names : frames[k].env[x] # 0 =>
         /\ e[x] = frames[k].env[x] /\ e[x] \in Around(c, k)
         /\ \A j \in 1 .. n : j >= k => frames[j].env[x] = e[x]
  BY DEF Named
<1>7. m \in Nat /\ n \in 1 .. n /\ f \in FrameSet
  BY <1>1, ContextIs
<1>8. \A k \in 1 .. n - 1 : k \in 1 .. n /\ n >= k
  BY <1>1
<1>9. g \in [Names -> Nat]
  BY <1>7 DEF FrameSet
<1> HIDE DEF t, g, m
<1>10. \A x \in Names : g[x] # 0 => e[x] = g[x] /\ e[x] \in Around(c, n)
  BY <1>6, <1>7 DEF g
<1>11. g \in [Names -> 0 .. m]
  <2>1. \A x \in Names : g[x] \in 0 .. m
    <3>1. ASSUME NEW x \in Names PROVE g[x] \in 0 .. m
      <4>1. CASE g[x] = 0
        BY <1>7, <4>1
      <4>2. CASE g[x] # 0
        <5>1. e[x] \in 0 .. m /\ e[x] = g[x]
          BY <1>5, <1>10, <4>2
        <5> QED
          BY <5>1
      <4> QED
        BY <4>1, <4>2
    <3> QED
      BY <3>1
  <2> QED
    BY <1>9, <2>1
<1>12. \A x \in Names : g[x] # 0 => p.names[x] = g[x] /\ g[x] \in Range(p.owned)
  BY <1>2, <1>3, <1>5, <1>10
<1>13. \A x, y \in Names : g[x] # 0 /\ g[x] = g[y] => x = y
  BY <1>5, <1>10
<1>14. ASSUME NEW k \in 1 .. n - 1, NEW x \in Names, t[k].env[x] # 0
       PROVE  /\ g[x] = t[k].env[x] /\ g[x] \in Around(p, k)
              /\ \A j \in 1 .. n - 1 : j >= k => t[j].env[x] = g[x]
  <2>1. k \in 1 .. n /\ n >= k /\ t[k] = frames[k] /\ frames[k].env[x] # 0
    BY <1>1, <1>8, <1>14
  <2>2. /\ e[x] = frames[k].env[x] /\ e[x] \in Around(c, k)
        /\ \A j \in 1 .. n : j >= k => frames[j].env[x] = e[x]
    BY <1>6, <2>1
  <2>3. g[x] = e[x]
    BY <1>7, <2>1, <2>2 DEF g
  <2> QED
    BY <1>1, <1>4, <1>8, <2>1, <2>2, <2>3
<1>15. Named(p, t, g)
  BY <1>1, <1>2, <1>5, <1>11, <1>12, <1>13, <1>14 DEF Named, m
<1> QED
  BY <1>15 DEF t, g

\* What is known at the blocks of the constructs around stays known.
LEMMA ShutFlows ==
  ASSUME NEW c \in Context, NEW frames \in Seq(FrameSet), frames # <<>>, NEW E, FramesFlow(c, E, frames),
         NEW n, n = Len(frames), Scoped(c, n), NEW f, f = frames[n], NEW p, Shuts(c, p, f, n)
  PROVE  FramesFlow(p, E, Front(frames)) /\ FrameFlows(c, E, f, n)
<1> DEFINE t == Front(frames)
<1>1. /\ t \in Seq(FrameSet) /\ n \in Nat /\ n >= 1 /\ Len(t) = n - 1 /\ \A i \in 1 .. n - 1 : t[i] = frames[i]
  BY FrontIs DEF Fronts
<1>2. \A k \in 1 .. n - 1 : Around(p, k) = Around(c, k)
  BY <1>1, ShutAround
<1>3. n \in 1 .. n /\ \A k \in 1 .. n - 1 : k \in 1 .. n
  BY <1>1
<1>4. \A k \in 1 .. n : FrameFlows(c, E, frames[k], k)
  BY DEF FramesFlow
<1> HIDE DEF t
<1>5. \A k \in 1 .. n - 1 : FrameFlows(p, E, t[k], k)
  BY <1>1, <1>2, <1>3, <1>4 DEF FrameFlows
<1> QED
  BY <1>1, <1>3, <1>4, <1>5 DEF FramesFlow, t

\* The books are kept when a construct ends.
LEMMA ShutBooks ==
  ASSUME NEW c, NEW frames, NEW e, Books(c, frames, e), frames # <<>>, c \in Context,
         NEW n, n = Len(frames), NEW f, f = frames[n], NEW p, p = Shut(c, f)
  PROVE  Books(p, Front(frames), f.env)
<1> DEFINE t == Front(frames)
<1>1. /\ Scoped(c, n) /\ Framed(frames, Len(c.blocks)) /\ Looped(c, frames) /\ Named(c, frames, e)
      /\ frames \in Seq(FrameSet)
  BY BooksIs
<1>2. Fronts(FrameSet, frames, t, Last(frames))
  BY <1>1, FrontIs
<1>3. n \in Nat /\ n # 0 /\ Len(t) = n - 1
  BY <1>2 DEF Fronts
<1>4. f.kind = "loop" => c.loops # <<>>
  BY <1>1, LoopOpen
<1>5. Shuts(c, p, f, n)
  BY <1>1, <1>3, <1>4, ShutIs
<1>6. Scoped(p, n - 1)
  BY <1>1, <1>3, <1>5, ShutScoped
<1>7. Framed(t, Len(p.blocks))
  BY <1>1, <1>5, FramesFront DEF Shuts
<1>8. Looped(p, t)
  BY <1>1, <1>5, ShutLooped
<1>9. Named(p, t, f.env)
  BY <1>1, <1>5, ShutNamed
<1> HIDE DEF t
<1>10. Books(p, t, f.env)
  BY <1>3, <1>6, <1>7, <1>8, <1>9 DEF Books
<1> QED
  BY <1>10 DEF t

\* What is around the innermost construct: p is c without it.
Outside(c, frames, E, p, f, n) ==
  /\ n = Len(frames) /\ n \in Nat /\ n # 0 /\ f = frames[n] /\ f \in FrameSet /\ Shuts(c, p, f, n)
  /\ FrameFits(f, n, Len(c.blocks)) /\ Range(p.owned) = Around(c, n) /\ FramesFlow(p, E, Front(frames))
  /\ FrameFlows(c, E, f, n) /\ c.scopes \in Seq(Nat) /\ Last(c.scopes) = c.scopes[n + 1]
  /\ c.scopes[n + 1] \in 0 .. Len(c.owned) /\ FirstOwned(c, c.scopes[n + 1]) = Around(c, n)
  /\ \A i, j \in 1 .. Len(c.owned) : i # j => c.owned[i] # c.owned[j]

\* What the constructs around an ending one may rely on.
LEMMA OutsideIs ==
  ASSUME NEW c, NEW frames, NEW e, Books(c, frames, e), frames # <<>>, c \in Context,
         NEW n, n = Len(frames), NEW f, f = frames[n], NEW p, p = Shut(c, f), NEW E, FramesFlow(c, E, frames)
  PROVE  Outside(c, frames, E, p, f, n)
<1> DEFINE t == Front(frames)
<1>1. /\ Scoped(c, n) /\ Framed(frames, Len(c.blocks)) /\ Looped(c, frames) /\ Named(c, frames, e)
      /\ frames \in Seq(FrameSet)
  BY BooksIs
<1>2. Fronts(FrameSet, frames, t, Last(frames))
  BY <1>1, FrontIs
<1>3. n \in Nat /\ n # 0 /\ n \in 1 .. n /\ f \in FrameSet
  BY <1>1, <1>2 DEF Fronts
<1>4. f.kind = "loop" => c.loops # <<>>
  BY <1>1, LoopOpen
<1>5. Shuts(c, p, f, n)
  BY <1>1, <1>3, <1>4, ShutIs
<1>6. Range(p.owned) = Around(c, n)
  BY <1>1, <1>3, <1>5, ShutAround
<1>7. FramesFlow(p, E, t)
  BY <1>1, <1>5, ShutFlows
<1>8. FrameFlows(c, E, f, n)
  BY <1>1, <1>5, ShutFlows
<1>9. FrameFits(f, n, Len(c.blocks))
  BY <1>1, <1>3 DEF Framed
<1>10. c.scopes \in Seq(Nat) /\ Last(c.scopes) = c.scopes[n + 1]
  <2>1. c.scopes \in Seq(Nat) /\ Len(c.scopes) = n + 1
    BY <1>1, ContextIs DEF Scoped
  <2> QED
    BY <2>1 DEF Last
<1>11. c.scopes[n + 1] \in 0 .. Len(c.owned) /\ FirstOwned(c, c.scopes[n + 1]) = Around(c, n)
  BY <1>1, <1>3, ScopeIs
<1>12. \A i, j \in 1 .. Len(c.owned) : i # j => c.owned[i] # c.owned[j]
  BY <1>1 DEF Scoped
<1> QED
  BY <1>3, <1>5, <1>6, <1>7, <1>8, <1>9, <1>10, <1>11, <1>12 DEF Outside

\* The end of a construct, as Close computes it.
LeftOf(c, f) == IF f.kind = "loop" THEN [PopScope(c) EXCEPT !.loops = Front(@)] ELSE PopScope(c)

\* The drops at the end of a scope change blocks only.
LEMMA LeftIs ==
  ASSUME NEW c \in Context, NEW f, NEW d, d = PushAll(c, DropsOf(OwnedSince(c, Last(c.scopes)))), Keeps(c, d),
         NEW n \in Nat, Shuts(c, Shut(c, f), f, n), NEW q, q = LeftOf(c, f)
  PROVE  /\ q \in Context /\ q.blocks = d.blocks /\ q.cur = d.cur /\ q.kinds = d.kinds
         /\ Keeps(Shut(c, f), q)
<1> DEFINE s == Front(c.scopes)
           o == SubSeq(c.owned, 1, Last(c.scopes))
           ls == IF f.kind = "loop" THEN Front(c.loops) ELSE c.loops
           p == Shut(c, f)
<1>1. p = [[[c EXCEPT !.scopes = s] EXCEPT !.owned = o] EXCEPT !.loops = ls]
  BY DEF Shut
<1>2. p \in Context
  BY DEF Shuts
<1>3. p.scopes = s /\ p.owned = o /\ p.loops = ls /\ p.names = c.names
  <2> HIDE DEF s, o, ls, p
  <2> QED
    BY <1>1 DEF Context
<1>4. s \in Seq(Nat) /\ o \in Seq(Nat) /\ ls \in Seq([break : Nat, continue : Nat, drop : Nat])
  <2> HIDE DEF s, o, ls, p
  <2> QED
    BY <1>2, <1>3 DEF Context
<1>5. d \in Context /\ d.owned = c.owned /\ d.scopes = c.scopes /\ d.loops = c.loops /\ d.names = c.names
  BY DEF Keeps
<1>6. PopScope(c) = [[d EXCEPT !.scopes = s] EXCEPT !.owned = o]
  BY <1>5 DEF PopScope
<1> DEFINE z == PopScope(c)
<1>7. z \in Context /\ z.blocks = d.blocks /\ z.cur = d.cur /\ z.kinds = d.kinds /\ z.names = c.names
      /\ z.scopes = s /\ z.owned = o /\ z.loops = c.loops
  <2> HIDE DEF s, o, ls, z, p
  <2> QED
    BY <1>4, <1>5, <1>6 DEF Context, z
<1> HIDE DEF z
<1>8. CASE f.kind = "loop"
  <2>1. q = [z EXCEPT !.loops = ls]
    BY <1>7, <1>8 DEF LeftOf, z
  <2> HIDE DEF s, o, ls, p
  <2>2. /\ q \in Context /\ q.blocks = d.blocks /\ q.cur = d.cur /\ q.kinds = d.kinds
        /\ q.names = c.names /\ q.scopes = s /\ q.owned = o /\ q.loops = ls
    BY <1>4, <1>7, <2>1 DEF Context
  <2> QED
    BY <1>3, <2>2 DEF Keeps, p
<1>9. CASE f.kind # "loop"
  <2>1. q = z /\ ls = c.loops
    BY <1>9 DEF LeftOf, z
  <2> HIDE DEF s, o, ls, p
  <2> QED
    BY <1>3, <1>7, <2>1 DEF Keeps, p
<1> QED
  BY <1>8, <1>9

\* At the end of a construct what its body owns is dropped.
LEMMA Shutting ==
  ASSUME NEW c \in Context, NEW frames, NEW E, NEW f, NEW n, NEW p, p = Shut(c, f), Outside(c, frames, E, p, f, n),
         NEW d, Keeps(c, d), Len(c.kinds) <= Len(d.kinds), Len(d.blocks) = Len(c.blocks),
         NEW X, X \cap Range(c.owned) = {}, NEW W, Here(d, E, Range(c.owned) \cup X, W)
  PROVE  Turns(p, LeftOf(d, f), E, Range(p.owned) \cup X, W)
<1> DEFINE k == c.scopes[n + 1]
           g == PushAll(d, DropsOf(OwnedSince(d, k)))
           q == LeftOf(d, f)
           pd == Shut(d, f)
<1>1. /\ d \in Context /\ d.owned = c.owned /\ d.scopes = c.scopes /\ d.loops = c.loops /\ d.names = c.names
  BY DEF Keeps
<1>2. /\ n \in Nat /\ n # 0 /\ Shuts(c, p, f, n) /\ Range(p.owned) = Around(c, n) /\ Last(c.scopes) = k
      /\ k \in 0 .. Len(c.owned) /\ FirstOwned(c, k) = Around(c, n)
      /\ \A i, j \in 1 .. Len(c.owned) : i # j => c.owned[i] # c.owned[j]
  BY DEF Outside
<1>3. Becomes(d, g, d.kinds, E, FirstOwned(d, k) \cup X, W)
  <2>1. /\ Here(d, E, Range(d.owned) \cup X, W) /\ X \cap Range(d.owned) = {}
        /\ \A i, j \in 1 .. Len(d.owned) : i # j => d.owned[i] # d.owned[j]
        /\ k \in 0 .. Len(d.owned)
    BY <1>1, <1>2
  <2> HIDE DEF k
  <2> QED
    BY <2>1, DropSince
<1>4. FirstOwned(d, k) = Range(p.owned)
  BY <1>1, <1>2 DEF FirstOwned
<1>5. Shuts(d, pd, f, n)
  <2>1. pd = [d EXCEPT !.scopes = p.scopes, !.owned = p.owned, !.loops = p.loops]
    <3>1. p.scopes = Front(c.scopes) /\ p.owned = SubSeq(c.owned, 1, Last(c.scopes))
          /\ p.loops = IF f.kind = "loop" THEN Front(c.loops) ELSE c.loops
      BY DEF Shut, Context
    <3> QED
      BY <1>1, <3>1 DEF Shut
  <2>2. p \in Context
    BY <1>2 DEF Shuts
  <2>3. /\ pd \in Context /\ pd.blocks = d.blocks /\ pd.cur = d.cur /\ pd.kinds = d.kinds /\ pd.names = d.names
        /\ pd.scopes = p.scopes /\ pd.owned = p.owned /\ pd.loops = p.loops
    <3> HIDE DEF pd
    <3> QED
      BY <1>1, <2>1, <2>2 DEF Context
  <2> HIDE DEF pd
  <2> QED
    BY <1>1, <1>2, <2>3 DEF Shuts
<1>6. Keeps(d, g)
  BY <1>3 DEF Becomes, Same
<1>7. /\ q \in Context /\ q.blocks = g.blocks /\ q.cur = g.cur /\ q.kinds = g.kinds
      /\ Keeps(pd, q)
  <2>1. g = PushAll(d, DropsOf(OwnedSince(d, Last(d.scopes))))
    BY <1>1, <1>2
  <2> HIDE DEF g, pd, q
  <2> QED
    BY <1>1, <1>2, <1>5, <1>6, <2>1, LeftIs DEF pd, q
<1>8. Keeps(p, q)
  <2>1. /\ pd.scopes = p.scopes /\ pd.owned = p.owned /\ pd.loops = p.loops /\ pd.names = p.names
    <3>1. p.scopes = Front(c.scopes) /\ p.owned = SubSeq(c.owned, 1, Last(c.scopes)) /\ p.names = c.names
          /\ p.loops = IF f.kind = "loop" THEN Front(c.loops) ELSE c.loops
      BY DEF Shut, Context
    <3>2. pd.scopes = Front(d.scopes) /\ pd.owned = SubSeq(d.owned, 1, Last(d.scopes)) /\ pd.names = d.names
          /\ pd.loops = IF f.kind = "loop" THEN Front(d.loops) ELSE d.loops
      BY <1>1 DEF Shut, Context
    <3> QED
      BY <1>1, <3>1, <3>2
  <2> HIDE DEF pd, q
  <2> QED
    BY <1>7, <2>1 DEF Keeps
<1> HIDE DEF g, q, k, pd
<1> DEFINE T == Range(p.owned) \cup X
<1>9. Graph(g, E, Holding(T), W, T) /\ T \subseteq 1 .. Len(g.kinds)
  BY <1>3, <1>4 DEF Becomes, Here
<1> HIDE DEF T
<1>10. Here(q, E, T, W)
  <2>1. Graph(q, E, Holding(T), W, T)
    BY <1>7, <1>9, GraphSame
  <2> QED
    BY <1>7, <1>9, <2>1 DEF Here
<1>11. Len(p.kinds) <= Len(q.kinds) /\ Len(p.blocks) <= Len(q.blocks)
  <2>1. p.kinds = c.kinds /\ p.blocks = c.blocks
    BY <1>2 DEF Shuts
  <2>2. q.kinds = d.kinds /\ Len(q.blocks) = Len(d.blocks)
    BY <1>3, <1>7 DEF Becomes, Same
  <2>3. Len(c.blocks) \in Nat
    BY ContextIs
  <2> QED
    BY <2>1, <2>2, <2>3
<1> QED
  BY <1>8, <1>10, <1>11 DEF Turns, T, q

\* The context after a construct, and what is known of it.
Closes(c, frames, E, p, f, n, left) ==
  /\ c \in Context /\ Outside(c, frames, E, p, f, n) /\ Books(p, Front(frames), f.env)
  /\ p \in Context /\ E \in [Nat -> Knowledge] /\ Extends(E, E, p)
  /\ Turns(p, left, E, Range(p.owned), Waits(frames))
  /\ Waits(frames) = Waits(Front(frames)) \cup Waiting(f) /\ Waits(Front(frames)) \cap Waiting(f) = {}
  /\ frames # <<>> /\ Front(frames) \in Seq(FrameSet) /\ Len(Front(frames)) = n - 1

\* The end of a construct: its locals are dropped, and its books closed.
LEMMA ClosesIs ==
  ASSUME NEW c, NEW frames, NEW e, Lowered(c, frames, e), frames # <<>>, NEW n, n = Len(frames),
         NEW f, f = frames[n], NEW p, p = Shut(c, f), NEW left, left = LeftOf(c, f)
  PROVE  \E E : Closes(c, frames, E, p, f, n, left)
<1> DEFINE W == Waits(frames)
           S == Range(c.owned)
<1>1. PICK E : /\ Here(c, E, S, W) /\ FramesFlow(c, E, frames) /\ Extends(E, E, c)
               /\ Books(c, frames, e) /\ c \in Context
  BY LoweredIs
<1>2. Outside(c, frames, E, p, f, n)
  BY <1>1, OutsideIs
<1>3. Books(p, Front(frames), f.env)
  BY <1>1, ShutBooks
<1>4. p \in Context /\ E \in [Nat -> Knowledge]
  BY <1>1, <1>2, HereIs DEF Outside, Shuts
<1>5. Extends(E, E, p)
  BY <1>4, ExtendsItself
<1>6. Turns(p, left, E, Range(p.owned), W)
  <2> DEFINE X == {}
  <2>1. Keeps(c, c) /\ Len(c.kinds) <= Len(c.kinds) /\ Len(c.blocks) = Len(c.blocks)
    BY <1>1, ContextIs DEF Keeps
  <2>2. Here(c, E, S \cup X, W) /\ X \cap S = {} /\ Range(p.owned) \cup X = Range(p.owned)
    <3>1. S \cup X = S
      OBVIOUS
    <3> QED
      BY <1>1, <3>1
  <2> HIDE DEF X, W
  <2>3. Turns(p, LeftOf(c, f), E, Range(p.owned) \cup X, W)
    BY <1>1, <1>2, <2>1, <2>2, Shutting
  <2> QED
    BY <2>2, <2>3
<1>7. Framed(frames, Len(c.blocks))
  BY <1>1, BooksIs
<1>8. Waits(frames) = Waits(Front(frames)) \cup Waiting(f)
  BY <1>7, WaitsFront
<1>9. Waits(Front(frames)) \cap Waiting(f) = {}
  BY <1>7, WaitsFront
<1>10. Front(frames) \in Seq(FrameSet) /\ Len(Front(frames)) = n - 1
  <2>1. Fronts(FrameSet, frames, Front(frames), Last(frames))
    BY <1>1, BooksIs, FrontIs
  <2> QED
    BY <2>1 DEF Fronts
<1> QED
  BY <1>1, <1>2, <1>3, <1>4, <1>5, <1>6, <1>8, <1>9, <1>10 DEF Closes

\* Control goes on after the construct.
LEMMA GoesAfter ==
  ASSUME NEW c, NEW frames, NEW E, NEW p, NEW f, NEW n, NEW left, Closes(c, frames, E, p, f, n, left),
         f.exit # 0, NEW W, W = (Waits(frames) \ {f.next}),
         NEW q, q = At(Term(left, left.cur, Goto(f.exit)), f.next)
  PROVE  Turns(p, q, E, Range(p.owned), W)
<1> DEFINE S == Range(p.owned)
           t == Goto(f.exit)
           V == Waits(frames)
           m == Len(left.blocks)
<1>1. /\ Turns(p, left, E, S, V) /\ Outside(c, frames, E, p, f, n) /\ p \in Context
      /\ V = Waits(Front(frames)) \cup Waiting(f)
  BY DEF Closes
<1>2. /\ FrameFits(f, n, Len(c.blocks)) /\ FrameFlows(c, E, f, n) /\ S = Around(c, n) /\ p.blocks = c.blocks
  BY <1>1 DEF Outside, Shuts
<1>3. /\ Here(left, E, S, V) /\ Keeps(p, left) /\ Len(p.kinds) <= Len(left.kinds) /\ Len(p.blocks) <= m
  BY <1>1 DEF Turns
<1>4. E[f.next] = Holding(S) /\ Weaker(Holding(S), E[f.exit])
  BY <1>2 DEF FrameFlows
<1>5. m \in Nat /\ Len(left.kinds) \in Nat /\ Len(p.blocks) \in Nat /\ S \subseteq 1 .. Len(left.kinds)
  BY <1>1, <1>3, HereIs, BlocksAre
<1>6. f.exit \in 1 .. Len(p.blocks)
  BY <1>2 DEF FrameFits
<1>7. f.exit \in 1 .. m
  BY <1>3, <1>5, <1>6
<1>8. f.next \in V
  BY <1>1 DEF Waiting
<1>9. t \in Terminator(1 .. Len(left.kinds), 1 .. m) /\ t # Placeholder /\ Kept(t) = {} /\ Leads(E, t, Holding(S))
  <2>1. \A E3, st3 : Weaker(st3, E3[f.exit]) => Leads(E3, t, st3)
    BY <1>5, <1>7, GotoIs
  <2>2. t \in Terminator(1 .. Len(left.kinds), 1 .. m) /\ t # Placeholder /\ Kept(t) = {}
    BY <1>5, <1>7, GotoIs
  <2> QED
    BY <1>4, <2>1, <2>2
<1> HIDE DEF t, S, V
<1>10. Arrives(left, q, E, S, f.next, m, V \ {f.next})
  <2>1. t \in Terminator(1 .. Len(left.kinds), 1 .. Len(left.blocks)) /\ Kept(t) \subseteq S
    BY <1>9
  <2>2. Arrives(left, At(Term(left, left.cur, t), f.next), E, S, f.next, Len(left.blocks), V \ {f.next})
    BY <1>3, <1>4, <1>5, <1>8, <1>9, <2>1, HereGo
  <2> QED
    BY <2>2 DEF t
<1>11. Here(q, E, S, W) /\ Keeps(left, q) /\ q.kinds = left.kinds /\ Len(q.blocks) = m
  BY <1>10 DEF Arrives, V
<1>12. Keeps(p, q)
  BY <1>3, <1>11, KeepsOn
<1> QED
  BY <1>3, <1>11, <1>12 DEF Turns, S

\* The end of a block, of the last arm of an `if' or of a loop's body.
LEMMA CloseLowered ==
  ASSUME NEW c, NEW frames, NEW e, Lowered(c, frames, e), frames # <<>>,
         NEW f, f = frames[Len(frames)], f.kind \in {"block", "loop"}, NEW left, left = LeftOf(c, f),
         NEW q, q = (IF f.exit = 0 THEN left ELSE At(Term(left, left.cur, Goto(f.exit)), f.next))
  PROVE  Lowered(q, Front(frames), f.env)
<1> DEFINE p == Shut(c, f)
           n == Len(frames)
           t == Front(frames)
<1>1. PICK E : Closes(c, frames, E, p, f, n, left)
  BY ClosesIs
<1> HIDE DEF p, n
<1>2. /\ Books(p, t, f.env) /\ p \in Context /\ E \in [Nat -> Knowledge] /\ Extends(E, E, p)
      /\ Turns(p, left, E, Range(p.owned), Waits(frames)) /\ Outside(c, frames, E, p, f, n)
      /\ Waits(frames) = Waits(t) \cup Waiting(f) /\ Waits(t) \cap Waiting(f) = {}
  BY <1>1 DEF Closes
<1>3. FramesFlow(p, E, t) /\ FrameFits(f, n, Len(c.blocks))
  BY <1>2 DEF Outside
<1>4. Turns(p, q, E, Range(p.owned), Waits(t))
  <2>1. CASE f.exit = 0
    <3>1. Waiting(f) = {}
      BY <2>1 DEF Waiting
    <3>2. Waits(frames) = Waits(t)
      BY <1>2, <3>1
    <3> QED
      BY <1>2, <2>1, <3>2
  <2>2. CASE f.exit # 0
    <3>1. Waiting(f) = {f.next}
      BY <1>3, <2>2 DEF Waiting, FrameFits
    <3>2. Waits(t) = Waits(frames) \ {f.next}
      BY <1>2, <3>1
    <3>3. q = At(Term(left, left.cur, Goto(f.exit)), f.next)
      BY <2>2
    <3> HIDE DEF t
    <3> QED
      BY <1>1, <2>2, <3>2, <3>3, GoesAfter
  <2> QED
    BY <2>1, <2>2
<1> HIDE DEF t
<1>5. Lowered(q, t, f.env)
  BY <1>2, <1>3, <1>4, StayLowered
<1> QED
  BY <1>5 DEF t

\* The end of the first arm of an `if' with an `else'.
LEMMA CloseThenLowered ==
  ASSUME NEW c, NEW frames, NEW e, Lowered(c, frames, e), frames # <<>>,
         NEW f, f = frames[Len(frames)], f.kind = "then", NEW left, left = LeftOf(c, f),
         NEW q, q = At(Term(left, left.cur, Goto(f.exit)), f.next),
         NEW g, g = [f EXCEPT !.kind = "block", !.next = f.exit]
  PROVE  Lowered(PushScope(q), Append(Front(frames), g), f.env)
<1> DEFINE p == Shut(c, f)
           n == Len(frames)
           t == Front(frames)
           S == Range(p.owned)
<1>1. PICK E : Closes(c, frames, E, p, f, n, left)
  BY ClosesIs
<1>2. /\ Books(p, t, f.env) /\ p \in Context /\ E \in [Nat -> Knowledge] /\ Extends(E, E, p)
      /\ Turns(p, left, E, S, Waits(frames)) /\ Outside(c, frames, E, p, f, n)
      /\ Waits(frames) = Waits(t) \cup Waiting(f) /\ Waits(t) \cap Waiting(f) = {}
      /\ t \in Seq(FrameSet) /\ Len(t) = n - 1
  BY <1>1 DEF Closes
<1>3. /\ FramesFlow(p, E, t) /\ FrameFits(f, n, Len(c.blocks)) /\ f \in FrameSet /\ n \in Nat /\ n # 0
      /\ FrameFlows(c, E, f, n) /\ S = Around(c, n) /\ p.blocks = c.blocks
  BY <1>2 DEF Outside, Shuts
<1> HIDE DEF p, n
<1>4. f.exit # 0 /\ f.exit # f.next /\ n # 1 /\ f.exit \in 1 .. Len(p.blocks)
  BY <1>3 DEF FrameFits
<1>5. /\ g \in FrameSet /\ g.kind = "block" /\ g.exit = f.exit /\ g.next = f.exit /\ g.env = f.env
  BY <1>3 DEF FrameSet
<1>6. Waiting(f) = {f.exit, f.next} /\ Waiting(g) = {f.exit}
  BY <1>4, <1>5 DEF Waiting
<1> HIDE DEF t
<1>7. Turns(p, q, E, S, Waits(t) \cup Waiting(g))
  <2>1. Waits(frames) \ {f.next} = Waits(t) \cup Waiting(g)
    BY <1>2, <1>4, <1>6
  <2> HIDE DEF S
  <2>2. Turns(p, q, E, Range(p.owned), Waits(frames) \ {f.next})
    BY <1>1, <1>4, GoesAfter
  <2> QED
    BY <2>1, <2>2 DEF S
<1>8. /\ Keeps(p, q) /\ Here(q, E, S, Waits(t) \cup Waiting(g)) /\ Len(p.kinds) <= Len(q.kinds)
      /\ Len(p.blocks) <= Len(q.blocks)
  BY <1>7 DEF Turns
<1>9. Grows(p, q) /\ q.names = p.names /\ q.owned = p.owned /\ q \in Context
  BY <1>8 DEF Grows, Keeps
<1>10. Opens(q, E, g, f.env, t)
  <2>1. FrameFits(g, Len(t) + 1, Len(q.blocks))
    <3>1. Len(t) + 1 = n
      BY <1>2, <1>3
    <3>2. Len(p.blocks) \in Nat /\ Len(q.blocks) \in Nat
      BY <1>2, <1>9, BlocksAre
    <3>3. f.exit \in 1 .. Len(q.blocks)
      BY <1>4, <1>8, <3>2
    <3> QED
      BY <1>4, <1>5, <3>1, <3>3 DEF FrameFits
  <2>2. Waiting(g) \cap Waits(t) = {}
    BY <1>2, <1>6
  <2>3. Range(q.owned) = S /\ E[f.exit] = Holding(S)
    BY <1>3, <1>4, <1>9 DEF FrameFlows
  <2>4. Weaker(Holding(S), E[f.exit])
    <3>1. Holding(S) \in Knowledge
      BY HoldingIs
    <3> QED
      BY <2>3, <3>1, WeakerIs
  <2> HIDE DEF S
  <2> QED
    BY <1>5, <2>1, <2>2, <2>3, <2>4 DEF Opens
<1>11. Opened(q, PushScope(q), g)
  BY <1>5, <1>9, ScopeOpened
<1>12. Here(q, E, Range(q.owned), Waits(t) \cup Waiting(g))
  BY <1>8, <1>9
<1> DEFINE z == PushScope(q)
<1> HIDE DEF z
<1>13. Opened(q, z, g)
  BY <1>11 DEF z
<1>14. Lowered(z, Append(t, g), f.env)
  BY <1>2, <1>3, <1>5, <1>9, <1>10, <1>12, <1>13, EnterLowered
<1> QED
  BY <1>14 DEF z, t

\* The value of a block outlives its scope.
LEMMA CloseInitLowered ==
  ASSUME NEW c, NEW frames, NEW e, Lowered(c, frames, e), frames # <<>>,
         NEW f, f = frames[Len(frames)], f.kind = "init", NEW v \in Range(c.owned), c.kinds[v] = "string",
         NEW l, l = Len(c.kinds) + 1, NEW x \in Names, f.env[x] = 0,
         NEW d, d = PushAll(AllocLocal(c, "string"), <<Move(l, v)>>)
  PROVE  Lowered(Bind(PopScope(d), x, l), Front(frames), Put(f.env, x, l))
<1> DEFINE p == Shut(c, f)
           n == Len(frames)
           t == Front(frames)
           W == Waits(frames)
           S == Range(c.owned)
           left == LeftOf(d, f)
<1>1. PICK E : /\ Here(c, E, S, W) /\ FramesFlow(c, E, frames) /\ Extends(E, E, c)
               /\ Books(c, frames, e) /\ c \in Context
  BY LoweredIs
<1>2. /\ Len(c.kinds) \in Nat /\ S \subseteq 1 .. Len(c.kinds) /\ E \in [Nat -> Knowledge]
      /\ l \notin S /\ l \in Nat /\ Len(c.kinds) <= l
  BY <1>1, HereIs
<1>3. Becomes(c, d, Append(c.kinds, "string"), E, S \cup {l}, W)
  BY <1>1, HereTail
<1>4. /\ Here(d, E, S \cup {l}, W) /\ Keeps(c, d) /\ Len(d.blocks) = Len(c.blocks) /\ Len(d.kinds) = l
  <2>1. Len(Append(c.kinds, "string")) = l
    BY <1>1, GrownIs
  <2> QED
    BY <1>3, <2>1 DEF Becomes, Same
<1>5. Outside(c, frames, E, p, f, n)
  BY <1>1, OutsideIs
<1>6. Books(p, t, f.env)
  BY <1>1, ShutBooks
<1>7. /\ p \in Context /\ FramesFlow(p, E, t) /\ FrameFits(f, n, Len(c.blocks)) /\ p.kinds = c.kinds
      /\ n \in Nat /\ n # 0
  BY <1>5 DEF Outside, Shuts
<1>8. Extends(E, E, p)
  BY <1>2, ExtendsItself
<1>9. Turns(p, left, E, Range(p.owned) \cup {l}, W)
  <2> DEFINE X == {l}
  <2>1. X \cap Range(c.owned) = {} /\ Here(d, E, Range(c.owned) \cup X, W) /\ Len(c.kinds) <= Len(d.kinds)
    BY <1>2, <1>4
  <2> HIDE DEF X, W, p, n
  <2>2. Turns(p, LeftOf(d, f), E, Range(p.owned) \cup X, W)
    BY <1>1, <1>4, <1>5, <2>1, Shutting DEF p
  <2> QED
    BY <2>2 DEF X
<1>10. left = PopScope(d)
  BY DEF LeftOf
<1>11. W = Waits(t)
  <2>1. Framed(frames, Len(c.blocks))
    BY <1>1, BooksIs
  <2>2. Waits(frames) = Waits(t) \cup Waiting(f)
    BY <2>1, WaitsFront
  <2>3. Waiting(f) = {}
    BY <1>7 DEF Waiting, FrameFits
  <2> QED
    BY <2>2, <2>3
<1>12. \A k \in 1 .. Len(t) : t[k].env[x] = 0
  <2>1. Fronts(FrameSet, frames, t, Last(frames))
    BY <1>1, BooksIs, FrontIs
  <2>2. Len(t) = n - 1 /\ \A k \in 1 .. n - 1 : t[k] = frames[k]
    BY <2>1 DEF Fronts
  <2>3. ASSUME NEW k \in 1 .. n - 1 PROVE frames[k].env[x] = 0
    <3>1. SUFFICES ASSUME frames[k].env[x] # 0 PROVE FALSE
      OBVIOUS
    <3>2. Named(c, frames, e)
      BY <1>1, BooksIs
    <3>3. k \in 1 .. Len(frames) /\ n \in 1 .. Len(frames) /\ n >= k
      BY <1>7
    <3>4. e[x] = frames[k].env[x] /\ frames[n].env[x] = e[x]
      BY <3>1, <3>2, <3>3 DEF Named
    <3> QED
      BY <3>1, <3>4
  <2> QED
    BY <2>2, <2>3
<1>13. l \in Len(p.kinds) + 1 .. Len(left.kinds)
  <2>1. Becomes(c, d, d.kinds, E, S \cup {l}, W)
    BY <1>3 DEF Becomes
  <2>2. Len(left.kinds) \in Nat /\ l \in 1 .. Len(left.kinds)
    <3>1. Here(left, E, Range(p.owned) \cup {l}, W)
      BY <1>9 DEF Turns
    <3> HIDE DEF left, p, W
    <3> QED
      BY <3>1, HereIs
  <2> QED
    BY <1>2, <1>7, <2>2
<1> HIDE DEF p, left, t, W
<1>14. Lowered(Bind(left, x, l), t, Put(f.env, x, l))
  <2>1. Turns(p, left, E, Range(p.owned) \cup {l}, Waits(t))
    BY <1>9, <1>11
  <2> QED
    BY <1>6, <1>7, <1>8, <1>12, <1>13, <2>1, LetLowered
<1> QED
  BY <1>10, <1>14 DEF t

-----------------------------------------------------------------------------
(* The blocks control can reach *)

\* The blocks one edge leads to from those of near, and near.
Farther(blocks, near) == near \cup UNION {blocks[b].term.to : b \in near}

\* The blocks within each of the first n edges.
Within(blocks, n, f) ==
  f = [k \in 0 .. n |-> IF k = 0 THEN {Entry} ELSE Farther(blocks, f[k - 1])]

\* The blocks within each number of edges exist.
LEMMA WithinExists ==
  ASSUME NEW blocks, NEW n \in Nat
  PROVE  \E f : Within(blocks, n, f)
<1> DEFINE far == {i \in Nat : \E f : Within(blocks, i, f)}
<1>1. 0 \in far
  <2> DEFINE f == [k \in 0 .. 0 |-> {Entry}]
  <2>1. Within(blocks, 0, f)
    BY DEF Within
  <2> QED
    BY <2>1
<1>2. ASSUME NEW i \in Nat, i \in far PROVE i + 1 \in far
  <2>1. PICK f : Within(blocks, i, f)
    BY <1>2
  <2> DEFINE g == [k \in 0 .. (i + 1) |-> IF k = i + 1 THEN Farther(blocks, f[i]) ELSE f[k]]
  <2>2. \A k \in 0 .. i : g[k] = f[k]
    OBVIOUS
  <2>3. ASSUME NEW k \in 0 .. (i + 1)
        PROVE  g[k] = IF k = 0 THEN {Entry} ELSE Farther(blocks, g[k - 1])
    <3>1. CASE k = i + 1
      <4>1. g[k] = Farther(blocks, f[i]) /\ k - 1 = i /\ k # 0 /\ i \in 0 .. i
        BY <3>1
      <4> HIDE DEF g
      <4> QED
        BY <2>2, <4>1
    <3>2. CASE k # i + 1
      <4>1. k \in 0 .. i /\ (k # 0 => k - 1 \in 0 .. i)
        BY <3>2
      <4>2. f[k] = IF k = 0 THEN {Entry} ELSE Farther(blocks, f[k - 1])
        BY <2>1, <4>1 DEF Within
      <4> HIDE DEF g
      <4> QED
        BY <2>2, <4>1, <4>2
    <3> QED
      BY <3>1, <3>2
  <2>4. g = [k \in 0 .. (i + 1) |-> g[k]]
    OBVIOUS
  <2>5. Within(blocks, i + 1, g)
    <3> HIDE DEF g
    <3> QED
      BY <2>3, <2>4 DEF Within
  <2> QED
    <3> HIDE DEF g
    <3> QED
      BY <2>5
<1> HIDE DEF far
<1>3. n \in far
  BY <1>1, <1>2, SetInduction
<1> QED
  BY <1>3 DEF far

\* Control stays in a set of blocks that holds the entry and that no edge leaves.
LEMMA ReachedWithin ==
  ASSUME NEW blocks, Len(blocks) \in Nat, NEW D, Entry \in D, \A b \in D : blocks[b].term.to \subseteq D
  PROVE  Reached(blocks) \subseteq D
<1> DEFINE n == Len(blocks)
           f == CHOOSE f : Within(blocks, n, f)
<1>1. Within(blocks, n, f)
  BY WithinExists
<1>2. Reached(blocks) = f[n]
  BY DEF Reached, Within, Farther
<1> HIDE DEF f, n
<1>3. \A k \in 0 .. n : f[k] = IF k = 0 THEN {Entry} ELSE Farther(blocks, f[k - 1])
  BY <1>1 DEF Within
<1>4. n \in Nat
  BY DEF n
<1> DEFINE near == {i \in Nat : i \in 0 .. n => f[i] \subseteq D}
<1>5. 0 \in near
  BY <1>3, <1>4
<1>6. ASSUME NEW i \in Nat, i \in near PROVE i + 1 \in near
  <2>1. SUFFICES ASSUME i + 1 \in 0 .. n PROVE f[i + 1] \subseteq D
    OBVIOUS
  <2>2. i \in 0 .. n /\ i + 1 # 0 /\ (i + 1) - 1 = i
    BY <1>4, <2>1
  <2>3. f[i + 1] = Farther(blocks, f[i])
    BY <1>3, <2>1, <2>2
  <2>4. f[i] \subseteq D
    BY <1>6, <2>2
  <2> QED
    BY <2>3, <2>4 DEF Farther
<1> HIDE DEF near
<1>7. n \in near
  BY <1>4, <1>5, <1>6, SetInduction
<1> QED
  BY <1>2, <1>4, <1>7 DEF near

-----------------------------------------------------------------------------
(* The end of the function *)

\* Complete, of the context it is about.
Completed(c, E) ==
  /\ E \in [Nat -> Knowledge] /\ Entry \in DOMAIN c.blocks
  /\ Len(c.blocks) \in Nat /\ DOMAIN c.blocks = 1 .. Len(c.blocks)
  /\ Len(c.kinds) \in Nat \ {0} /\ DOMAIN c.kinds = 1 .. Len(c.kinds)
  /\ Weaker(Holding({1}), E[Entry])
  /\ \A b \in DOMAIN c.blocks :
       /\ c.blocks[b].term \in Terminator(1 .. Len(c.kinds), 1 .. Len(c.blocks))
       /\ BlockFlows(c.kinds, E, c.blocks[b], E[b])

\* Every block control can reach is ended.
Stops(c) == \A b \in Reached(c.blocks) : c.blocks[b].term # Placeholder

\* No edge of a block leaves the body.
LEMMA EdgesStay ==
  ASSUME NEW A, NEW n, NEW t \in Terminator(A, 1 .. n)
  PROVE  t.to \subseteq 1 .. n
<1>1. t = Placeholder => t.to = {}
  BY DEF Placeholder
<1>2. t # Placeholder => t.to \subseteq 1 .. n
  BY DEF Terminator
<1> QED
  BY <1>1, <1>2

\* Where the current block is open, it ends: what is left to drop is dropped.
LEMMA StopsEnded ==
  ASSUME NEW c, NEW E, NEW X, NEW W, W = {}, Here(c, E, X, W), NEW u, NEW t, Ended(c, u, E, t), t # Placeholder
  PROVE  Stops(u) /\ Completed(u, E)
<1>1. /\ c \in Context /\ c.cur \in DOMAIN c.blocks /\ Len(c.blocks) \in Nat /\ DOMAIN c.blocks = 1 .. Len(c.blocks)
      /\ Len(c.kinds) \in Nat /\ DOMAIN c.kinds = 1 .. Len(c.kinds) /\ E \in [Nat -> Knowledge] /\ c.kinds # <<>>
      /\ c.kinds \in Seq({"string", "record"})
  <2>1. c.kinds # <<>>
    BY DEF Here, Graph
  <2> QED
    BY <2>1, HereIs
<1>2. /\ \A b \in DOMAIN c.blocks : b # c.cur => c.blocks[b].term # Placeholder
      /\ Weaker(Holding({1}), E[Entry])
  BY DEF Here, Graph
<1>3. /\ u.kinds = c.kinds /\ DOMAIN u.blocks = DOMAIN c.blocks /\ Len(u.blocks) = Len(c.blocks)
      /\ \A b \in DOMAIN c.blocks : b # c.cur => u.blocks[b] = c.blocks[b]
      /\ u.blocks[c.cur].term = t
      /\ \A b \in DOMAIN u.blocks : Flowing(u.kinds, u.blocks, E, b)
  BY DEF Ended
<1>4. Entry \in DOMAIN c.blocks
  BY <1>1 DEF Entry
<1>5. \A b \in DOMAIN u.blocks : u.blocks[b].term # Placeholder
  BY <1>2, <1>3
<1>6. \A b \in DOMAIN u.blocks : /\ u.blocks[b].term \in Terminator(1 .. Len(u.kinds), 1 .. Len(u.blocks))
                                 /\ BlockFlows(u.kinds, E, u.blocks[b], E[b])
  BY <1>3 DEF Flowing
<1>7. \A b \in DOMAIN u.blocks : u.blocks[b].term.to \subseteq DOMAIN u.blocks
  BY <1>1, <1>3, <1>6, EdgesStay
<1>8. Reached(u.blocks) \subseteq DOMAIN u.blocks
  BY <1>1, <1>3, <1>4, <1>7, ReachedWithin
<1>9. Len(c.kinds) # 0
  BY <1>1, EmptySeq
<1>10. Stops(u)
  BY <1>5, <1>8 DEF Stops
<1>11. Completed(u, E)
  BY <1>1, <1>2, <1>3, <1>4, <1>6, <1>9 DEF Completed
<1> QED
  BY <1>10, <1>11

\* A current block nothing leads to stays open.
LEMMA StopsDead ==
  ASSUME NEW c, NEW E, NEW X, NEW W, W = {}, Here(c, E, X, W), ~ Fallsthrough(c)
  PROVE  Stops(c) /\ Completed(c, E)
<1>1. /\ c \in Context /\ c.cur \in DOMAIN c.blocks /\ Len(c.blocks) \in Nat /\ DOMAIN c.blocks = 1 .. Len(c.blocks)
      /\ Len(c.kinds) \in Nat /\ DOMAIN c.kinds = 1 .. Len(c.kinds) /\ E \in [Nat -> Knowledge] /\ c.kinds # <<>>
      /\ c.kinds \in Seq({"string", "record"})
  <2>1. c.kinds # <<>>
    BY DEF Here, Graph
  <2> QED
    BY <2>1, HereIs
<1>2. /\ \A b \in DOMAIN c.blocks : b # c.cur => c.blocks[b].term # Placeholder
      /\ Weaker(Holding({1}), E[Entry])
      /\ \A b \in DOMAIN c.blocks : Flowing(c.kinds, c.blocks, E, b)
  BY DEF Here, Graph
<1>3. /\ c.cur # Entry
      /\ \A b \in DOMAIN c.blocks : c.cur \notin c.blocks[b].term.to
  BY DEF Fallsthrough, BlockHasIncoming
<1>4. Entry \in DOMAIN c.blocks
  BY <1>1 DEF Entry
<1>5. \A b \in DOMAIN c.blocks : /\ c.blocks[b].term \in Terminator(1 .. Len(c.kinds), 1 .. Len(c.blocks))
                                 /\ BlockFlows(c.kinds, E, c.blocks[b], E[b])
  BY <1>2 DEF Flowing
<1> DEFINE D == DOMAIN c.blocks \ {c.cur}
<1>6. \A b \in D : c.blocks[b].term.to \subseteq D
  <2>1. \A b \in DOMAIN c.blocks : c.blocks[b].term.to \subseteq DOMAIN c.blocks
    BY <1>1, <1>5, EdgesStay
  <2> QED
    BY <1>3, <2>1
<1>7. Entry \in D
  BY <1>3, <1>4
<1>8. Reached(c.blocks) \subseteq D
  <2> HIDE DEF D
  <2> QED
    BY <1>1, <1>6, <1>7, ReachedWithin
<1>9. Len(c.kinds) # 0
  BY <1>1, EmptySeq
<1>10. Stops(c)
  BY <1>2, <1>8 DEF Stops
<1>11. Completed(c, E)
  BY <1>1, <1>2, <1>4, <1>5, <1>9 DEF Completed
<1> QED
  BY <1>10, <1>11

\* What is dropped where the function ends.
LEMMA DropsTyped ==
  ASSUME NEW o \in Seq(Nat)
  PROVE  DropsOf(SubSeq(o, 1, Len(o))) \in Seq(Statement(Nat))
<1> DEFINE s == SubSeq(o, 1, Len(o))
           r == Reverse(s)
<1>1. s \in Seq(Nat)
  <2>1. Len(o) \in 0 .. Len(o)
    BY LenProperties
  <2>2. Firsts(Nat, o, SubSeq(o, 1, Len(o)), Len(o))
    BY <2>1, FirstsIs
  <2> QED
    BY <2>2 DEF Firsts
<1> HIDE DEF s
<1>2. r \in Seq(Nat) /\ DropsOf(s) = [i \in 1 .. Len(r) |-> DropOf(r[i])]
  BY <1>1, DropsOfIs
<1> HIDE DEF r
<1>3. \A i \in 1 .. Len(r) : DropOf(r[i]) \in Statement(Nat)
  BY <1>2, ElementOfSeq DEF DropOf, Statement
<1>4. DropsOf(s) \in [1 .. Len(r) -> Statement(Nat)] /\ Len(r) \in Nat
  BY <1>2, <1>3, LenProperties
<1>5. DropsOf(s) \in Seq(Statement(Nat))
  BY <1>4, SeqDef
<1> QED
  BY <1>5 DEF s

\* Drops in the current block lead nowhere else.
LEMMA FallsSame ==
  ASSUME NEW c \in Context, c.cur \in DOMAIN c.blocks, NEW stmts \in Seq(Statement(Nat))
  PROVE  Fallsthrough(PushAll(c, stmts)) = Fallsthrough(c)
<1> DEFINE d == PushAll(c, stmts)
           block == [stmts |-> c.blocks[c.cur].stmts \o stmts, term |-> c.blocks[c.cur].term]
<1>1. Edited(c, d, Put(c.blocks, c.cur, block), c.cur, c.kinds)
  BY PushAllIs
<1>2. block.term = c.blocks[c.cur].term
  OBVIOUS
<1> HIDE DEF d, block
<1>3. d.cur = c.cur /\ d.blocks = [c.blocks EXCEPT ![c.cur] = block]
  BY <1>1 DEF Edited, Put
<1>4. DOMAIN d.blocks = DOMAIN c.blocks /\ \A i \in DOMAIN c.blocks : d.blocks[i].term = c.blocks[i].term
  BY <1>2, <1>3
<1>5. Fallsthrough(d) = Fallsthrough(c)
  BY <1>3, <1>4 DEF Fallsthrough, BlockHasIncoming
<1> QED
  BY <1>5 DEF d

\* A finished body, of what was left when its scope was closed.
Finished(z, E, left) ==
  /\ Stops(z) /\ Completed(z, E) /\ z.cur \in DOMAIN z.blocks
  /\ Range(z.owned) = {} /\ z.names = left.names /\ z.kinds = left.kinds

\* The scope of the parameters is all that is open, and the value returned, X,
\* is no one's.
AtTheLast(left, E, X, values) ==
  /\ Here(left, E, Range(left.owned) \cup X, {}) /\ X \cap Range(left.owned) = {} /\ X = Range(values)
  /\ \A i, j \in 1 .. Len(left.owned) : i # j => left.owned[i] # left.owned[j]
  /\ Len(left.scopes) = 1 /\ left.scopes[1] = 0
  /\ values \in {<<>>} \cup {<<l>> : l \in 1 .. Len(left.kinds)}

\* Once its drops are pushed and it has returned, a body is complete.
LEMMA FinishFits ==
  ASSUME NEW left \in Context, NEW E, NEW X, NEW values, AtTheLast(left, E, X, values)
  PROVE  Finished(FinishWith(left, values), E, left)
<1> DEFINE drops == DropsOf(OwnedSince(left, 0))
           h == PushAll(left, drops)
           t == Return(values)
           n == Len(left.kinds)
           m == Len(left.blocks)
           g == IF Fallsthrough(left) THEN Term(left, left.cur, t) ELSE left
           u == PushAll(g, drops)
           z == PopScope(g)
           W == {}
<1>1. /\ n \in Nat /\ m \in Nat /\ left.owned \in Seq(Nat) /\ Len(left.owned) \in Nat /\ left.cur \in DOMAIN left.blocks
      /\ left.scopes \in Seq(Nat) /\ DOMAIN left.blocks = 1 .. m
  <2>1. Here(left, E, Range(left.owned) \cup X, W)
    BY DEF AtTheLast
  <2> HIDE DEF W
  <2> QED
    BY <2>1, HereIs, ContextIs
<1>2. drops = DropsOf(SubSeq(left.owned, 1, Len(left.owned)))
  BY DEF OwnedSince
<1>3. drops \in Seq(Statement(Nat))
  BY <1>1, <1>2, DropsTyped
<1>4. Becomes(left, h, left.kinds, E, X, W)
  <2>1. /\ Here(left, E, Range(left.owned) \cup X, W) /\ X \cap Range(left.owned) = {}
        /\ \A i, j \in 1 .. Len(left.owned) : i # j => left.owned[i] # left.owned[j]
        /\ 0 \in 0 .. Len(left.owned)
    BY <1>1 DEF AtTheLast
  <2>2. FirstOwned(left, 0) \cup X = X
    BY DEF FirstOwned
  <2> HIDE DEF W, h
  <2>3. Becomes(left, PushAll(left, DropsOf(OwnedSince(left, 0))), left.kinds, E, FirstOwned(left, 0) \cup X, W)
    BY <2>1, DropSince
  <2> QED
    BY <2>2, <2>3 DEF h
<1>5. Fallsthrough(h) = Fallsthrough(left)
  BY <1>1, <1>3, FallsSame
<1>6. t \in Terminator(1 .. n, 1 .. m) /\ t # Placeholder /\ Kept(t) = X /\ Leads(E, t, Holding(X))
  <2>1. values \in {<<>>} \cup {<<l>> : l \in 1 .. n} /\ X = Range(values)
    BY DEF AtTheLast
  <2> HIDE DEF n, m
  <2>2. /\ Return(values) \in Terminator(1 .. n, 1 .. m) /\ Return(values) # Placeholder
        /\ Kept(Return(values)) = Range(values)
        /\ \A E3, S3 : S3 \subseteq Range(values) => Leads(E3, Return(values), Holding(S3))
    BY <1>1, <2>1, ReturnIs
  <2> QED
    BY <2>1, <2>2
<1> HIDE DEF t, drops, W
<1>7. /\ h \in Context /\ h.cur = left.cur /\ h.kinds = left.kinds /\ Len(h.blocks) = m
      /\ h.owned = left.owned /\ h.scopes = left.scopes /\ h.names = left.names /\ Here(h, E, X, W)
  <2> HIDE DEF h
  <2> QED
    BY <1>4 DEF Becomes, Same, Keeps
<1>8. u = IF Fallsthrough(left) THEN Term(h, h.cur, t) ELSE h
  <2>1. CASE Fallsthrough(left)
    <3>1. t \in Terminator(Nat, Nat)
      BY <1>1, <1>6, TermTyped
    <3>2. PushAll(Term(left, left.cur, t), drops) = Term(PushAll(left, drops), left.cur, t)
      BY <1>1, <1>3, <3>1, PushThenTerm
    <3> QED
      BY <1>7, <2>1, <3>2
  <2>2. CASE ~ Fallsthrough(left)
    BY <2>2
  <2> QED
    BY <2>1, <2>2
<1>9. Stops(u) /\ Completed(u, E) /\ Keeps(h, u) /\ u.kinds = h.kinds /\ u.cur = h.cur /\ u.cur \in DOMAIN u.blocks
  <2> HIDE DEF h, u
  <2>1. CASE Fallsthrough(left)
    <3>1. Graph(h, E, Holding(X), W, X)
      BY <1>7 DEF Here
    <3>2. Walk(h.kinds, Kept(t), h.blocks[h.cur].stmts, E[h.cur], Holding(X)) /\ Holding(X) \in Knowledge
      <4>1. Kept(t) \subseteq X
        BY <1>6
      <4> QED
        BY <3>1, <4>1, AtTheEnd
    <3>3. t \in Terminator(1 .. Len(h.kinds), 1 .. Len(h.blocks))
      BY <1>6, <1>7
    <3>4. Ended(h, Term(h, h.cur, t), E, t)
      BY <1>6, <3>1, <3>2, <3>3, EndBlock
    <3>5. Ended(h, u, E, t)
      BY <1>8, <2>1, <3>4
    <3>6. Stops(u) /\ Completed(u, E)
      BY <1>6, <1>7, <3>5, StopsEnded DEF W
    <3>7. h.cur \in DOMAIN h.blocks
      BY <3>1 DEF Graph
    <3> QED
      BY <3>5, <3>6, <3>7 DEF Ended
  <2>2. CASE ~ Fallsthrough(left)
    <3>1. u = h /\ ~ Fallsthrough(h)
      BY <1>5, <1>8, <2>2
    <3>2. Stops(h) /\ Completed(h, E)
      BY <1>7, <3>1, StopsDead DEF W
    <3>3. h.cur \in DOMAIN h.blocks /\ Keeps(h, h)
      BY <1>7 DEF Here, Graph, Keeps
    <3> QED
      BY <3>1, <3>2, <3>3
  <2> QED
    BY <2>1, <2>2
<1>10. z = [u EXCEPT !.scopes = Front(@), !.owned = SubSeq(@, 1, 0)]
  <2>1. /\ g.owned = left.owned /\ g.scopes = left.scopes
    <3>1. Term(left, left.cur, t).owned = left.owned /\ Term(left, left.cur, t).scopes = left.scopes
      BY DEF Term, Context
    <3> QED
      BY <3>1
  <2>2. Last(g.scopes) = 0
    <3>1. Len(left.scopes) = 1 /\ left.scopes[1] = 0
      BY DEF AtTheLast
    <3> QED
      BY <2>1, <3>1 DEF Last
  <2>3. OwnedSince(g, Last(g.scopes)) = OwnedSince(left, 0)
    BY <2>1, <2>2 DEF OwnedSince
  <2> HIDE DEF g, h
  <2>4. PopScope(g) = [PushAll(g, DropsOf(OwnedSince(g, Last(g.scopes)))) EXCEPT !.scopes = Front(@), !.owned = SubSeq(@, 1, Last(g.scopes))]
    BY DEF PopScope
  <2> QED
    BY <2>2, <2>3, <2>4 DEF drops
<1> HIDE DEF u, h, g
<1> DEFINE zz == z
<1>11. /\ zz.blocks = u.blocks /\ zz.cur = u.cur /\ zz.kinds = u.kinds /\ zz.names = u.names
       /\ zz.owned = SubSeq(u.owned, 1, 0)
  <2>1. u \in Context
    BY <1>9 DEF Keeps
  <2> HIDE DEF z
  <2> QED
    BY <1>10, <2>1 DEF Context
<1>12. Range(zz.owned) = {}
  <2>1. SubSeq(u.owned, 1, 0) = <<>>
    <3>1. u.owned \in Seq(Nat)
      BY <1>1, <1>7, <1>9 DEF Keeps
    <3>2. Firsts(Nat, u.owned, SubSeq(u.owned, 1, 0), 0)
      <4>1. 0 \in 0 .. Len(u.owned)
        BY <3>1, LenProperties
      <4> QED
        BY <3>1, <4>1, FirstsIs
    <3> QED
      BY <3>2, EmptySeq DEF Firsts
  <2> QED
    BY <1>11, <2>1 DEF Range
<1> HIDE DEF zz
<1>13. Finished(zz, E, left)
  <2>1. Stops(zz)
    BY <1>9, <1>11 DEF Stops
  <2>2. Completed(zz, E)
    BY <1>9, <1>11 DEF Completed
  <2> QED
    BY <1>7, <1>9, <1>11, <1>12, <2>1, <2>2 DEF Finished, Keeps
<1>14. FinishWith(left, values) = zz
  BY DEF FinishWith, zz, g, t
<1> QED
  BY <1>13, <1>14

\* A body that is done, with the names in scope at its end.
Body(c, e) ==
  /\ Stops(c) /\ \E E : Completed(c, E)
  /\ c.cur \in DOMAIN c.blocks /\ Range(c.owned) = {}
  /\ c.names \in [Names -> 0 .. Len(c.kinds)] /\ e \in [Names -> 0 .. Len(c.kinds)]
  /\ \A x \in Names : e[x] # 0 => c.names[x] = e[x]

\* d is c at the end of the body of the function, whose value is in X.
LEMMA BodyFits ==
  ASSUME NEW c \in Context, NEW frames, NEW e, Books(c, frames, e), frames # <<>>, Len(frames) = 1,
         NEW E, FramesFlow(c, E, frames),
         NEW d, Keeps(c, d), Len(c.kinds) <= Len(d.kinds), Len(d.blocks) = Len(c.blocks),
         NEW X, X \cap Range(c.owned) = {}, Here(d, E, Range(c.owned) \cup X, Waits(frames)),
         NEW values, values \in {<<>>} \cup {<<l>> : l \in 1 .. Len(d.kinds)}, X = Range(values)
  PROVE  Body(FinishWith(PopScope(d), values), e)
<1> DEFINE n == Len(frames)
           f == frames[n]
           p == Shut(c, f)
           left == LeftOf(d, f)
           W == Waits(frames)
<1>1. n = 1 /\ Outside(c, frames, E, p, f, n)
  BY OutsideIs
<1>2. FrameFits(f, n, Len(c.blocks)) /\ Shuts(c, p, f, n) /\ n \in Nat /\ n # 0
  BY <1>1 DEF Outside
<1>3. f.kind = "body" /\ f.exit = 0
  BY <1>1, <1>2 DEF FrameFits
<1>4. W = {}
  <2>1. frames \in Seq(FrameSet)
    BY BooksIs
  <2>2. DOMAIN frames = 1 .. 1
    BY <1>1, <2>1
  <2>3. Waiting(frames[1]) = {}
    BY <1>1, <1>3 DEF Waiting
  <2>4. \A k \in 1 .. 1 : k = 1
    OBVIOUS
  <2> QED
    BY <2>2, <2>3, <2>4 DEF Waits
<1>5. left = PopScope(d)
  BY <1>3 DEF LeftOf
<1> HIDE DEF p, f, left, W
<1>6. Turns(p, left, E, Range(p.owned) \cup X, W)
  <2>1. Turns(p, LeftOf(d, f), E, Range(p.owned) \cup X, W)
    BY <1>1, Shutting DEF p, W
  <2> QED
    BY <2>1 DEF left
<1>7. Scoped(c, n)
  BY BooksIs
<1>8. Scoped(p, n - 1)
  BY <1>2, <1>7, ShutScoped
<1>9. /\ Len(p.scopes) = 1 /\ p.scopes[1] = 0 /\ Range(p.owned) \subseteq 1 .. Len(p.kinds)
      /\ \A i, j \in 1 .. Len(p.owned) : i # j => p.owned[i] # p.owned[j]
  BY <1>1, <1>8 DEF Scoped
<1>10. left \in Context /\ left.owned = p.owned /\ left.scopes = p.scopes /\ left.names = p.names
  BY <1>6 DEF Turns, Keeps
<1>11. Range(p.owned) \subseteq Range(c.owned)
  BY <1>2, <1>7, <1>1, ShutAround, ScopeIs
<1>12. left.kinds = d.kinds
  <2>1. PopScope(d).kinds = d.kinds
    <3>1. d \in Context
      BY DEF Keeps
    <3> QED
      BY <3>1 DEF PopScope, PushAll, Context
  <2> QED
    BY <1>5, <2>1
<1>13. AtTheLast(left, E, X, values)
  <2>1. Here(left, E, Range(left.owned) \cup X, {})
    BY <1>4, <1>6, <1>10 DEF Turns
  <2>2. X \cap Range(left.owned) = {}
    BY <1>10, <1>11
  <2> QED
    BY <1>9, <1>10, <1>12, <2>1, <2>2 DEF AtTheLast
<1>14. Finished(FinishWith(left, values), E, left)
  BY <1>10, <1>13, FinishFits
<1> DEFINE z == FinishWith(left, values)
<1> HIDE DEF z
<1>15. Finished(z, E, left)
  BY <1>14 DEF z
<1>16. /\ c.names \in [Names -> 0 .. Len(c.kinds)] /\ e \in [Names -> 0 .. Len(c.kinds)]
       /\ \A x \in Names : e[x] # 0 => c.names[x] = e[x]
  BY BooksIs DEF Named
<1>17. z.names = c.names /\ z.kinds = d.kinds
  BY <1>2, <1>10, <1>12, <1>15 DEF Finished, Shuts
<1>18. Len(c.kinds) \in Nat /\ Len(d.kinds) \in Nat
  BY ContextIs DEF Keeps
<1>19. 0 .. Len(c.kinds) \subseteq 0 .. Len(d.kinds)
  BY <1>18
<1>20. z.names \in [Names -> 0 .. Len(z.kinds)] /\ e \in [Names -> 0 .. Len(z.kinds)]
  BY <1>16, <1>17, <1>19
<1>21. Body(z, e)
  BY <1>15, <1>16, <1>17, <1>20 DEF Body, Finished
<1> QED
  BY <1>5, <1>21 DEF z

\* The function ends without a value.
LEMMA FinishUnitLowered ==
  ASSUME NEW c, NEW frames, NEW e, Lowered(c, frames, e), frames # <<>>, Len(frames) = 1
  PROVE  Body(FinishWith(PopScope(c), <<>>), e)
<1> DEFINE X == {}
           values == <<>>
           S == Range(c.owned)
<1>1. PICK E : /\ Here(c, E, S, Waits(frames)) /\ FramesFlow(c, E, frames)
               /\ Books(c, frames, e) /\ c \in Context
  BY LoweredIs
<1>2. Keeps(c, c) /\ Len(c.kinds) <= Len(c.kinds)
  BY <1>1, ContextIs DEF Keeps
<1>3. X \cap S = {} /\ X = Range(values) /\ S \cup X = S
  BY DEF Range
<1>4. values \in {<<>>} \cup {<<l>> : l \in 1 .. Len(c.kinds)}
  OBVIOUS
<1> HIDE DEF X, values, S
<1>5. Here(c, E, S \cup X, Waits(frames))
  BY <1>1, <1>3
<1>6. Body(FinishWith(PopScope(c), values), e)
  BY <1>1, <1>2, <1>3, <1>4, <1>5, BodyFits DEF S
<1> QED
  BY <1>6 DEF values

\* The function ends with the value of a name, which moves into a result.
LEMMA FinishTailLowered ==
  ASSUME NEW c, NEW frames, NEW e, Lowered(c, frames, e), frames # <<>>, Len(frames) = 1,
         NEW v \in Range(c.owned), c.kinds[v] = "string", NEW l, l = Len(c.kinds) + 1,
         NEW d, d = PushAll(AllocLocal(c, "string"), <<Move(l, v)>>)
  PROVE  Body(FinishWith(PopScope(d), <<l>>), e)
<1> DEFINE X == {l}
           values == <<l>>
           S == Range(c.owned)
           W == Waits(frames)
<1>1. PICK E : /\ Here(c, E, S, W) /\ FramesFlow(c, E, frames)
               /\ Books(c, frames, e) /\ c \in Context
  BY LoweredIs
<1>2. /\ Len(c.kinds) \in Nat /\ S \subseteq 1 .. Len(c.kinds) /\ l \notin S /\ l \in Nat /\ Len(c.kinds) <= l
  BY <1>1, HereIs
<1>3. Becomes(c, d, Append(c.kinds, "string"), E, S \cup {l}, W)
  BY <1>1, HereTail
<1>4. /\ Here(d, E, S \cup X, W) /\ Keeps(c, d) /\ Len(d.blocks) = Len(c.blocks) /\ Len(d.kinds) = l
  <2>1. Len(Append(c.kinds, "string")) = l
    BY <1>1, GrownIs
  <2> QED
    BY <1>3, <2>1 DEF Becomes, Same
<1>5. X \cap S = {} /\ X = Range(values)
  BY <1>2 DEF Range
<1>6. values \in {<<>>} \cup {<<k>> : k \in 1 .. Len(d.kinds)}
  BY <1>2, <1>4
<1>7. Len(c.kinds) <= Len(d.kinds)
  BY <1>2, <1>4
<1> HIDE DEF X, values, S, W
<1>8. Body(FinishWith(PopScope(d), values), e)
  BY <1>1, <1>4, <1>5, <1>6, <1>7, BodyFits DEF S, W
<1> QED
  BY <1>8 DEF values

-----------------------------------------------------------------------------
(* The first context *)

\* The context of a body with one parameter, p.
Base(p) ==
  [blocks |-> <<Empty>>, cur |-> 1, kinds |-> <<"string">>, owned |-> <<1>>, scopes |-> <<0, 1>>,
   loops |-> <<>>, names |-> [x \in Names |-> IF x = p THEN 1 ELSE 0]]

\* The outermost construct is the body.
BodyFrame == [kind |-> "body", exit |-> 0, next |-> 0, env |-> [x \in Names |-> 0]]

\* One element appended to none.
LEMMA AppendFirst ==
  ASSUME NEW e \in Nat
  PROVE  Append(<<>>, e) = <<e>>
<1> DEFINE t == Append(<<>>, e)
<1>1. <<>> \in Seq(Nat) /\ Len(<<>>) = 0 /\ <<e>> \in Seq(Nat) /\ Len(<<e>>) = 1 /\ <<e>>[1] = e
  BY EmptySeq
<1>2. t \in Seq(Nat) /\ Len(t) = Len(<<>>) + 1 /\ t[Len(<<>>) + 1] = e
  BY <1>1, AppendIs
<1>3. Len(t) = 1 /\ t[1] = e
  BY <1>1, <1>2
<1> HIDE DEF t
<1>4. \A i \in 1 .. 1 : t[i] = <<e>>[i]
  BY <1>1, <1>3
<1>5. t = <<e>>
  BY <1>1, <1>2, <1>3, <1>4, SeqEqual
<1> QED
  BY <1>5 DEF t

\* One element appended to one.
LEMMA AppendTwo ==
  ASSUME NEW S, NEW a \in S, NEW e \in S
  PROVE  Append(<<a>>, e) = <<a, e>>
<1> DEFINE t == Append(<<a>>, e)
           u == <<a, e>>
<1>1. <<a>> \in Seq(S) /\ Len(<<a>>) = 1 /\ <<a>>[1] = a /\ u \in Seq(S) /\ Len(u) = 2 /\ u[1] = a /\ u[2] = e
  OBVIOUS
<1>2. t \in Seq(S) /\ Len(t) = Len(<<a>>) + 1 /\ t[Len(<<a>>) + 1] = e
      /\ \A i \in 1 .. Len(<<a>>) : t[i] = <<a>>[i]
  BY <1>1, AppendIs
<1> HIDE DEF t, u
<1>3. Len(t) = 2 /\ t[2] = e /\ t[1] = a
  BY <1>1, <1>2
<1>4. \A i \in 1 .. 2 : t[i] = u[i]
  BY <1>1, <1>3
<1>5. t = u
  BY <1>1, <1>2, <1>3, <1>4, SeqEqual
<1> QED
  BY <1>5 DEF t, u

\* What the first context of a body comes to.
LEMMA BaseIs ==
  ASSUME NEW p \in Names
  PROVE  PushScope(PushOwned(PushScope(
           [blocks |-> <<[stmts |-> <<>>, term |-> Placeholder]>>, cur |-> Entry,
            kinds |-> <<"string">>, owned |-> <<>>, scopes |-> <<>>, loops |-> <<>>,
            names |-> [[x \in Names |-> NoLocal] EXCEPT ![p] = 1]]), 1)) = Base(p)
<1> DEFINE names == [[x \in Names |-> NoLocal] EXCEPT ![p] = 1]
           a == [blocks |-> <<Empty>>, cur |-> 1, kinds |-> <<"string">>, owned |-> <<>>, scopes |-> <<>>,
                 loops |-> <<>>, names |-> names]
<1>1. names = [x \in Names |-> IF x = p THEN 1 ELSE 0]
  BY DEF NoLocal
<1>2. Append(<<>>, 0) = <<0>> /\ Append(<<>>, 1) = <<1>> /\ Append(<<0>>, 1) = <<0, 1>>
  <2>1. 0 \in Nat /\ 1 \in Nat
    OBVIOUS
  <2> QED
    BY <2>1, AppendFirst, AppendTwo
<1>6. Len(<<>>) = 0 /\ Len(<<1>>) = 1
  OBVIOUS
<1>3. ~ Contains(<<>>, 1)
  BY DEF Contains
<1>4. PushScope(a) = [a EXCEPT !.scopes = <<0>>]
  BY <1>2 DEF PushScope
<1> HIDE DEF names
<1> DEFINE b == PushScope(a)
           d == PushOwned(b, 1)
<1>7. b = [blocks |-> <<Empty>>, cur |-> 1, kinds |-> <<"string">>, owned |-> <<>>, scopes |-> <<0>>,
           loops |-> <<>>, names |-> names]
  BY <1>4
<1> HIDE DEF b, a
<1>8. d = [b EXCEPT !.owned = <<1>>]
  BY <1>2, <1>3, <1>7 DEF PushOwned
<1>9. d = [blocks |-> <<Empty>>, cur |-> 1, kinds |-> <<"string">>, owned |-> <<1>>, scopes |-> <<0>>,
           loops |-> <<>>, names |-> names]
  BY <1>7, <1>8
<1> HIDE DEF d
<1>10. PushScope(d) = [d EXCEPT !.scopes = <<0, 1>>]
  BY <1>2, <1>6, <1>9 DEF PushScope
<1>5. PushScope(d) = Base(p)
  BY <1>1, <1>9, <1>10 DEF Base
<1> QED
  BY <1>5 DEF Empty, Entry, names, a, b, d

\* The fields of the first context.
LEMMA BaseFields ==
  ASSUME NEW p \in Names, NEW c, c = Base(p)
  PROVE  /\ c.blocks = <<Empty>> /\ c.cur = 1 /\ c.kinds = <<"string">> /\ c.owned = <<1>> /\ c.scopes = <<0, 1>>
         /\ c.loops = <<>> /\ c.names = [x \in Names |-> IF x = p THEN 1 ELSE 0]
BY DEF Base

\* The first context is one.
LEMMA BaseContext ==
  ASSUME NEW p \in Names, NEW c, c = Base(p)
  PROVE  c \in Context
<1>1. Empty \in MirBlock
  <2>1. Placeholder \in Terminator(Nat, Nat) /\ <<>> \in Seq(Statement(Nat))
    BY PlaceholderIs, EmptySeq
  <2> QED
    BY <2>1 DEF Empty, MirBlock
<1>2. <<Empty>> \in Seq(MirBlock)
  <2> HIDE DEF Empty
  <2> QED
    BY <1>1
<1>3. <<"string">> \in Seq({"string", "record"}) /\ <<1>> \in Seq(Nat) /\ <<0, 1>> \in Seq(Nat)
  OBVIOUS
<1>4. <<>> \in Seq([break : Nat, continue : Nat, drop : Nat])
  BY EmptySeq
<1>5. [x \in Names |-> IF x = p THEN 1 ELSE 0] \in [Names -> Nat]
  OBVIOUS
<1> QED
  BY <1>2, <1>3, <1>4, <1>5 DEF Base, Context

\* The first context, at the start of the entry, where the parameter is held.
LEMMA BaseHere ==
  ASSUME NEW p \in Names, NEW c, c = Base(p), NEW E, E = [b \in Nat |-> Holding({1})]
  PROVE  Here(c, E, {1}, {})
<1>1. /\ c.blocks = <<Empty>> /\ c.cur = 1 /\ c.kinds = <<"string">> /\ c \in Context
  BY BaseFields, BaseContext
<1>2. DOMAIN c.blocks = {1} /\ c.blocks[1] = Empty /\ Len(c.kinds) = 1 /\ c.kinds # <<>>
  <2>1. Len(c.kinds) = 1
    BY <1>1
  <2>2. c.kinds # <<>>
    <3>1. SUFFICES ASSUME c.kinds = <<>> PROVE FALSE
      OBVIOUS
    <3>2. Len(<<>>) = 0
      OBVIOUS
    <3>3. Len(c.kinds) = Len(<<>>)
      BY <3>1, Zenon
    <3> QED
      BY <2>1, <3>2, <3>3
  <2>3. c.blocks[1] = Empty /\ DOMAIN c.blocks = {1}
    <3> HIDE DEF Empty
    <3>1. \A i \in 1 .. 1 : i = 1
      OBVIOUS
    <3> QED
      BY <1>1, <3>1
  <2> QED
    BY <2>1, <2>2, <2>3
<1> DEFINE st == Holding({1})
<1>3. st \in Knowledge
  BY HoldingIs
<1> HIDE DEF st
<1>4. E \in [Nat -> Knowledge] /\ E[1] = st
  BY <1>3 DEF st
<1>5. Flowing(c.kinds, c.blocks, E, 1)
  BY <1>2, <1>3, <1>4, EmptyFlows
<1>6. Weaker(st, st)
  BY <1>3, WeakerIs
<1>7. Empty.stmts = <<>> /\ Empty.term = Placeholder
  BY DEF Empty
<1>8. \A kept \in SUBSET {1} : Walk(c.kinds, kept, c.blocks[c.cur].stmts, E[c.cur], st)
  BY <1>1, <1>2, <1>3, <1>4, <1>6, <1>7, WalkNone
<1>9. Graph(c, E, st, {}, {1})
  BY <1>1, <1>2, <1>3, <1>4, <1>5, <1>6, <1>7, <1>8 DEF Graph, Entry, st
<1>10. {1} \subseteq 1 .. Len(c.kinds)
  BY <1>2
<1> QED
  BY <1>9, <1>10 DEF Here, st

\* The books of the first context are those of one construct, the body.
LEMMA BaseBooks ==
  ASSUME NEW p \in Names, NEW c, c = Base(p), NEW frames, frames = <<BodyFrame>>, NEW e, e = c.names
  PROVE  Books(c, frames, e) /\ Range(c.owned) = {1} /\ Waits(frames) = {}
<1>1. /\ c.blocks = <<Empty>> /\ c.cur = 1 /\ c.kinds = <<"string">> /\ c.owned = <<1>> /\ c.scopes = <<0, 1>>
      /\ c.loops = <<>> /\ c.names = [x \in Names |-> IF x = p THEN 1 ELSE 0] /\ c \in Context
  BY BaseFields, BaseContext
<1>2. Range(c.owned) = {1} /\ Len(c.owned) = 1 /\ Len(c.kinds) = 1 /\ Len(c.scopes) = 2 /\ Len(c.loops) = 0
      /\ c.scopes[1] = 0 /\ c.scopes[2] = 1 /\ c.owned[1] = 1
  BY <1>1 DEF Range
<1> DEFINE f == BodyFrame
<1>3. f \in FrameSet /\ f.kind = "body" /\ f.exit = 0 /\ \A x \in Names : f.env[x] = 0
  BY DEF BodyFrame, FrameSet
<1> HIDE DEF f
<1>4. frames \in Seq(FrameSet) /\ Len(frames) = 1 /\ frames[1] = f /\ DOMAIN frames = 1 .. 1
  BY <1>3 DEF f
<1>5. \A k \in 1 .. 1 : k = 1
  OBVIOUS
<1>6. Scoped(c, 1)
  <2>1. \A i, j \in 1 .. 1 + 1 : i <= j => c.scopes[i] <= c.scopes[j]
    <3>1. \A i \in 1 .. 1 + 1 : i = 1 \/ i = 2
      OBVIOUS
    <3> QED
      BY <1>2, <3>1
  <2> QED
    BY <1>2, <1>5, <2>1 DEF Scoped
<1>7. Framed(frames, Len(c.blocks))
  <2>1. FrameFits(f, 1, Len(c.blocks))
    BY <1>3 DEF FrameFits
  <2> QED
    BY <1>4, <1>5, <2>1 DEF Framed
<1>8. Looped(c, frames)
  <2> DEFINE w == [j \in 1 .. 0 |-> 1]
  <2>1. 1 .. Len(c.loops) = {} /\ w \in [1 .. Len(c.loops) -> 1 .. Len(frames)]
    BY <1>2, <1>4
  <2>2. \A k \in 1 .. Len(frames) : frames[k].kind # "loop"
    BY <1>3, <1>4, <1>5
  <2> HIDE DEF w
  <2> QED
    BY <2>1, <2>2 DEF Looped
<1>9. Named(c, frames, e)
  <2>1. e \in [Names -> 0 .. 1] /\ \A x \in Names : e[x] # 0 => x = p /\ e[x] = 1
    BY <1>1
  <2>2. \A k \in 1 .. Len(frames) : \A x \in Names : frames[k].env[x] = 0
    BY <1>3, <1>4, <1>5
  <2> QED
    BY <1>2, <2>1, <2>2 DEF Named
<1>10. Waits(frames) = {}
  BY <1>3, <1>4, <1>5 DEF Waits, Waiting
<1>11. Books(c, frames, e)
  BY <1>4, <1>6, <1>7, <1>8, <1>9 DEF Books
<1> QED
  BY <1>2, <1>10, <1>11

\* The body of the function is about to be lowered.
LEMMA BaseLowered ==
  ASSUME NEW p \in Names, NEW c, c = Base(p), NEW frames, frames = <<BodyFrame>>, NEW e, e = c.names
  PROVE  Lowered(c, frames, e) /\ frames # <<>> /\ Len(c.blocks) = 1
<1> DEFINE E == [b \in Nat |-> Holding({1})]
<1>1. Here(c, E, {1}, {})
  BY BaseHere
<1>2. Books(c, frames, e) /\ Range(c.owned) = {1} /\ Waits(frames) = {}
  BY BaseBooks
<1>3. FramesFlow(c, E, frames)
  <2>1. frames[1] = BodyFrame /\ Len(frames) = 1 /\ BodyFrame.exit = 0
    BY DEF BodyFrame
  <2>2. \A k \in 1 .. 1 : k = 1
    OBVIOUS
  <2> HIDE DEF E
  <2> QED
    BY <2>1, <2>2 DEF FramesFlow, FrameFlows
<1> HIDE DEF E
<1>4. Here(c, E, Range(c.owned), Waits(frames))
  BY <1>1, <1>2
<1>5. Flow(c, frames, E)
  BY <1>3, <1>4 DEF Flow
<1>6. Lowered(c, frames, e)
  BY <1>2, <1>5 DEF Lowered
<1>7. Len(c.blocks) = 1
  <2>1. c.blocks = <<Empty>>
    BY BaseFields
  <2> QED
    BY <2>1
<1>8. frames # <<>>
  <2>1. Len(frames) = 1
    OBVIOUS
  <2> QED
    BY <2>1, EmptySeq
<1> QED
  BY <1>6, <1>7, <1>8

-----------------------------------------------------------------------------
(* Names *)

\* Where a name may be bound, no construct that is open will uncover another
\* binding of it.
LEMMA MayBindIs ==
  ASSUME Forms = {}, NEW frames, frames = open, frames # <<>>, NEW c, NEW e, e = env, Books(c, frames, e),
         NEW x \in Names, MayBind(x)
  PROVE  \A k \in 1 .. Len(frames) : frames[k].env[x] = 0
<1> DEFINE n == Len(frames)
<1>1. n \in Nat /\ frames \in Seq(FrameSet) /\ Named(c, frames, e)
  BY BooksIs
<1>2. n \in 1 .. n
  BY <1>1, EmptySeq
<1>3. e[x] = 0 \/ e[x] # frames[n].env[x]
  BY DEF MayBind, Outer, Last, NoLocal
<1> HIDE DEF n
<1>4. SUFFICES ASSUME NEW k \in 1 .. n, frames[k].env[x] # 0 PROVE FALSE
  BY DEF n
<1>5. e[x] = frames[k].env[x] /\ \A j \in 1 .. n : j >= k => frames[j].env[x] = e[x]
  BY <1>1, <1>4 DEF Named, n
<1>6. n >= k
  BY <1>2, <1>4
<1>7. frames[n].env[x] = e[x]
  BY <1>2, <1>5, <1>6
<1> QED
  BY <1>3, <1>4, <1>5, <1>7

\* The local a name in scope denotes.
LEMMA Denotes ==
  ASSUME NEW frames, NEW c, c = ctx, NEW e, e = env, Lowered(c, frames, e), NEW y \in Names, y \in Known
  PROVE  /\ c.names[y] = e[y] /\ c.names[y] \in Range(c.owned) /\ c.kinds[c.names[y]] \in {"string", "record"}
         /\ c \in Context
<1>1. Books(c, frames, e) /\ c \in Context
  BY LoweredIs
<1>2. e[y] # 0
  BY DEF Known, NoLocal
<1> QED
  BY <1>1, <1>2, KnownIs

-----------------------------------------------------------------------------
(* Steps *)

\* A body that is being lowered.
Going == open # <<>> /\ Lowered(ctx, open, env)

\* What a construct of the source leaves.
LEMMA EmitGoes ==
  ASSUME Going, NEW c, Emit(c), Lowered(c, open, env)
  PROVE  Going'
BY DEF Going, Emit

\* A let keeps the body well lowered.
LEMMA LetGoes ==
  ASSUME Going, NEW c, NEW x \in Names, NEW l, EmitLet(x, c, l), Lowered(Bind(c, x, l), open, Put(env, x, l))
  PROVE  Going'
<1>1. env' = Put(env, x, l) /\ open' = open /\ ctx' = Bind(c, x, l)
  BY DEF EmitLet, Put
<1> QED
  BY <1>1 DEF Going

\* Opening a construct keeps the body well lowered.
LEMMA EnterGoes ==
  ASSUME Going, NEW f, NEW c, Enter(f, c), Lowered(c, Append(open, f), env)
  PROVE  Going'
<1>1. open' = Append(open, f) /\ ctx' = c /\ env' = env
  BY DEF Enter
<1>2. Append(open, f) # <<>>
  <2>1. open' = Append(open, f) /\ Lowered(c, open', env) 
    BY <1>1
  <2>2. Books(ctx, open, env)
    BY LoweredIs DEF Going
  <2>3. open \in Seq(FrameSet)
    BY <2>2, BooksIs
  <2>4. Books(c, Append(open, f), env)
    BY LoweredIs
  <2>5. Append(open, f) \in Seq(FrameSet)
    BY <2>4, BooksIs
  <2>6. Len(Append(open, f)) = Len(open) + 1 /\ Len(open) \in Nat
    BY <2>3
  <2> QED
    BY <2>5, <2>6, EmptySeq
<1> QED
  BY <1>1, <1>2 DEF Going

\* The innermost construct.
LEMMA OuterIs ==
  ASSUME Going
  PROVE  Outer = open[Len(open)] /\ Outer \in FrameSet /\ FrameFits(Outer, Len(open), Len(ctx.blocks)) /\ Len(open) \in Nat
<1>1. Books(ctx, open, env)
  BY LoweredIs DEF Going
<1>2. open \in Seq(FrameSet) /\ open # <<>>
  BY <1>1, BooksIs DEF Going
<1>3. Outer = open[Len(open)]
  BY DEF Outer, Last
<1>4. Len(open) \in Nat /\ Len(open) \in 1 .. Len(open)
  BY <1>2, EmptySeq
<1>5. Framed(open, Len(ctx.blocks))
  BY <1>1, BooksIs
<1>6. Outer \in FrameSet
  BY <1>2, <1>3, <1>4
<1>7. FrameFits(Outer, Len(open), Len(ctx.blocks))
  BY <1>3, <1>4, <1>5 DEF Framed
<1> QED
  BY <1>3, <1>4, <1>6, <1>7

\* Only the body of the function is around nothing.
LEMMA FrontGoes ==
  ASSUME Going, Outer.kind # "body"
  PROVE  Front(open) # <<>> /\ Front(open) \in Seq(FrameSet)
<1>1. Books(ctx, open, env)
  BY LoweredIs DEF Going
<1>2. open \in Seq(FrameSet) /\ open # <<>>
  BY <1>1, BooksIs DEF Going
<1> DEFINE t == Front(open)
           n == Len(open)
<1>3. t \in Seq(FrameSet) /\ Len(t) = n - 1 /\ n \in Nat
  BY <1>2, FrontIs DEF Fronts
<1>4. n # 1
  BY OuterIs DEF FrameFits
<1>5. n # 0
  BY <1>2, EmptySeq
<1> HIDE DEF t, n
<1>6. Len(t) # 0
  BY <1>3, <1>4, <1>5
<1>7. t # <<>>
  BY <1>6, EmptySeq
<1> QED
  BY <1>3, <1>7 DEF t

\* The end of a block, of the last arm of an `if' or of a loop's body.
LEMMA CloseGoes ==
  ASSUME Going, Close
  PROVE  Going'
<1> DEFINE f == Outer
           left == LeftOf(ctx, f)
           q == IF f.exit = 0 THEN left ELSE At(Term(left, left.cur, Goto(f.exit)), f.next)
<1>1. /\ f.kind \in {"block", "loop"} /\ open' = Front(open) /\ env' = f.env /\ ctx' = q
  BY DEF Close, Leave, LeftOf
<1>2. f = open[Len(open)]
  BY OuterIs
<1>3. Front(open) # <<>>
  BY <1>1, FrontGoes
<1> HIDE DEF f
<1>4. Lowered(q, Front(open), f.env)
  BY <1>1, <1>2, CloseLowered DEF Going
<1> HIDE DEF q
<1> QED
  BY <1>1, <1>3, <1>4 DEF Going

\* The end of the first arm of an `if' with an `else'.
LEMMA CloseThenGoes ==
  ASSUME Going, CloseThen
  PROVE  Going'
<1> DEFINE f == Outer
           left == LeftOf(ctx, f)
           q == At(Term(left, left.cur, Goto(f.exit)), f.next)
           g == [f EXCEPT !.kind = "block", !.next = f.exit]
<1>1. /\ f.kind = "then" /\ open' = Append(Front(open), g) /\ env' = f.env /\ ctx' = PushScope(q)
  <2>1. f.kind = "then" /\ open' = Append(Front(open), g) /\ env' = f.env
    BY DEF CloseThen
  <2>2. left = PopScope(ctx)
    BY <2>1 DEF LeftOf
  <2>3. ctx' = PushScope(q)
    BY <2>2 DEF CloseThen
  <2> QED
    BY <2>1, <2>3
<1>2. f = open[Len(open)] /\ f \in FrameSet
  BY OuterIs
<1>3. Front(open) # <<>> /\ Front(open) \in Seq(FrameSet)
  BY <1>1, FrontGoes
<1>4. g \in FrameSet
  <2>1. f.exit \in Nat
    BY <1>2 DEF FrameSet
  <2> QED
    BY <1>2, <2>1 DEF FrameSet
<1> HIDE DEF f
<1>5. Lowered(PushScope(q), Append(Front(open), g), f.env)
  BY <1>1, <1>2, CloseThenLowered DEF Going
<1> HIDE DEF q, g
<1> DEFINE t == Front(open)
<1>6. Append(t, g) # <<>>
  <2> HIDE DEF t
  <2>1. t \in Seq(FrameSet)
    BY <1>3 DEF t
  <2>2. Append(t, g) \in Seq(FrameSet) /\ Len(Append(t, g)) = Len(t) + 1 /\ Len(t) \in Nat
    BY <1>4, <2>1, AppendIs
  <2> QED
    BY <2>2, EmptySeq
<1> QED
  BY <1>1, <1>5, <1>6 DEF Going

\* The value of a block is bound.
LEMMA CloseInitGoes ==
  ASSUME Forms = {}, Going, NEW x \in Names, NEW y \in Names, CloseInit(x, y)
  PROVE  Going'
<1> DEFINE f == Outer
           v == ctx.names[y]
           l == Len(ctx.kinds) + 1
           d == PushAll(AllocLocal(ctx, "string"), <<Move(l, v)>>)
<1>1. /\ f.kind = "init" /\ y \in Known /\ ctx.kinds[v] # "record" /\ f.env[x] = 0
      /\ open' = Front(open) /\ env' = Put(f.env, x, l)
  BY DEF CloseInit, MayEndWith, NoLocal, NextLocal, Put
<1>2. v \in Range(ctx.owned) /\ ctx.kinds[v] \in {"string", "record"}
  BY <1>1, Denotes DEF Going
<1>3. ctx.kinds[v] = "string"
  BY <1>1, <1>2
<1>4. TailResult(ctx, y) = d
  BY <1>3 DEF TailResult, NextLocal
<1>5. ctx' = Bind(PopScope(d), x, l)
  BY <1>4 DEF CloseInit, NextLocal
<1>6. f = open[Len(open)]
  BY OuterIs
<1>7. Front(open) # <<>>
  BY <1>1, FrontGoes
<1> HIDE DEF f, v
<1>8. Lowered(Bind(PopScope(d), x, l), Front(open), Put(f.env, x, l))
  BY <1>1, <1>2, <1>3, <1>6, CloseInitLowered DEF Going
<1> HIDE DEF d, l
<1> QED
  BY <1>1, <1>5, <1>7, <1>8 DEF Going

-----------------------------------------------------------------------------
(* Bindings, assignments and calls *)

\* A binding to a literal.
LEMMA LetLiteralGoes ==
  ASSUME Forms = {}, Going, NEW x \in Names, NEW kind \in {"string", "record"}, LetLiteral(x, kind)
  PROVE  Going'
<1> DEFINE l == Len(ctx.kinds) + 1
           d == PushAll(AllocLocal(ctx, kind), <<Literal(l)>>)
<1>1. EmitLet(x, d, l) /\ MayBind(x)
  BY DEF LetLiteral, NextLocal, EmitLet
<1>2. \A k \in 1 .. Len(open) : open[k].env[x] = 0
  BY <1>1, MayBindIs, LoweredIs DEF Going
<1>3. Lowered(Bind(d, x, l), open, Put(env, x, l))
  BY <1>2, LetLiteralLowered DEF Going
<1> HIDE DEF d, l
<1> QED
  BY <1>1, <1>3, LetGoes

\* A binding to a name.
LEMMA LetMoveGoes ==
  ASSUME Forms = {}, Going, NEW x \in Names, NEW y \in Names, LetMove(x, y)
  PROVE  Going'
<1> DEFINE v == ctx.names[y]
           kind == ctx.kinds[v]
           l == Len(ctx.kinds) + 1
           d == PushAll(AllocLocal(ctx, kind), <<Move(l, v), Deinit(v)>>)
<1>1. EmitLet(x, d, l) /\ MayBind(x) /\ y \in Known
  BY DEF LetMove, NextLocal, EmitLet
<1>2. \A k \in 1 .. Len(open) : open[k].env[x] = 0
  BY <1>1, MayBindIs, LoweredIs DEF Going
<1>3. v \in Range(ctx.owned) /\ kind \in {"string", "record"}
  BY <1>1, Denotes DEF Going
<1>4. Lowered(Bind(d, x, l), open, Put(env, x, l))
  <2> HIDE DEF v
  <2>1. kind = ctx.kinds[v]
    OBVIOUS
  <2> HIDE DEF kind
  <2> QED
    BY <1>2, <1>3, <2>1, LetMoveLowered DEF Going
<1> HIDE DEF d, l
<1> QED
  BY <1>1, <1>4, LetGoes

\* An assignment of a literal.
LEMMA AssignLiteralGoes ==
  ASSUME Going, NEW x \in Names, AssignLiteral(x)
  PROVE  Going'
<1> DEFINE v == ctx.names[x]
           kind == ctx.kinds[v]
           l == Len(ctx.kinds) + 1
           d == PushAll(AllocLocal(ctx, kind), <<Literal(l), Move(v, l), Deinit(l)>>)
<1>1. Emit(d) /\ x \in Known
  BY DEF AssignLiteral, NextLocal
<1>2. v \in Range(ctx.owned) /\ kind \in {"string", "record"}
  BY <1>1, Denotes DEF Going
<1>3. Lowered(d, open, env)
  <2> HIDE DEF v, kind
  <2> QED
    BY <1>2, AssignLiteralLowered DEF Going
<1> HIDE DEF d
<1> QED
  BY <1>1, <1>3, EmitGoes

\* An assignment of one name to another: they denote different locals.
LEMMA AssignNameGoes ==
  ASSUME Forms = {}, Going, NEW x \in Names, NEW y \in Names, AssignName(x, y)
  PROVE  Going'
<1> DEFINE o == ctx.names[x]
           v == ctx.names[y]
           d == PushAll(ctx, <<Move(o, v)>> \o <<Deinit(v)>>)
<1>1. x \in Known /\ y \in Known /\ x # y
  BY DEF AssignName
<1>2. o \in Range(ctx.owned) /\ v \in Range(ctx.owned) /\ o = env[x] /\ v = env[y]
  BY <1>1, Denotes DEF Going
<1>3. o # v
  <2>1. Named(ctx, open, env)
    BY LoweredIs, BooksIs DEF Going
  <2>2. env[x] # 0
    BY <1>1 DEF Known, NoLocal
  <2> QED
    BY <1>1, <1>2, <2>1, <2>2 DEF Named
<1>4. Emit(d)
  BY <1>3 DEF AssignName
<1>5. Lowered(d, open, env)
  <2> HIDE DEF o, v
  <2> QED
    BY <1>2, <1>3, AssignNameLowered DEF Going
<1> HIDE DEF d
<1> QED
  BY <1>4, <1>5, EmitGoes

\* A call that reads a literal.
LEMMA UseLiteralGoes ==
  ASSUME Going, UseLiteral
  PROVE  Going'
<1> DEFINE d == ReadLiteral(ctx, NextLocal(ctx))
<1>1. Emit(d) /\ Lowered(d, open, env)
  BY UseLiteralLowered DEF UseLiteral, Going
<1> HIDE DEF d
<1> QED
  BY <1>1, EmitGoes

\* A call that reads a name.
LEMMA UseNameGoes ==
  ASSUME Going, NEW y \in Names, UseName(y)
  PROVE  Going'
<1> DEFINE v == ctx.names[y]
           d == PushOwned(PushAll(ctx, <<Read(v)>>), v)
<1>1. Emit(d) /\ y \in Known
  BY DEF UseName
<1>2. v \in Range(ctx.owned)
  BY <1>1, Denotes DEF Going
<1>3. Lowered(d, open, env)
  <2> HIDE DEF v
  <2> QED
    BY <1>2, UseNameLowered DEF Going
<1> HIDE DEF d
<1> QED
  BY <1>1, <1>3, EmitGoes

\* A call that takes its argument.
LEMMA ConsumeGoes ==
  ASSUME Going, NEW y \in Names, Consume(y)
  PROVE  Going'
<1> DEFINE v == ctx.names[y]
           b == Len(ctx.blocks) + 1
           d == PushAll(At(AllocBb(Term(ctx, ctx.cur, CallOwned(v, b))), b), <<Deinit(v)>>)
<1>1. Emit(d) /\ y \in Known
  BY DEF Consume, NextBb
<1>2. v \in Range(ctx.owned)
  BY <1>1, Denotes DEF Going
<1>3. Lowered(d, open, env)
  <2> HIDE DEF v
  <2> QED
    BY <1>2, ConsumeLowered DEF Going
<1> HIDE DEF d
<1> QED
  BY <1>1, <1>3, EmitGoes

\* A nullable call with a default.
LEMMA LetElvisGoes ==
  ASSUME Forms = {}, Going, NEW x \in Names, NEW withCall \in BOOLEAN, LetElvis(x, withCall)
  PROVE  Going'
<1> DEFINE o == Len(ctx.kinds) + 1
           f == Len(ctx.kinds) + 2
           r == Len(ctx.kinds) + 3
           a == Len(ctx.blocks) + 1
           b == Len(ctx.blocks) + 2
           p == Len(ctx.blocks) + 3
           g == Len(ctx.blocks) + 4
           asked == Term(AllocLocal(ctx, "string"), ctx.cur, CallNullable(o, a))
           tested == At(Term(AllocBbs(asked, 4), a, NullTest(o, b, p)), b)
           filled == PushAll(AllocLocal(AllocLocal(tested, "string"), "string"), <<Literal(f), Move(r, f)>>)
           absent == Term(filled, b, Goto(g))
           both == Term(PushAll(At(absent, p), <<Move(r, o)>>), p, Goto(g))
<1>0. ctx \in Context /\ Books(ctx, open, env)
  BY LoweredIs DEF Going
<1>1. Len(ctx.kinds) \in Nat /\ Len(ctx.blocks) \in Nat
  BY <1>0, ContextIs
<1>2. Numbered(ctx, o, f, r, a, b, p, g)
  BY DEF Numbered
<1>3. EmitLet(x, At(both, g), r) /\ MayBind(x)
  <2>1. withCall = FALSE
    BY DEF LetElvis
  <2>2. a + 1 = b /\ a + 2 = p /\ a + 3 = g /\ f + 1 = r
    BY <1>1
  <2>3. NextLocal(tested) = f
    <3>1. tested.kinds = Append(ctx.kinds, "string")
      <4>1. asked.kinds = Append(ctx.kinds, "string") /\ DOMAIN asked = DOMAIN ctx
        BY <1>0 DEF Term, AllocLocal, Context
      <4> HIDE DEF asked
      <4> QED
        BY <1>0, <4>1 DEF Context, Term, At, AllocBbs
    <3>2. ctx.kinds \in Seq({"string", "record"})
      BY <1>0, ContextIs
    <3>3. Len(tested.kinds) = Len(ctx.kinds) + 1
      <4> HIDE DEF tested
      <4> QED
        BY <3>1, <3>2
    <3> QED
      <4> HIDE DEF tested
      <4> QED
        BY <1>1, <3>3 DEF NextLocal
  <2> QED
    BY <2>1, <2>2, <2>3 DEF LetElvis, NextLocal, NextBb, EmitLet
<1>4. \A k \in 1 .. Len(open) : open[k].env[x] = 0
  BY <1>0, <1>3, MayBindIs DEF Going
<1>5. Lowered(Bind(At(both, g), x, r), open, Put(env, x, r))
  <2> HIDE DEF o, f, r, a, b, p, g
  <2> QED
    BY <1>2, <1>4, ElvisLowered DEF Going
<1> HIDE DEF both, g, r
<1> QED
  BY <1>3, <1>5, LetGoes

-----------------------------------------------------------------------------
(* Constructs with a body, and jumps *)

\* { ... } and let x = { ... }
LEMMA OpenBlockGoes ==
  ASSUME Going, OpenBlock \/ OpenInit
  PROVE  Going'
<1>1. ASSUME NEW kind \in {"block", "init"}, Enter(Frame(kind, 0, 0), PushScope(ctx)) PROVE Going'
  <2> DEFINE f == [kind |-> kind, exit |-> 0, next |-> 0, env |-> env]
             d == PushScope(ctx)
  <2>1. Enter(f, d)
    BY <1>1 DEF Frame
  <2>2. Lowered(d, Append(open, f), env)
    BY OpenBlockLowered DEF Going
  <2> HIDE DEF f, d
  <2> QED
    BY <2>1, <2>2, EnterGoes
<1> QED
  BY <1>1 DEF OpenBlock, OpenInit

\* if ... { ... } and if ... { ... } else { ... }
LEMMA OpenIfGoes ==
  ASSUME Going, NEW withElse \in BOOLEAN, OpenIf(withElse)
  PROVE  Going'
<1> DEFINE n == IF withElse THEN 3 ELSE 2
           a == Len(ctx.blocks) + 1
           b == a + 1
           s == IF withElse THEN a + 2 ELSE b
           kind == IF withElse THEN "then" ELSE "block"
           f == [kind |-> kind, exit |-> b, next |-> s, env |-> env]
           d == PushScope(At(AllocBbs(Term(ctx, ctx.cur, Branch(a, s)), n), a))
<1>1. Enter(f, d)
  BY DEF OpenIf, NextBb, Frame
<1>2. Lowered(d, Append(open, f), env)
  <2> HIDE DEF n, a, s, kind
  <2>1. n = (IF withElse THEN 3 ELSE 2) /\ a = Len(ctx.blocks) + 1 /\ s = (IF withElse THEN a + 2 ELSE b)
        /\ kind = (IF withElse THEN "then" ELSE "block")
    BY DEF n, a, s, kind
  <2> HIDE DEF b
  <2>2. b = a + 1
    BY DEF b
  <2> QED
    BY <2>1, <2>2, OpenIfLowered DEF Going
<1> HIDE DEF f, d
<1> QED
  BY <1>1, <1>2, EnterGoes

\* loop { ... }
LEMMA OpenLoopGoes ==
  ASSUME Going, OpenLoop
  PROVE  Going'
<1> DEFINE h == Len(ctx.blocks) + 1
           f == [kind |-> "loop", exit |-> h, next |-> h + 1, env |-> env]
           d == LoopBody(ctx)
<1>1. Enter(f, d)
  BY DEF OpenLoop, NextBb, Frame
<1>2. Lowered(d, Append(open, f), env)
  BY OpenLoopLowered DEF Going
<1> HIDE DEF f, d
<1> QED
  BY <1>1, <1>2, EnterGoes

\* while ... { ... }
LEMMA OpenWhileGoes ==
  ASSUME Going, NEW withCall \in BOOLEAN, OpenWhile(withCall)
  PROVE  Going'
<1> DEFINE h == Len(ctx.blocks) + 1
           b == Len(ctx.blocks) + 2
           x == Len(ctx.blocks) + 3
           start == At(AllocBbs(Term(ctx, ctx.cur, Goto(h)), 3), h)
           tested == IF withCall THEN ReadLiteral(start, NextLocal(start)) ELSE start
           body == At(Term(tested, h, Branch(b, x)), b)
           r == [break |-> x, continue |-> h, drop |-> Len(body.owned)]
           d == PushScope([body EXCEPT !.loops = Append(@, r)])
           f == [kind |-> "loop", exit |-> h, next |-> x, env |-> env]
<1>1. ctx \in Context /\ Len(ctx.blocks) \in Nat
  BY LoweredIs, ContextIs DEF Going
<1>2. h + 1 = b /\ h + 2 = x
  BY <1>1
<1>3. Enter(f, d)
  BY <1>2 DEF OpenWhile, NextBb, Frame
<1>4. Lowered(d, Append(open, f), env)
  <2>1. CASE withCall
    <3>1. tested = ReadLiteral(start, NextLocal(start))
      BY <2>1
    <3> HIDE DEF tested, start, h, b, x
    <3>2. h = Len(ctx.blocks) + 1 /\ b = Len(ctx.blocks) + 2 /\ x = Len(ctx.blocks) + 3
          /\ start = At(AllocBbs(Term(ctx, ctx.cur, Goto(h)), 3), h)
      BY DEF start, h, b, x
    <3> HIDE DEF body
    <3>3. body = At(Term(tested, h, Branch(b, x)), b)
      BY DEF body
    <3> HIDE DEF r, f
    <3>4. r = [break |-> x, continue |-> h, drop |-> Len(body.owned)]
          /\ f = [kind |-> "loop", exit |-> h, next |-> x, env |-> env]
      BY DEF r, f
    <3> QED
      BY <3>1, <3>2, <3>3, <3>4, OpenWhileCallLowered DEF Going
  <2>2. CASE ~ withCall
    <3>1. tested = start
      BY <2>2
    <3> HIDE DEF tested, start, h, b, x
    <3>2. h = Len(ctx.blocks) + 1 /\ b = Len(ctx.blocks) + 2 /\ x = Len(ctx.blocks) + 3
          /\ start = At(AllocBbs(Term(ctx, ctx.cur, Goto(h)), 3), h)
      BY DEF start, h, b, x
    <3> HIDE DEF body
    <3>3. body = At(Term(start, h, Branch(b, x)), b)
      BY <3>1 DEF body
    <3> HIDE DEF r, f
    <3>4. r = [break |-> x, continue |-> h, drop |-> Len(body.owned)]
          /\ f = [kind |-> "loop", exit |-> h, next |-> x, env |-> env]
      BY DEF r, f
    <3> QED
      BY <3>2, <3>3, <3>4, OpenWhileLowered DEF Going
  <2> QED
    BY <2>1, <2>2
<1> HIDE DEF f, d
<1> QED
  BY <1>3, <1>4, EnterGoes

\* A loop is left, or its next turn begun.
LEMMA LeaveLoopGoes ==
  ASSUME Going, Break \/ Continue
  PROVE  Going'
<1>1. ASSUME NEW where \in {"break", "continue"}, LeaveLoop(where) PROVE Going'
  <2> DEFINE top == Last(ctx.loops)
             d == Jump(PushAll(ctx, DropsOf(OwnedSince(ctx, top.drop))), Goto(top[where]))
  <2>1. Emit(d) /\ ctx.loops # <<>>
    BY <1>1 DEF LeaveLoop
  <2>2. Lowered(d, open, env)
    <3> HIDE DEF top
    <3>1. top = Last(ctx.loops)
      BY DEF top
    <3> QED
      BY <2>1, <3>1, LeaveLowered DEF Going
  <2> HIDE DEF d
  <2> QED
    BY <2>1, <2>2, EmitGoes
<1> QED
  BY <1>1 DEF Break, Continue

\* The function returns.
LEMMA ReturnUnitGoes ==
  ASSUME Going, ReturnUnit
  PROVE  Going'
<1> DEFINE d == Jump(FlushAllForReturn(ctx), Return(<<>>))
<1>1. Emit(d) /\ Lowered(d, open, env)
  BY ReturnUnitLowered DEF ReturnUnit, Going
<1> HIDE DEF d
<1> QED
  BY <1>1, EmitGoes

\* Returning a name keeps the body well lowered.
LEMMA ReturnNameGoes ==
  ASSUME Going, NEW y \in Names, ReturnName(y)
  PROVE  Going'
<1> DEFINE v == ctx.names[y]
           d == Jump(FlushAllForReturn(ctx), Return(<<v>>))
<1>1. Emit(d) /\ y \in Known
  BY DEF ReturnName
<1>2. v \in Range(ctx.owned)
  BY <1>1, Denotes DEF Going
<1>3. Lowered(d, open, env)
  <2> HIDE DEF v
  <2> QED
    BY <1>2, ReturnNameLowered DEF Going
<1> HIDE DEF d
<1> QED
  BY <1>1, <1>3, EmitGoes

\* Every construct of the source.
LEMMA ConstructGoes ==
  ASSUME Forms = {}, Going, Construct
  PROVE  Going'
<1>1. Kinds \subseteq {"string", "record"}
  BY LoweringAssumption
<1>2. CASE \E x \in Names : \E kind \in Kinds : LetLiteral(x, kind)
  BY <1>1, <1>2, LetLiteralGoes
<1>3. CASE \E x \in Names : \E y \in Names : LetMove(x, y)
  BY <1>3, LetMoveGoes
<1>4. CASE \E x \in Names : \E withCall \in BOOLEAN : LetElvis(x, withCall)
  BY <1>4, LetElvisGoes
<1>5. CASE \E x \in Names : AssignLiteral(x)
  BY <1>5, AssignLiteralGoes
<1>6. CASE \E x \in Names : \E y \in Names : AssignName(x, y)
  BY <1>6, AssignNameGoes
<1>7. CASE UseLiteral
  BY <1>7, UseLiteralGoes
<1>8. CASE \E y \in Names : UseName(y)
  BY <1>8, UseNameGoes
<1>9. CASE \E y \in Names : Consume(y)
  BY <1>9, ConsumeGoes
<1>10. CASE \E y \in Names : ReturnName(y)
  BY <1>10, ReturnNameGoes
<1>11. CASE OpenBlock \/ OpenInit
  BY <1>11, OpenBlockGoes
<1>12. CASE OpenLoop
  BY <1>12, OpenLoopGoes
<1>13. CASE \E withElse \in BOOLEAN : OpenIf(withElse)
  BY <1>13, OpenIfGoes
<1>14. CASE \E withCall \in BOOLEAN : OpenWhile(withCall)
  BY <1>14, OpenWhileGoes
<1>15. CASE Break \/ Continue
  BY <1>15, LeaveLoopGoes
<1>16. CASE ReturnUnit
  BY <1>16, ReturnUnitGoes
<1> QED
  BY <1>2, <1>3, <1>4, <1>5, <1>6, <1>7, <1>8, <1>9, <1>10, <1>11, <1>12, <1>13, <1>14, <1>15, <1>16 DEF Construct

\* The end of the function.
LEMMA FinishGoes ==
  ASSUME Going, Finish
  PROVE  Body(ctx', env') /\ env' = env
<1>1. Len(open) = 1 /\ env' = env
  BY DEF Finish
<1>2. CASE ctx' = FinishWith(PopScope(ctx), <<>>)
  <2>1. Body(FinishWith(PopScope(ctx), <<>>), env)
    BY <1>1, FinishUnitLowered DEF Going
  <2> QED
    BY <1>1, <1>2, <2>1
<1>3. ASSUME NEW y \in Names, MayEndWith(y), ctx.kinds[ctx.names[y]] = "string",
             ctx' = FinishWith(PopScope(TailResult(ctx, y)), <<NextLocal(ctx)>>)
      PROVE  Body(ctx', env')
  <2> DEFINE v == ctx.names[y]
             l == Len(ctx.kinds) + 1
             d == PushAll(AllocLocal(ctx, "string"), <<Move(l, v)>>)
             z == FinishWith(PopScope(d), <<l>>)
  <2>1. v \in Range(ctx.owned)
    BY <1>3, Denotes DEF Going, MayEndWith
  <2>2. ctx' = z
    BY <1>3 DEF TailResult, NextLocal
  <2>3. Body(z, env)
    <3>1. ctx.kinds[v] = "string"
      BY <1>3
    <3> HIDE DEF v
    <3> QED
      BY <1>1, <2>1, <3>1, FinishTailLowered DEF Going
  <2> HIDE DEF z
  <2> QED
    BY <1>1, <2>2, <2>3
<1> QED
  BY <1>1, <1>2, <1>3 DEF Finish

\* The first body.
LEMMA InitGoes ==
  ASSUME Init
  PROVE  Going
<1>1. PICK p \in Names, inLoop \in BOOLEAN :
        /\ env = [[x \in Names |-> NoLocal] EXCEPT ![p] = 1]
        /\ ctx = IF inLoop THEN LoopBody(Base(p)) ELSE Base(p)
        /\ open = IF inLoop
                  THEN <<BodyFrame, [kind |-> "loop", exit |-> 2, next |-> 3, env |-> env]>>
                  ELSE <<BodyFrame>>
  BY BaseIs DEF Init, BodyFrame, NoLocal
<1> DEFINE c == Base(p)
           frames == <<BodyFrame>>
           f == [kind |-> "loop", exit |-> 2, next |-> 2 + 1, env |-> env]
<1>2. env = c.names
  BY <1>1 DEF Base, NoLocal
<1>3. Lowered(c, frames, env) /\ frames # <<>> /\ Len(c.blocks) = 1
  BY <1>2, BaseLowered
<1>4. CASE ~ inLoop
  BY <1>1, <1>3, <1>4 DEF Going
<1>5. CASE inLoop
  <2>1. Lowered(LoopBody(c), Append(frames, f), env)
    <3>1. 2 = Len(c.blocks) + 1
      BY <1>3
    <3> HIDE DEF c, frames
    <3> QED
      BY <1>3, <3>1, OpenLoopLowered
  <2>2. open = Append(frames, f)
    <3>1. BodyFrame \in FrameSet /\ f \in FrameSet
      <4>1. env \in [Names -> Nat]
        BY <1>1 DEF NoLocal
      <4> QED
        BY <4>1 DEF BodyFrame, FrameSet
    <3>2. f = [kind |-> "loop", exit |-> 2, next |-> 3, env |-> env]
      OBVIOUS
    <3> HIDE DEF f
    <3>3. open = <<BodyFrame, f>>
      BY <1>1, <1>5, <3>2
    <3>4. Append(<<BodyFrame>>, f) = <<BodyFrame, f>>
      BY <3>1, AppendTwo
    <3> QED
      BY <3>3, <3>4
  <2>3. open # <<>>
    <3>1. BodyFrame \in FrameSet /\ f \in FrameSet
      <4>1. env \in [Names -> Nat]
        BY <1>1 DEF NoLocal
      <4> QED
        BY <4>1 DEF BodyFrame, FrameSet
    <3> HIDE DEF f
    <3>2. frames \in Seq(FrameSet)
      BY <3>1
    <3> HIDE DEF frames
    <3>3. Append(frames, f) \in Seq(FrameSet) /\ Len(Append(frames, f)) = Len(frames) + 1 /\ Len(frames) \in Nat
      BY <3>1, <3>2, AppendIs, LenProperties
    <3> QED
      BY <2>2, <3>3, EmptySeq
  <2>4. ctx = LoopBody(c)
    BY <1>1, <1>5
  <2> HIDE DEF c, frames, f
  <2> QED
    BY <2>1, <2>2, <2>3, <2>4 DEF Going
<1> QED
  BY <1>4, <1>5

-----------------------------------------------------------------------------
(* The length of the source *)

\* One more construct of the source has been lowered.
Counted == spent' = spent + 1 /\ done' = done

\* A statement counts.
LEMMA EmitCounted == ASSUME NEW c, Emit(c) PROVE Counted
BY DEF Emit, Counted

\* A let counts.
LEMMA LetCounted == ASSUME NEW x, NEW c, NEW l, EmitLet(x, c, l) PROVE Counted
BY DEF EmitLet, Counted

\* A construct counts.
LEMMA EnterCounted == ASSUME NEW f, NEW c, Enter(f, c) PROVE Counted
BY DEF Enter, Counted

\* Every construct counts.
LEMMA ConstructCounted ==
  ASSUME Construct
  PROVE  Counted
<1>2. ASSUME NEW x, NEW kind, LetLiteral(x, kind) PROVE Counted
  BY <1>2, LetCounted DEF LetLiteral
<1>3. ASSUME NEW x, NEW y, LetMove(x, y) PROVE Counted
  BY <1>3, LetCounted DEF LetMove
<1>4. ASSUME NEW x, NEW withCall, LetElvis(x, withCall) PROVE Counted
  BY <1>4, LetCounted DEF LetElvis
<1>5. ASSUME NEW x, AssignLiteral(x) PROVE Counted
  BY <1>5, EmitCounted DEF AssignLiteral
<1>6. ASSUME NEW x, NEW y, AssignName(x, y) PROVE Counted
  BY <1>6, EmitCounted DEF AssignName
<1>7. ASSUME UseLiteral PROVE Counted
  BY <1>7, EmitCounted DEF UseLiteral
<1>8. ASSUME NEW y, UseName(y) PROVE Counted
  BY <1>8, EmitCounted DEF UseName
<1>9. ASSUME NEW y, Consume(y) PROVE Counted
  BY <1>9, EmitCounted DEF Consume
<1>10. ASSUME NEW y, ReturnName(y) PROVE Counted
  BY <1>10, EmitCounted DEF ReturnName
<1>11. ASSUME OpenBlock \/ OpenInit PROVE Counted
  BY <1>11, EnterCounted DEF OpenBlock, OpenInit
<1>12. ASSUME OpenLoop PROVE Counted
  BY <1>12, EnterCounted DEF OpenLoop
<1>13. ASSUME NEW withElse, OpenIf(withElse) PROVE Counted
  BY <1>13, EnterCounted DEF OpenIf
<1>14. ASSUME NEW withCall, OpenWhile(withCall) PROVE Counted
  BY <1>14, EnterCounted DEF OpenWhile
<1>15. ASSUME Break \/ Continue PROVE Counted
  BY <1>15, EmitCounted DEF Break, Continue, LeaveLoop
<1>16. ASSUME ReturnUnit PROVE Counted
  BY <1>16, EmitCounted DEF ReturnUnit
<1> QED
  BY <1>2, <1>3, <1>4, <1>5, <1>6, <1>7, <1>8, <1>9, <1>10, <1>11, <1>12, <1>13, <1>14, <1>15, <1>16 DEF Construct

-----------------------------------------------------------------------------
(* The invariant *)

\* The bound on programs is a number.
LEMMA SourceIs == MaxSource \in Nat
BY LoweringAssumption

\* A body that is done, and the run of it.
BodyRuns == Body(ctx, env) /\ \E E : Complete(E) /\ Fine(E, at, mem, halted)

\* The program has not started.
Unrun == at = 0 /\ mem = Start(<<>>, {}) /\ halted = ""

\* The inductive invariant: a body is well lowered so far, or it is complete and runs.
DropsInv ==
  /\ spent \in 0 .. MaxSource /\ done \in BOOLEAN
  /\ ~ done => Going /\ Unrun
  /\ done => BodyRuns

\* Lowering keeps the invariant.
LEMMA LowerKeeps ==
  ASSUME Forms = {}, DropsInv, Lower, UNCHANGED <<at, mem, halted>>
  PROVE  DropsInv'
<1>1. ~ done /\ Going /\ Unrun /\ Unrun'
  BY DEF DropsInv, Lower, Unrun
<1>2. CASE spent < MaxSource /\ Construct
  <2>1. Going'
    BY <1>1, <1>2, ConstructGoes
  <2>2. spent' = spent + 1 /\ done' = FALSE
    BY <1>1, <1>2, ConstructCounted DEF Counted, DropsInv
  <2>3. spent' \in 0 .. MaxSource
    BY <1>2, <2>2, SourceIs DEF DropsInv
  <2> QED
    BY <1>1, <2>1, <2>2, <2>3 DEF DropsInv
<1>3. CASE Close \/ CloseThen \/ \E x, y \in Names : CloseInit(x, y)
  <2>1. Going'
    BY <1>1, <1>3, CloseGoes, CloseThenGoes, CloseInitGoes
  <2>2. spent' = spent /\ done' = done
    BY <1>3 DEF Close, Leave, CloseThen, CloseInit
  <2> QED
    BY <1>1, <2>1, <2>2 DEF DropsInv
<1>4. CASE Finish
  <2>1. Body(ctx', env') /\ done' = TRUE /\ spent' = spent
    BY <1>1, <1>4, FinishGoes DEF Finish
  <2>2. PICK E : Completed(ctx', E)
    BY <2>1 DEF Body
  <2>3. Complete(E)'
    BY <2>2 DEF Complete, Completed
  <2>4. Fine(E, at, mem, halted)'
    BY <1>1 DEF Fine, Unrun
  <2>5. Body(ctx, env)'
    BY <2>1
  <2>6. BodyRuns'
    BY <2>3, <2>4, <2>5 DEF BodyRuns
  <2> QED
    BY <2>1, <2>6 DEF DropsInv
<1> QED
  BY <1>2, <1>3, <1>4 DEF Lower

\* A run changes nothing of the body.
LEMMA RunKeeps ==
  ASSUME DropsInv, done, UNCHANGED vars, NEW E, Complete(E), Fine(E, at', mem', halted')
  PROVE  DropsInv'
<1>1. /\ ctx' = ctx /\ env' = env /\ spent' = spent /\ done' = done
  BY DEF vars
<1>2. Complete(E)'
  BY <1>1 DEF Complete
<1>3. Fine(E, at, mem, halted)'
  <2>1. Locals' = Locals
    BY <1>1 DEF Locals
  <2>2. \A m : IsMemory(m)' <=> IsMemory(m)
    BY <2>1 DEF IsMemory
  <2>3. \A m, st : Fits(m, st)' <=> Fits(m, st)
    BY <2>1, <2>2 DEF Fits
  <2> QED
    BY <1>1, <2>2, <2>3 DEF Fine
<1>4. Body(ctx, env)'
  BY <1>1 DEF DropsInv, BodyRuns
<1>5. BodyRuns'
  BY <1>2, <1>3, <1>4 DEF BodyRuns
<1> QED
  BY <1>1, <1>5 DEF DropsInv

\* Every step of lowering and of running keeps the invariant.
LEMMA StepKeeps ==
  ASSUME Forms = {}, DropsInv, [DropsNext]_allVars
  PROVE  DropsInv'
<1>1. CASE Lower /\ UNCHANGED <<at, mem, halted>>
  BY <1>1, LowerKeeps
<1>2. CASE Compile
  <2>1. done /\ at = 0 /\ UNCHANGED vars
    BY <1>2 DEF Compile
  <2>2. PICK E : Complete(E) /\ Fine(E, at, mem, halted)
    BY <2>1 DEF DropsInv, BodyRuns
  <2>3. halted = ""
    BY <2>1, <2>2 DEF Fine
  <2>4. Fine(E, at', mem', halted')
    BY <1>2, <2>2, <2>3, CompileFine
  <2> QED
    BY <2>1, <2>2, <2>4, RunKeeps
<1>3. CASE Stop
  <2>1. done /\ UNCHANGED vars
    BY <1>3 DEF Stop, Running, DropsInv, Unrun
  <2>2. PICK E : Complete(E) /\ Fine(E, at, mem, halted)
    BY <2>1 DEF DropsInv, BodyRuns
  <2>3. Fine(E, at', mem', halted')
    BY <1>3, <2>2, StopFine
  <2> QED
    BY <2>1, <2>2, <2>3, RunKeeps
<1>4. CASE Execute
  <2>1. done
    BY <1>4 DEF Execute, Running, DropsInv, Unrun
  <2>2. UNCHANGED vars
    BY <1>4 DEF Execute, JumpOrBranch, Call, CallMaybe, TestNull, ReturnFrom, Continues, Ends
  <2>3. PICK E : Complete(E) /\ Fine(E, at, mem, halted)
    BY <2>1 DEF DropsInv, BodyRuns
  <2>4. Fine(E, at', mem', halted')
    BY <1>4, <2>3, ExecuteFine
  <2> QED
    BY <2>1, <2>2, <2>3, <2>4, RunKeeps
<1>5. CASE UNCHANGED allVars
  <2>1. UNCHANGED vars /\ UNCHANGED open /\ at' = at /\ mem' = mem /\ halted' = halted
    BY <1>5 DEF allVars, vars
  <2>2. CASE done
    <3>1. PICK E : Complete(E) /\ Fine(E, at, mem, halted)
      BY <2>2 DEF DropsInv, BodyRuns
    <3>2. Fine(E, at', mem', halted')
      BY <2>1, <3>1
    <3> QED
      BY <2>1, <2>2, <3>1, <3>2, RunKeeps
  <2>3. CASE ~ done
    <3>1. ctx' = ctx /\ open' = open /\ env' = env /\ spent' = spent /\ done' = done
      BY <2>1 DEF vars
    <3>2. Going' /\ Unrun'
      BY <2>1, <2>3, <3>1 DEF DropsInv, Going, Unrun
    <3> QED
      BY <2>3, <3>1, <3>2 DEF DropsInv
  <2> QED
    BY <2>2, <2>3
<1> QED
  BY <1>1, <1>2, <1>3, <1>4, <1>5 DEF DropsNext

\* The invariant holds in every state.
LEMMA DropsInvariant ==
  ASSUME Forms = {}
  PROVE  Spec => []DropsInv
<1>1. DropsInit => DropsInv
  <2>1. SUFFICES ASSUME DropsInit PROVE DropsInv
    OBVIOUS
  <2>2. Going /\ spent = 0 /\ done = FALSE
    BY <2>1, InitGoes DEF DropsInit, Init
  <2>3. Unrun
    BY <2>1 DEF DropsInit, Unrun
  <2>4. spent \in 0 .. MaxSource /\ done \in BOOLEAN
    <3>1. 0 \in 0 .. MaxSource
      BY SourceIs
    <3>2. done \in BOOLEAN
      BY <2>2
    <3> QED
      BY <2>2, <3>1, <3>2, Zenon
  <2> QED
    BY <2>2, <2>3, <2>4 DEF DropsInv
<1>2. DropsInv /\ [DropsNext]_allVars => DropsInv'
  BY StepKeeps
<1> QED
  BY <1>1, <1>2, PTL DEF Spec

-----------------------------------------------------------------------------
(* What the invariant implies *)

\* The memory of a run, whatever it is about to do.
LEMMA MemoryIs ==
  ASSUME DropsInv, at # 0
  PROVE  /\ IsMemory(mem) /\ ~ mem.doubled /\ \A l \in mem.inited : mem.slot[l] \in mem.live
         /\ halted = "returned" => /\ mem.live \subseteq mem.lost \cup {mem.out}
                                   /\ mem.out # Nothing => mem.out \in mem.live
<1>1. done
  BY DEF DropsInv, Unrun
<1>2. PICK E : Complete(E) /\ Fine(E, at, mem, halted)
  BY <1>1 DEF DropsInv, BodyRuns
<1>3. IsMemory(mem) /\ (halted = "returned" => /\ mem.live \subseteq mem.lost \cup {mem.out}
                                               /\ mem.out # Nothing => mem.out \in mem.live)
  BY <1>2 DEF Fine
<1> DEFINE m == [mem EXCEPT !.out = Nothing]
<1>4. m.doubled = mem.doubled /\ m.inited = mem.inited /\ m.slot = mem.slot /\ m.live = mem.live
  BY <1>3 DEF IsMemory
<1>5. PICK st \in Knowledge : Fits(m, st)
  BY <1>2 DEF Fine
<1>6. ~ m.doubled /\ \A l \in m.inited : m.slot[l] \in m.live
  <2> HIDE DEF m
  <2> QED
    BY <1>5 DEF Fits
<1> HIDE DEF m
<1> QED
  BY <1>3, <1>4, <1>6

-----------------------------------------------------------------------------
(* Theorems *)

(***************************************************************************)
(* No object is freed twice on any path of any program without the four    *)
(* special forms, however many constructs it has, however deeply they nest *)
(* and however many objects it makes.                                      *)
(***************************************************************************)
THEOREM FreedAtMostOnce ==
  ASSUME Forms = {}
  PROVE  Spec => []FreedOnce
<1>1. DropsInv => FreedOnce
  <2>1. SUFFICES ASSUME DropsInv PROVE FreedOnce
    OBVIOUS
  <2>2. CASE at = 0
    <3>1. mem = Start(<<>>, {})
      BY <2>1, <2>2 DEF DropsInv, Unrun, BodyRuns, Fine
    <3> QED
      BY <3>1 DEF FreedOnce, Start
  <2>3. CASE at # 0
    BY <2>1, <2>3, MemoryIs DEF FreedOnce
  <2> QED
    BY <2>2, <2>3
<1> QED
  BY <1>1, DropsInvariant, PTL

(***************************************************************************)
(* What the borrow checker takes for initialised is live: a program it     *)
(* accepts never reads freed or zeroed memory.                             *)
(***************************************************************************)
THEOREM InitedStaysLive ==
  ASSUME Forms = {}
  PROVE  Spec => []InitedIsLive
<1>1. DropsInv => InitedIsLive
  BY MemoryIs DEF InitedIsLive
<1> QED
  BY <1>1, DropsInvariant, PTL

(***************************************************************************)
(* When the function returns, everything but the value returned is freed,  *)
(* save what an assignment or the next turn of a loop has overwritten, and *)
(* the value returned is alive.                                            *)
(***************************************************************************)
THEOREM EverythingFreed ==
  ASSUME Forms = {}
  PROVE  Spec => []AllFreed
<1>1. DropsInv => AllFreed
  <2>1. SUFFICES ASSUME DropsInv, halted = "returned" PROVE AllFreed
    BY DEF AllFreed
  <2>2. CASE at = 0
    <3>1. halted = ""
      BY <2>1, <2>2 DEF DropsInv, Unrun, BodyRuns, Fine
    <3> QED
      BY <2>1, <3>1
  <2>3. CASE at # 0
    BY <2>1, <2>3, MemoryIs DEF AllFreed
  <2> QED
    BY <2>2, <2>3
<1> QED
  BY <1>1, DropsInvariant, PTL

(***************************************************************************)
(* The books of the lowering stay in range, the blocks control can reach   *)
(* are ended, and memory holds objects of the heap.                        *)
(***************************************************************************)
THEOREM DropsTypes ==
  ASSUME Forms = {}
  PROVE  Spec => []TypeOK
<1>1. DropsInv => TypeOK
  <2>1. SUFFICES ASSUME DropsInv PROVE TypeOK
    OBVIOUS
  <2> DEFINE n == Len(ctx.kinds)
  <2>2. /\ ctx.cur \in DOMAIN ctx.blocks /\ Range(ctx.owned) \subseteq Locals
        /\ ctx.names \in [Names -> Locals \cup {NoLocal}] /\ env \in [Names -> Locals \cup {NoLocal}]
        /\ LiveBlocksEnd
    <3>1. CASE done
      <4>1. Body(ctx, env) /\ \E E : Complete(E)
        BY <2>1, <3>1 DEF DropsInv, BodyRuns
      <4>2. Locals = 1 .. n /\ n \in Nat
        BY <4>1 DEF Locals, Complete
      <4>3. 0 .. n = Locals \cup {NoLocal}
        <5> HIDE DEF n
        <5> QED
          BY <4>2 DEF NoLocal
      <4> QED
        BY <3>1, <4>1, <4>3 DEF Body, Stops, LiveBlocksEnd
    <3>2. CASE ~ done
      <4>1. Lowered(ctx, open, env)
        BY <2>1, <3>2 DEF DropsInv, Going
      <4>2. Books(ctx, open, env) /\ ctx \in Context
        BY <4>1, LoweredIs
      <4>3. Named(ctx, open, env) /\ Scoped(ctx, Len(open))
        BY <4>2, BooksIs
      <4>4. n \in Nat /\ ctx.kinds \in Seq({"string", "record"})
        BY <4>2, ContextIs
      <4>5. Locals = 1 .. n
        BY <4>4 DEF Locals
      <4>6. 0 .. n = Locals \cup {NoLocal}
        <5> HIDE DEF n
        <5> QED
          BY <4>4, <4>5 DEF NoLocal
      <4>7. ctx.cur \in DOMAIN ctx.blocks
        BY <4>1 DEF Lowered, Flow, Here, Graph
      <4> QED
        BY <3>2, <4>3, <4>5, <4>6, <4>7 DEF Named, Scoped, LiveBlocksEnd
    <3> QED
      BY <2>1, <3>1, <3>2 DEF DropsInv
  <2>3. at # 0 => /\ mem.slot \in [Locals -> Objects \cup {Nothing}]
                  /\ mem.live \cup mem.lost \subseteq Objects
                  /\ mem.inited \subseteq Locals
    BY <2>1, MemoryIs DEF IsMemory
  <2>4. spent \in 0 .. MaxSource /\ done \in BOOLEAN
    BY <2>1 DEF DropsInv
  <2> QED
    BY <2>2, <2>3, <2>4 DEF TypeOK
<1> QED
  BY <1>1, DropsInvariant, PTL
==============================================================================
