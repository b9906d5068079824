-------------------------- MODULE BorrowCheckProofs --------------------------
(***************************************************************************)
(* Theorems about the borrow checker, for every set of bodies.             *)
(*                                                                         *)
(* First the worklist: the queue holds a block at most once, and when it   *)
(* is empty the entry and exit states solve the dataflow equations and     *)
(* every error they show has been reported.  What a statement does         *)
(* (ProcessBlock) is not looked into there: the argument holds for any     *)
(* transfer function.  Of Merge it uses that it depends on the exit states *)
(* of the predecessors only.                                               *)
(*                                                                         *)
(* Then what the verdict is worth: a run of an accepted body never reads   *)
(* what was moved away.  A run is followed statement by statement through  *)
(* the walks from the final entry states, and over the edges of the graph  *)
(* through the merges.                                                     *)
(*                                                                         *)
(* And the references: while a path still reads one, the checker holds a   *)
(* loan of the place it points to, and a statement that would end, move or *)
(* change that place is refused.  That is so of the bodies whose           *)
(* references the checker follows (Traceable) and that drop none too early *)
(* (RefsKept); of others it is not.                                        *)
(***************************************************************************)
EXTENDS BorrowRun, SequenceTheorems, FiniteSetTheorems, WellFoundedInduction, TLAPS

-----------------------------------------------------------------------------
(* Graphs and merging *)

\* An edge into b starts at a block that has b among its successors.
LEMMA EdgesOf ==
  ASSUME NEW bd, NEW b, NEW e \in InEdges(bd, b)
  PROVE  e[1] \in Blocks(bd) /\ b \in Succs(bd, e[1])
BY DEF InEdges, Succs

\* The merge looks at the exit states of the predecessors only.
LEMMA MergeIsLocal ==
  ASSUME NEW bd, NEW b, NEW before, NEW after,
         \A p \in Blocks(bd) : b \in Succs(bd, p) => before[p] = after[p]
  PROVE  Merge(bd, InEdges(bd, b), before) = Merge(bd, InEdges(bd, b), after)
<1>1. \A e \in InEdges(bd, b) : before[e[1]] = after[e[1]]
  BY EdgesOf
<1>2. InEdges(bd, b) # {} => (CHOOSE e \in InEdges(bd, b) : TRUE) \in InEdges(bd, b)
  OBVIOUS
<1>3. \A l : {before[e[1]].vs[l] : e \in InEdges(bd, b)} = {after[e[1]].vs[l] : e \in InEdges(bd, b)}
  BY <1>1
<1>4. {before[e[1]].loans : e \in InEdges(bd, b)} = {after[e[1]].loans : e \in InEdges(bd, b)}
  BY <1>1
<1>5. \A l : {before[e[1]].pm[l] : e \in InEdges(bd, b)} = {after[e[1]].pm[l] : e \in InEdges(bd, b)}
  BY <1>1
<1> QED
  BY <1>1, <1>2, <1>3, <1>4, <1>5, ZenonT(60) DEF Merge

\* Merging exit states that know nothing yields one that knows nothing.
LEMMA MergeOfNothing ==
  ASSUME NEW bd, NEW b, NEW exits,
         \A p \in Blocks(bd) : exits[p] = Nothing(bd)
  PROVE  Merge(bd, InEdges(bd, b), exits) = Nothing(bd)
<1> DEFINE edges == InEdges(bd, b)
<1>1. \A e \in edges : exits[e[1]] = Nothing(bd)
  BY EdgesOf
<1>2. CASE edges = {}
  BY <1>2 DEF Merge
<1>3. CASE edges # {} /\ Cardinality(edges) = 1
  <2>1. (CHOOSE e \in edges : TRUE) \in edges
    BY <1>3
  <2> QED
    BY <1>1, <1>3, <2>1 DEF Merge
<1>4. CASE edges # {} /\ Cardinality(edges) # 1
  <2>1. \A l \in Locals(bd) : {exits[e[1]].vs[l] : e \in edges} = {"None"}
    BY <1>1, <1>4 DEF Nothing
  <2>2. MergeVs({"None"}) = "None"
    BY DEF MergeVs
  <2>3. UNION {exits[e[1]].loans : e \in edges} = {}
    BY <1>1 DEF Nothing
  <2>4. \A l \in Locals(bd) : UNION {exits[e[1]].pm[l] : e \in edges} = {}
    BY <1>1 DEF Nothing
  <2>5. [l \in Locals(bd) |-> MergeVs({exits[e[1]].vs[l] : e \in edges})]
          = [l \in Locals(bd) |-> "None"]
    BY <2>1, <2>2
  <2>6. [l \in Locals(bd) |-> UNION {exits[e[1]].pm[l] : e \in edges}] = [l \in Locals(bd) |-> {}]
    BY <2>4
  <2> QED
    BY <1>4, <2>3, <2>5, <2>6 DEF Merge, Nothing
<1> QED
  BY <1>2, <1>3, <1>4

-----------------------------------------------------------------------------
(* The queue *)

\* Reading a queue through its elements.
LEMMA ElementsOf ==
  ASSUME NEW S, NEW seq \in Seq(S)
  PROVE  /\ Elements(seq) \subseteq S
         /\ Elements(seq) = {} <=> seq = <<>>
         /\ \A x \in S : Elements(Append(seq, x)) = Elements(seq) \cup {x}
         /\ seq # <<>> => /\ Head(seq) \in S /\ Tail(seq) \in Seq(S)
                          /\ Elements(seq) = {Head(seq)} \cup Elements(Tail(seq))
<1>1. DOMAIN seq = 1 .. Len(seq) /\ Len(seq) \in Nat
  OBVIOUS
<1>2. Elements(seq) \subseteq S
  BY <1>1 DEF Elements
<1>3. Elements(seq) = {} <=> seq = <<>>
  <2>1. seq # <<>> => Len(seq) # 0
    BY EmptySeq
  <2>2. seq # <<>> => 1 \in DOMAIN seq
    BY <1>1, <2>1
  <2> QED
    BY <2>2 DEF Elements
<1>4. ASSUME NEW x \in S PROVE Elements(Append(seq, x)) = Elements(seq) \cup {x}
  <2>1. /\ Append(seq, x) \in Seq(S)
        /\ Len(Append(seq, x)) = Len(seq) + 1
        /\ \A i \in 1 .. Len(seq) : Append(seq, x)[i] = seq[i]
        /\ Append(seq, x)[Len(seq) + 1] = x
    BY AppendProperties
  <2>2. DOMAIN Append(seq, x) = 1 .. (Len(seq) + 1)
    BY <2>1
  <2>3. 1 .. (Len(seq) + 1) = (1 .. Len(seq)) \cup {Len(seq) + 1}
    BY <1>1
  <2> QED
    BY <1>1, <2>1, <2>2, <2>3 DEF Elements
<1>5. ASSUME seq # <<>>
      PROVE  /\ Head(seq) \in S /\ Tail(seq) \in Seq(S)
             /\ Elements(seq) = {Head(seq)} \cup Elements(Tail(seq))
  <2>1. Len(seq) # 0
    BY <1>5, EmptySeq
  <2>2. /\ Tail(seq) \in Seq(S)
        /\ Len(Tail(seq)) = Len(seq) - 1
        /\ \A i \in 1 .. Len(Tail(seq)) : Tail(seq)[i] = seq[i + 1]
    BY <1>5, HeadTailProperties
  <2>3. Head(seq) = seq[1] /\ Head(seq) \in S
    BY <1>5, HeadTailProperties
  <2>4. DOMAIN Tail(seq) = 1 .. (Len(seq) - 1)
    BY <2>2
  <2>5. \A i \in DOMAIN seq : i = 1 \/ (i - 1 \in DOMAIN Tail(seq) /\ Tail(seq)[i - 1] = seq[i])
    BY <1>1, <2>2, <2>4
  <2>6. \A i \in DOMAIN Tail(seq) : i + 1 \in DOMAIN seq
    BY <1>1, <2>4
  <2>7. Elements(seq) \subseteq {Head(seq)} \cup Elements(Tail(seq))
    BY <2>3, <2>5 DEF Elements
  <2>8. 1 \in DOMAIN seq
    BY <1>1, <2>1
  <2>9. {Head(seq)} \cup Elements(Tail(seq)) \subseteq Elements(seq)
    BY <2>2, <2>3, <2>4, <2>6, <2>8 DEF Elements
  <2> QED
    BY <2>2, <2>3, <2>7, <2>9
<1> QED
  BY <1>2, <1>3, <1>4, <1>5

-----------------------------------------------------------------------------
(***************************************************************************)
(* The inductive invariant.  A block whose entry state is out of date is   *)
(* in the queue or about to be put there, and a walked block's exit state  *)
(* is that of its last walk, from the entry state stored with it.          *)
(***************************************************************************)
Shape ==
  /\ body \in Bodies
  /\ worklist \in Seq(Blocks(body)) /\ pushing \in Seq(Blocks(body))
  /\ entry = [b \in Blocks(body) |-> entry[b]]
  /\ exit = [b \in Blocks(body) |-> exit[b]]
  /\ walked \subseteq Blocks(body)

Waiting == Elements(worklist) \cup Elements(pushing)

EntryNotQueued == Entry \notin Waiting
QueuedFirst == ~started => Succs(body, Entry) \subseteq Waiting
Settled == \A b \in Blocks(body) \ {Entry} : b \in Waiting \/ entry[b] = Merged(b)
WalkedLast ==
  \A b \in walked : /\ exit[b] = Known(ProcessBlock(body, live_out, b, entry[b]))
                     /\ ProcessBlock(body, live_out, b, entry[b]).errs \subseteq errors

Inductive == Shape /\ EntryNotQueued /\ QueuedFirst /\ Settled /\ WalkedLast

\* The successors of a block are blocks, and never the entry block.
LEMMA SuccessorsOf ==
  ASSUME NEW bd \in Bodies, NEW b \in Blocks(bd)
  PROVE  /\ Succ(bd, b) \in Seq(Blocks(bd))
         /\ Elements(Succ(bd, b)) = Succs(bd, b)
         /\ Entry \notin Succs(bd, b)
         /\ Entry \in Blocks(bd)
BY BodiesAssumption, EntryAssumption DEF IsBody, Elements, Succs

\* The invariant holds before the first walk.
LEMMA InductiveAtFirst ==
  ASSUME Init
  PROVE  Inductive
<1>1. body \in Bodies
  BY DEF Init
<1>2. /\ pushing \in Seq(Blocks(body)) /\ Elements(pushing) = Succs(body, Entry)
      /\ Entry \notin Succs(body, Entry)
  BY <1>1, SuccessorsOf, BodiesAssumption DEF Init, IsBody
<1>3. worklist \in Seq(Blocks(body)) /\ Elements(worklist) = {}
  BY DEF Init, Elements
<1>4. \A b \in Blocks(body) : Merged(b) = Nothing(body)
  BY MergeOfNothing DEF Init, Merged
<1>5. Settled
  BY <1>4 DEF Settled, Init
<1>6. Shape
  BY <1>1, <1>2, <1>3 DEF Shape, Init
<1> QED
  BY <1>2, <1>3, <1>5, <1>6
  DEF Inductive, EntryNotQueued, QueuedFirst, WalkedLast, Waiting, Init

\* Queueing a successor moves a block from one place of waiting to the other.
LEMMA KeptByQueueing ==
  ASSUME Inductive, QueueSuccessor
  PROVE  Inductive'
<1>1. /\ Head(pushing) \in Blocks(body) /\ Tail(pushing) \in Seq(Blocks(body))
      /\ Elements(pushing) = {Head(pushing)} \cup Elements(Tail(pushing))
  BY ElementsOf DEF QueueSuccessor, Inductive, Shape
<1>2. /\ worklist' \in Seq(Blocks(body))
      /\ Elements(worklist') = Elements(worklist) \cup {Head(pushing)}
  <2>1. CASE Head(pushing) \in Elements(worklist)
    BY <2>1 DEF QueueSuccessor, Inductive, Shape
  <2>2. CASE Head(pushing) \notin Elements(worklist)
    <3>1. worklist' = Append(worklist, Head(pushing))
      BY <2>2 DEF QueueSuccessor
    <3>2. worklist' \in Seq(Blocks(body))
      BY <1>1, <3>1, AppendProperties DEF Inductive, Shape
    <3> QED
      BY <1>1, <3>1, <3>2, ElementsOf DEF Inductive, Shape
  <2> QED
    BY <2>1, <2>2
<1>3. Waiting' = Waiting
  BY <1>1, <1>2 DEF Waiting, QueueSuccessor, Elements
<1> QED
  BY <1>1, <1>2, <1>3
  DEF QueueSuccessor, Inductive, Shape, EntryNotQueued, QueuedFirst, Settled, WalkedLast, Merged

\* Walking the entry block leaves its successors waiting.
LEMMA KeptByWalkingEntry ==
  ASSUME Inductive, WalkEntry
  PROVE  Inductive'
<1> DEFINE st == ProcessBlock(body, live_out, Entry, entry[Entry])
<1>1. /\ exit' = [exit EXCEPT ![Entry] = Known(st)] /\ errors' = errors \cup st.errs
      /\ walked' = walked \cup {Entry} /\ started' = TRUE
      /\ UNCHANGED <<body, live_out, entry, worklist, pushing>>
  BY DEF WalkEntry
<1>2. Entry \in Blocks(body)
  BY SuccessorsOf, BodiesAssumption DEF Inductive, Shape, IsBody
<1>3. /\ exit' = [b \in Blocks(body) |-> exit'[b]]
      /\ exit'[Entry] = Known(st)
      /\ \A b \in Blocks(body) \ {Entry} : exit'[b] = exit[b]
  BY <1>1, <1>2 DEF Inductive, Shape
<1>4. Waiting' = Waiting
  BY <1>1 DEF Waiting, Elements
<1>5. ASSUME NEW b \in Blocks(body) \ {Entry}, b \notin Waiting PROVE entry[b] = Merged(b)'
  <2>1. b \notin Succs(body, Entry)
    BY <1>5 DEF WalkEntry, Inductive, QueuedFirst
  <2>2. Merge(body, InEdges(body, b), exit) = Merge(body, InEdges(body, b), exit')
    BY <1>3, <2>1, MergeIsLocal
  <2> QED
    BY <1>1, <1>5, <2>2 DEF Inductive, Settled, Merged
<1>6. (Shape /\ EntryNotQueued /\ QueuedFirst /\ Settled)'
  BY <1>1, <1>2, <1>3, <1>4, <1>5
  DEF Inductive, Shape, EntryNotQueued, QueuedFirst, Settled
<1>7. WalkedLast'
  <2> SUFFICES ASSUME NEW b \in walked'
               PROVE  /\ exit'[b] = Known(ProcessBlock(body, live_out, b, entry[b]))
                      /\ ProcessBlock(body, live_out, b, entry[b]).errs \subseteq errors'
    BY <1>1 DEF WalkedLast
  <2>1. CASE b = Entry
    BY <1>1, <1>3, <2>1
  <2>2. CASE b # Entry
    BY <1>1, <1>3, <2>2 DEF Inductive, Shape, WalkedLast
  <2> QED
    BY <2>1, <2>2
<1> QED
  BY <1>6, <1>7 DEF Inductive

\* A block is skipped only when its stored entry state is already the merge.
LEMMA KeptBySkipping ==
  ASSUME Inductive, SkipBlock
  PROVE  Inductive'
<1>1. /\ worklist' \in Seq(Blocks(body))
      /\ Elements(worklist) = {Head(worklist)} \cup Elements(worklist')
      /\ entry[Head(worklist)] = Merged(Head(worklist))
      /\ UNCHANGED <<body, live_out, entry, exit, pushing, started, errors, walked>>
      /\ started
  BY ElementsOf DEF SkipBlock, Popping, Inductive, Shape
<1>2. Waiting = {Head(worklist)} \cup Waiting'
  BY <1>1 DEF Waiting, Elements
<1>3. Settled'
  BY <1>1, <1>2 DEF Inductive, Settled, Merged
<1> QED
  BY <1>1, <1>2, <1>3 DEF Inductive, Shape, EntryNotQueued, QueuedFirst, WalkedLast

\* Walking a block settles it and leaves the successors whose merge may change
\* waiting.
LEMMA KeptByWalking ==
  ASSUME Inductive, WalkBlock
  PROVE  Inductive'
<1> DEFINE b == Head(worklist)
           st == ProcessBlock(body, live_out, b, Merged(b))
<1>1. /\ pushing = <<>> /\ started
      /\ entry' = [entry EXCEPT ![b] = Merged(b)]
      /\ errors' = errors \cup st.errs /\ walked' = walked \cup {b}
      /\ IF Known(st) = exit[b] THEN UNCHANGED <<exit, pushing>>
         ELSE exit' = [exit EXCEPT ![b] = Known(st)] /\ pushing' = Succ(body, b)
      /\ worklist' = Tail(worklist)
      /\ UNCHANGED <<body, live_out, started>>
  BY DEF WalkBlock, Popping
<1>2. /\ b \in Blocks(body) /\ worklist' \in Seq(Blocks(body))
      /\ Elements(worklist) = {b} \cup Elements(worklist')
  BY <1>1, ElementsOf DEF WalkBlock, Popping, Inductive, Shape
<1>3. b # Entry
  BY <1>2 DEF Inductive, EntryNotQueued, Waiting
<1>4. Elements(pushing) = {}
  BY <1>1 DEF Elements
<1>5. /\ entry' = [d \in Blocks(body) |-> entry'[d]] /\ entry'[b] = Merged(b)
      /\ \A d \in Blocks(body) \ {b} : entry'[d] = entry[d]
  BY <1>1, <1>2 DEF Inductive, Shape
<1>6. /\ exit' = [d \in Blocks(body) |-> exit'[d]] /\ exit'[b] = Known(st)
      /\ \A d \in Blocks(body) \ {b} : exit'[d] = exit[d]
  BY <1>1, <1>2 DEF Inductive, Shape
<1>7. /\ pushing' \in Seq(Blocks(body))
      /\ Elements(pushing') \subseteq Succs(body, b)
      /\ exit'[b] # exit[b] => Elements(pushing') = Succs(body, b)
  <2>1. CASE Known(st) = exit[b]
    BY <1>1, <1>4, <1>6, <2>1 DEF Inductive, Shape, Elements
  <2>2. CASE Known(st) # exit[b]
    BY <1>1, <1>2, <2>2, SuccessorsOf DEF Inductive, Shape
  <2> QED
    BY <2>1, <2>2
<1>8. Waiting = {b} \cup Elements(worklist') /\ Waiting' = Elements(worklist') \cup Elements(pushing')
  BY <1>2, <1>4 DEF Waiting, Elements
<1>9. Shape'
  BY <1>1, <1>2, <1>5, <1>6, <1>7 DEF Inductive, Shape
<1>10. EntryNotQueued'
  BY <1>1, <1>2, <1>7, <1>8, SuccessorsOf DEF Inductive, Shape, EntryNotQueued
<1>11. ASSUME NEW d \in Blocks(body) \ {Entry}, d \notin Waiting' PROVE entry'[d] = Merged(d)'
  <2>1. \A p \in Blocks(body) : d \in Succs(body, p) => exit[p] = exit'[p]
    BY <1>6, <1>7, <1>8, <1>11
  <2>2. Merge(body, InEdges(body, d), exit) = Merge(body, InEdges(body, d), exit')
    BY <2>1, MergeIsLocal
  <2>3. Merged(d)' = Merged(d)
    BY <1>1, <2>2 DEF Merged
  <2>4. CASE d = b
    BY <1>5, <2>3, <2>4
  <2>5. CASE d # b
    BY <1>5, <1>8, <1>11, <2>3, <2>5 DEF Inductive, Settled
  <2> QED
    BY <2>4, <2>5
<1>12. WalkedLast'
  <2> SUFFICES ASSUME NEW d \in walked'
               PROVE  /\ exit'[d] = Known(ProcessBlock(body, live_out, d, entry'[d]))
                      /\ ProcessBlock(body, live_out, d, entry'[d]).errs \subseteq errors'
    BY <1>1 DEF WalkedLast
  <2>1. CASE d = b
    BY <1>1, <1>5, <1>6, <2>1
  <2>2. CASE d # b
    BY <1>1, <1>5, <1>6, <2>2 DEF Inductive, Shape, WalkedLast
  <2> QED
    BY <2>1, <2>2
<1> QED
  BY <1>1, <1>9, <1>10, <1>11, <1>12 DEF Inductive, QueuedFirst, Settled

\* Whatever the bodies and the order of the queue: a block whose merged entry
\* state is not the stored one is waiting to be walked.
THEOREM InductiveHolds == Spec => []Inductive
<1>1. Init => Inductive
  BY InductiveAtFirst
<1>2. Inductive /\ [CheckNext]_checker => Inductive'
  <2>1. ASSUME Inductive, UNCHANGED checker PROVE Inductive'
    BY <2>1 DEF checker, Inductive, Shape, EntryNotQueued, QueuedFirst, Settled, WalkedLast,
                Waiting, Merged, Elements
  <2> QED
    BY <2>1, KeptByQueueing, KeptByWalkingEntry, KeptBySkipping, KeptByWalking DEF CheckNext
<1> QED
  BY <1>1, <1>2, PTL DEF Spec

\* When the checker returns, the states solve the dataflow equations: no
\* block was left out of the queue after a change that concerns it.
THEOREM ReachesFixpoint == Spec => []AtFixpoint
<1>1. Inductive => AtFixpoint
  <2> SUFFICES ASSUME Inductive, Checked PROVE AtFixpoint
    BY DEF AtFixpoint
  <2>1. Waiting = {}
    BY DEF Checked, Waiting, Elements
  <2> QED
    BY <2>1 DEF Inductive, Settled, WalkedLast, AtFixpoint
<1> QED
  BY <1>1, InductiveHolds, PTL

\* When the checker returns, whatever walking a block from its final entry
\* state reports has been reported.
THEOREM LosesNoError == Spec => []NoErrorLost
<1>1. Inductive => NoErrorLost
  BY DEF Inductive, WalkedLast, NoErrorLost
<1> QED
  BY <1>1, InductiveHolds, PTL

\* The queue never holds a block twice, however many predecessors change
\* while the block waits.
THEOREM QueuesOnce == Spec => []QueuedOnce
<1> DEFINE Once == worklist \in Seq(Blocks(body)) /\ QueuedOnce
<1>1. Inductive => worklist \in Seq(Blocks(body)) /\ (pushing # <<>> => Head(pushing) \in Blocks(body))
  BY ElementsOf DEF Inductive, Shape
<1>2. Init => Once
  BY InductiveAtFirst, <1>1 DEF Init, QueuedOnce
<1>3. Inductive /\ Once /\ [CheckNext]_checker => Once'
  <2> SUFFICES ASSUME Inductive, Once, [CheckNext]_checker PROVE Once'
    OBVIOUS
  <2>1. CASE QueueSuccessor
    <3>1. CASE Head(pushing) \in Elements(worklist)
      BY <2>1, <3>1 DEF QueueSuccessor, QueuedOnce
    <3>2. CASE Head(pushing) \notin Elements(worklist)
      <4>1. /\ worklist' = Append(worklist, Head(pushing)) /\ body' = body
            /\ Head(pushing) \in Blocks(body)
        BY <1>1, <2>1, <3>2 DEF QueueSuccessor
      <4>2. /\ worklist' \in Seq(Blocks(body)) /\ Len(worklist') = Len(worklist) + 1
            /\ \A i \in 1 .. Len(worklist) : worklist'[i] = worklist[i]
            /\ worklist'[Len(worklist) + 1] = Head(pushing)
        BY <4>1, AppendProperties
      <4>3. DOMAIN worklist = 1 .. Len(worklist) /\ Len(worklist) \in Nat
        OBVIOUS
      <4>4. \A i \in DOMAIN worklist' : i \in DOMAIN worklist \/ i = Len(worklist) + 1
        BY <4>2, <4>3
      <4>5. \A i \in DOMAIN worklist : worklist'[i] = worklist[i] /\ worklist[i] # Head(pushing)
        BY <3>2, <4>2, <4>3 DEF Elements
      <4> QED
        BY <4>1, <4>2, <4>4, <4>5 DEF QueuedOnce
    <3> QED
      BY <3>1, <3>2
  <2>2. CASE SkipBlock \/ WalkBlock
    <3>1. worklist # <<>> /\ worklist' = Tail(worklist) /\ body' = body
      BY <2>2 DEF SkipBlock, WalkBlock, Popping
    <3>2. /\ worklist' \in Seq(Blocks(body)) /\ Len(worklist') = Len(worklist) - 1
          /\ \A i \in 1 .. Len(worklist') : worklist'[i] = worklist[i + 1]
      BY <3>1, HeadTailProperties
    <3>3. DOMAIN worklist = 1 .. Len(worklist) /\ Len(worklist) \in Nat
      OBVIOUS
    <3>4. \A i \in DOMAIN worklist' : i \in Nat /\ i + 1 \in DOMAIN worklist /\ worklist'[i] = worklist[i + 1]
      BY <3>2, <3>3
    <3> QED
      BY <3>1, <3>2, <3>4 DEF QueuedOnce
  <2>3. CASE WalkEntry \/ UNCHANGED checker
    BY <2>3 DEF WalkEntry, checker, QueuedOnce
  <2> QED
    BY <2>1, <2>2, <2>3 DEF CheckNext
<1> QED
  BY <1>2, <1>3, InductiveHolds, PTL DEF Spec

-----------------------------------------------------------------------------
(* Induction *)

\* Induction over the natural numbers, for a set of them.
LEMMA SetInduction ==
  ASSUME NEW S, 0 \in S, \A n \in Nat : n \in S => n + 1 \in S
  PROVE  Nat \subseteq S
<1> DEFINE missing == Nat \ S
<1>1. SUFFICES ASSUME missing # {} PROVE FALSE
  OBVIOUS
<1>2. \E i \in missing : \A j \in missing : ~ (<<j, i>> \in OpToRel(<, Nat))
  <2>1. missing \subseteq Nat /\ missing # {}
    BY <1>1
  <2> HIDE DEF missing
  <2> QED
    BY <2>1, NatLessThanWellFounded, WFMin
<1>3. PICK i \in missing : \A j \in missing : ~ (j < i)
  BY <1>2 DEF OpToRel
<1>4. i # 0
  OBVIOUS
<1>5. i - 1 \in Nat /\ i - 1 < i /\ i = (i - 1) + 1
  BY <1>4
<1>6. i - 1 \in S
  BY <1>3, <1>5
<1> QED
  BY <1>5, <1>6

-----------------------------------------------------------------------------
(* Walking a block *)

\* A function with the states after each statement of b.
Walks(bd, out, b, st, n, f) ==
  f = [k \in 0 .. n |-> IF k = 0 THEN Walking(st)
                        ELSE The({Step(bd, out, b, k, x) : x \in {f[k - 1]}})]

LEMMA WalksIs ==
  ASSUME NEW bd, NEW out, NEW b, NEW st, NEW n \in Nat, NEW f
  PROVE  Walks(bd, out, b, st, n, f) <=>
           f = [k \in 0 .. n |-> IF k = 0 THEN Walking(st) ELSE Step(bd, out, b, k, f[k - 1])]
<1>1. ASSUME NEW k, NEW x0 PROVE The({Step(bd, out, b, k, x) : x \in {x0}}) = Step(bd, out, b, k, x0)
  <2> DEFINE y == Step(bd, out, b, k, x0)
  <2>1. {Step(bd, out, b, k, x) : x \in {x0}} = {y}
    OBVIOUS
  <2> HIDE DEF y
  <2>2. The({y}) = y
    BY DEF The
  <2> QED
    BY <2>1, <2>2 DEF y
<1>2. ASSUME NEW k \in 0 .. n
      PROVE  (IF k = 0 THEN Walking(st) ELSE The({Step(bd, out, b, k, x) : x \in {f[k - 1]}}))
              = (IF k = 0 THEN Walking(st) ELSE Step(bd, out, b, k, f[k - 1]))
  BY <1>1
<1>3. [k \in 0 .. n |-> IF k = 0 THEN Walking(st) ELSE The({Step(bd, out, b, k, x) : x \in {f[k - 1]}})]
        = [k \in 0 .. n |-> IF k = 0 THEN Walking(st) ELSE Step(bd, out, b, k, f[k - 1])]
  BY <1>2
<1> QED
  BY <1>3 DEF Walks

LEMMA WalkExists ==
  ASSUME NEW bd, NEW out, NEW b, NEW st, NEW n \in Nat
  PROVE  \E f : Walks(bd, out, b, st, n, f)
<1> DEFINE Is(m, f) == f = [k \in 0 .. m |-> IF k = 0 THEN Walking(st) ELSE Step(bd, out, b, k, f[k - 1])]
           long == {m \in Nat : \E f : Is(m, f)}
<1>1. 0 \in long
  <2> DEFINE f == [k \in 0 .. 0 |-> Walking(st)]
  <2>1. Is(0, f)
    OBVIOUS
  <2> QED
    BY <2>1
<1>2. ASSUME NEW m \in Nat, m \in long PROVE m + 1 \in long
  <2>1. PICK f : Is(m, f)
    BY <1>2
  <2> DEFINE g == [k \in 0 .. (m + 1) |-> IF k = m + 1 THEN Step(bd, out, b, k, f[m]) ELSE f[k]]
  <2>2. \A k \in 0 .. m : g[k] = f[k]
    OBVIOUS
  <2>3. ASSUME NEW k \in 0 .. (m + 1)
        PROVE  g[k] = IF k = 0 THEN Walking(st) ELSE Step(bd, out, b, k, g[k - 1])
    <3>1. CASE k = m + 1
      <4>1. g[k] = Step(bd, out, b, k, f[m]) /\ k - 1 = m /\ k # 0 /\ m \in 0 .. m
        BY <3>1
      <4> HIDE DEF g
      <4> QED
        BY <2>2, <4>1
    <3>2. CASE k # m + 1
      <4>1. k \in 0 .. m /\ (k # 0 => k - 1 \in 0 .. m)
        BY <3>2
      <4>2. f[k] = IF k = 0 THEN Walking(st) ELSE Step(bd, out, b, k, f[k - 1])
        BY <2>1, <4>1
      <4> HIDE DEF g
      <4> QED
        BY <2>2, <4>1, <4>2
    <3> QED
      BY <3>1, <3>2
  <2>4. g = [k \in 0 .. (m + 1) |-> g[k]]
    OBVIOUS
  <2>5. Is(m + 1, g)
    <3> HIDE DEF g
    <3> QED
      BY <2>3, <2>4
  <2> QED
    <3> HIDE DEF g, Is
    <3> QED
      BY <2>5
<1>3. n \in long
  <2> HIDE DEF long
  <2> QED
    BY <1>1, <1>2, SetInduction
<1> QED
  BY <1>3, WalksIs

\* The state after a statement comes from the state before it.
LEMMA StateAtIs ==
  ASSUME NEW bd, NEW out, NEW b, NEW st, NEW n \in Nat
  PROVE  /\ StateAt(bd, out, b, st, 0) = Walking(st)
         /\ StateAt(bd, out, b, st, n + 1) = Step(bd, out, b, n + 1, StateAt(bd, out, b, st, n))
<1> DEFINE F(m) == CHOOSE f : Walks(bd, out, b, st, m, f)
<1>1. ASSUME NEW m \in Nat
      PROVE  /\ StateAt(bd, out, b, st, m) = F(m)[m]
             /\ F(m) = [k \in 0 .. m |-> IF k = 0 THEN Walking(st) ELSE Step(bd, out, b, k, F(m)[k - 1])]
  <2>1. StateAt(bd, out, b, st, m) = F(m)[m]
    BY DEF StateAt, Walks
  <2>2. Walks(bd, out, b, st, m, F(m))
    BY WalkExists
  <2> HIDE DEF F
  <2> QED
    BY <2>1, <2>2, WalksIs
<1> HIDE DEF F
<1>2. \A k \in 0 .. n : F(n)[k] = F(n + 1)[k]
  <2> DEFINE same == {k \in Nat : k \in 0 .. n => F(n)[k] = F(n + 1)[k]}
  <2>1. 0 \in same
    BY <1>1
  <2>2. ASSUME NEW k \in Nat, k \in same PROVE k + 1 \in same
    <3> SUFFICES ASSUME k + 1 \in 0 .. n PROVE F(n)[k + 1] = F(n + 1)[k + 1]
      OBVIOUS
    <3>1. k \in 0 .. n /\ k + 1 \in 0 .. (n + 1) /\ k + 1 # 0 /\ (k + 1) - 1 = k
      OBVIOUS
    <3>2. F(n)[k] = F(n + 1)[k]
      BY <2>2, <3>1
    <3>3. F(n)[k + 1] = Step(bd, out, b, k + 1, F(n)[k])
      BY <1>1, <3>1
    <3>4. F(n + 1)[k + 1] = Step(bd, out, b, k + 1, F(n + 1)[k])
      BY <1>1, <3>1
    <3> QED
      BY <3>2, <3>3, <3>4
  <2>3. Nat \subseteq same
    <3> HIDE DEF same
    <3> QED
      BY <2>1, <2>2, SetInduction
  <2> QED
    BY <2>3
<1>3. F(n + 1)[n + 1] = Step(bd, out, b, n + 1, F(n + 1)[n])
  <2>1. n + 1 \in 0 .. (n + 1) /\ n + 1 # 0 /\ (n + 1) - 1 = n
    OBVIOUS
  <2> QED
    BY <1>1, <2>1
<1>4. F(0)[0] = Walking(st)
  BY <1>1
<1> QED
  BY <1>1, <1>2, <1>3, <1>4

-----------------------------------------------------------------------------
(* What a statement does to what is known *)

IsKnown(bd, st) == DOMAIN st.vs = Locals(bd) /\ DOMAIN st.pm = Locals(bd)
IsWalk(bd, st) == DOMAIN st = {"vs", "loans", "pm", "errs"} /\ IsKnown(bd, st)

Put(f, x, v) == [f EXCEPT ![x] = v]

LEMMA OwnIs ==
  ASSUME NEW bd, NEW st, NEW x, IsWalk(bd, st)
  PROVE  /\ IsWalk(bd, Own(st, x)) /\ Own(st, x).errs = st.errs
         /\ Own(st, x).vs = Put(st.vs, x, "Owned") /\ Own(st, x).pm = st.pm
BY DEF Own, IsWalk, IsKnown, Put

LEMMA AfterDropIs ==
  ASSUME NEW bd, NEW st, NEW x, IsWalk(bd, st)
  PROVE  /\ IsWalk(bd, AfterDrop(st, x)) /\ AfterDrop(st, x).errs = st.errs
         /\ AfterDrop(st, x).vs = Put(st.vs, x, IF st.vs[x] = "Moved" THEN st.vs[x] ELSE "Ended")
         /\ AfterDrop(st, x).pm = st.pm
BY DEF AfterDrop, IsWalk, IsKnown, Put

LEMMA AfterBorrowIs ==
  ASSUME NEW bd, NEW st, NEW at, NEW s, IsWalk(bd, st)
  PROVE  /\ IsWalk(bd, AfterBorrow(st, at, s))
         /\ AfterBorrow(st, at, s).errs = st.errs
         /\ AfterBorrow(st, at, s).vs =
              Put(IF s.form \in Strong THEN Put(st.vs, s.src.local, "Moved") ELSE st.vs,
                  s.dest.local, "Owned")
         /\ AfterBorrow(st, at, s).pm = st.pm
<1> DEFINE loan == [source |-> LoanSource(st, s), dest |-> s.dest.local, form |-> s.form,
                    at |-> at, prop |-> FALSE]
           lent == IF s.form \in Strong THEN [st EXCEPT !.vs[s.src.local] = "Moved"]
                   ELSE [st EXCEPT !.loans = @ \cup {loan}]
<1>1. AfterBorrow(st, at, s) = Own(lent, s.dest.local)
  BY DEF AfterBorrow
<1> HIDE DEF loan
<1>2. /\ IsWalk(bd, lent) /\ lent.errs = st.errs /\ lent.pm = st.pm
      /\ lent.vs = IF s.form \in Strong THEN Put(st.vs, s.src.local, "Moved") ELSE st.vs
  BY DEF IsWalk, IsKnown, Put
<1> HIDE DEF lent
<1> QED
  BY <1>1, <1>2, OwnIs

\* The state after an assignment, but for the loans.
StateLeft(bd, st, s) == IF MovesWhole(bd, s) THEN "Moved" ELSE st.vs[s.src.local]

PathsLeft(bd, st, s) ==
  LET open == PathsMoved(bd, st, s)[s.dest.local]
  IN  IF s.dest.proj = <<>> THEN {}
      ELSE IF IsFieldPath(s.dest.proj) THEN open \ {s.dest.proj} ELSE open

LEMMA AfterAssignIs ==
  ASSUME NEW bd, NEW st, NEW at, NEW s, IsWalk(bd, st)
  PROVE  LET e == AfterAssign(bd, st, at, s)
         IN  /\ IsWalk(bd, e) /\ e.errs = st.errs
             /\ e.vs = Put(Put(st.vs, s.src.local, StateLeft(bd, st, s)), s.dest.local, "Owned")
             /\ DOMAIN PathsMoved(bd, st, s) = Locals(bd)
             /\ e.pm = Put(PathsMoved(bd, st, s), s.dest.local, PathsLeft(bd, st, s))
<1> DEFINE open == PathsMoved(bd, st, s)
           moves == MovesWhole(bd, s)
           more == Reissued(bd, st, at, s)
           read == [st EXCEPT !.loans = @ \cup more,
                              !.pm = open,
                              !.vs[s.src.local] = IF moves THEN "Moved" ELSE @]
           d == s.dest.local
           paths == IF s.dest.proj = <<>> THEN {}
                    ELSE IF IsFieldPath(s.dest.proj) THEN read.pm[d] \ {s.dest.proj} ELSE read.pm[d]
           filled == [read EXCEPT !.pm[d] = paths]
<1>1. AfterAssign(bd, st, at, s) = Own(filled, d)
  BY DEF AfterAssign
<1>2. DOMAIN open = Locals(bd)
  BY DEF PathsMoved, IsWalk, IsKnown
<1> HIDE DEF open, more, moves
<1>3. /\ IsWalk(bd, read) /\ read.pm = open /\ read.errs = st.errs
      /\ read.vs = Put(st.vs, s.src.local, IF moves THEN "Moved" ELSE st.vs[s.src.local])
  BY <1>2 DEF IsWalk, IsKnown, Put
<1> HIDE DEF read
<1>5. paths = IF s.dest.proj = <<>> THEN {}
              ELSE IF IsFieldPath(s.dest.proj) THEN open[d] \ {s.dest.proj} ELSE open[d]
  BY <1>3
<1> HIDE DEF paths
<1>4. /\ IsWalk(bd, filled) /\ filled.errs = st.errs /\ filled.vs = read.vs
      /\ filled.pm = Put(open, d, paths)
  BY <1>3 DEF IsWalk, IsKnown, Put
<1> HIDE DEF filled
<1>6. LET e == AfterAssign(bd, st, at, s)
      IN  /\ IsWalk(bd, e) /\ e.errs = st.errs
          /\ e.vs = Put(read.vs, d, "Owned") /\ e.pm = Put(open, d, paths)
  BY <1>1, <1>4, OwnIs
<1> QED
  BY <1>2, <1>3, <1>5, <1>6 DEF open, moves, StateLeft, PathsLeft

\* The same for the statements that have no operator of their own.
LEMMA SmallEffects ==
  ASSUME NEW bd, NEW st, NEW at, NEW s, IsWalk(bd, st)
  PROVE  LET e == Effect(bd, st, at, s)
         IN  /\ s.op = "StorageLive" =>
                  /\ IsWalk(bd, e) /\ e.errs = st.errs
                  /\ e.vs = Put(st.vs, s.local, "Owned") /\ e.pm = Put(st.pm, s.local, {})
             /\ s.op = "StorageDead" =>
                  /\ IsWalk(bd, e) /\ e.errs = st.errs
                  /\ e.vs = Put(st.vs, s.local, "None") /\ e.pm = st.pm
             /\ s.op = "Deinit" =>
                  /\ IsWalk(bd, e) /\ e.errs = st.errs
                  /\ e.vs = Put(st.vs, s.local, "Moved") /\ e.pm = st.pm
<1> DEFINE e == Effect(bd, st, at, s)
<1>1. ASSUME s.op = "StorageLive"
      PROVE  /\ IsWalk(bd, e) /\ e.errs = st.errs
             /\ e.vs = Put(st.vs, s.local, "Owned") /\ e.pm = Put(st.pm, s.local, {})
  <2> DEFINE own == Own(st, s.local)
  <2>1. e = [own EXCEPT !.pm[s.local] = {}]
    BY <1>1, Zenon DEF Effect
  <2>2. /\ IsWalk(bd, own) /\ own.errs = st.errs
        /\ own.vs = Put(st.vs, s.local, "Owned") /\ own.pm = st.pm
    BY OwnIs
  <2> HIDE DEF e, own
  <2> QED
    BY <2>1, <2>2 DEF IsWalk, IsKnown, Put
<1>2. ASSUME s.op = "StorageDead"
      PROVE  /\ IsWalk(bd, e) /\ e.errs = st.errs
             /\ e.vs = Put(st.vs, s.local, "None") /\ e.pm = st.pm
  <2> DEFINE left == {m \in st.loans : m.source.local # s.local}
  <2>1. e = [st EXCEPT !.vs[s.local] = "None", !.loans = left]
    BY <1>2, Zenon DEF Effect
  <2> HIDE DEF e, left
  <2> QED
    BY <2>1 DEF IsWalk, IsKnown, Put
<1>3. ASSUME s.op = "Deinit"
      PROVE  /\ IsWalk(bd, e) /\ e.errs = st.errs
             /\ e.vs = Put(st.vs, s.local, "Moved") /\ e.pm = st.pm
  <2>1. e = [st EXCEPT !.vs[s.local] = "Moved"]
    BY <1>3, Zenon DEF Effect
  <2> HIDE DEF e
  <2> QED
    BY <2>1 DEF IsWalk, IsKnown, Put
<1> QED
  BY <1>1, <1>2, <1>3

LEMMA EffectIs ==
  ASSUME NEW bd, NEW st, NEW at, NEW s
  PROVE  /\ s.op = "Borrow" => Effect(bd, st, at, s) = AfterBorrow(st, at, s)
         /\ s.op = "Assign" => Effect(bd, st, at, s) = AfterAssign(bd, st, at, s)
         /\ s.op \in {"Const", "BinaryOp", "GetDiscriminant"}
              => Effect(bd, st, at, s) = Own(st, s.dest.local)
         /\ s.op = "Drop" => Effect(bd, st, at, s) = AfterDrop(st, s.local)
         /\ s.op \notin {"StorageLive", "StorageDead", "Deinit", "Borrow", "Assign", "Const",
                         "BinaryOp", "GetDiscriminant", "Drop"} => Effect(bd, st, at, s) = st
BY Zenon DEF Effect

\* A statement keeps the form of a state, and reports nothing by itself.
LEMMA EffectKeepsForm ==
  ASSUME NEW bd, NEW st, NEW at, NEW s, IsWalk(bd, st)
  PROVE  IsWalk(bd, Effect(bd, st, at, s)) /\ Effect(bd, st, at, s).errs = st.errs
<1>1. CASE s.op \in {"StorageLive", "StorageDead", "Deinit"}
  BY <1>1, SmallEffects
<1>2. CASE s.op = "Borrow"
  <2>1. Effect(bd, st, at, s) = AfterBorrow(st, at, s)
    BY <1>2, EffectIs
  <2> QED
    BY <2>1, AfterBorrowIs
<1>3. CASE s.op = "Assign"
  <2>1. Effect(bd, st, at, s) = AfterAssign(bd, st, at, s)
    BY <1>3, EffectIs
  <2> QED
    BY <2>1, AfterAssignIs
<1>4. CASE s.op \in {"Const", "BinaryOp", "GetDiscriminant"}
  <2>1. Effect(bd, st, at, s) = Own(st, s.dest.local)
    BY <1>4, EffectIs
  <2> QED
    BY <2>1, OwnIs
<1>5. CASE s.op = "Drop"
  <2>1. Effect(bd, st, at, s) = AfterDrop(st, s.local)
    BY <1>5, EffectIs
  <2> QED
    BY <2>1, AfterDropIs
<1>6. CASE s.op \notin {"StorageLive", "StorageDead", "Deinit", "Borrow", "Assign", "Const",
                        "BinaryOp", "GetDiscriminant", "Drop"}
  BY <1>6, EffectIs
<1> QED
  BY <1>1, <1>2, <1>3, <1>4, <1>5, <1>6

\* Loans that end are no concern here.
LEMMA StepIs ==
  ASSUME NEW bd, NEW out, NEW b, NEW i, NEW st, IsWalk(bd, st)
  PROVE  LET s == Stmts(bd, b)[i]
             t == Step(bd, out, b, i, st)
             e == Effect(bd, st, <<b, i>>, s)
         IN  /\ IsWalk(bd, t) /\ t.vs = e.vs /\ t.pm = e.pm
             /\ t.errs = st.errs \cup StmtErrors(bd, out, st, <<b, i>>, s)
<1> DEFINE s == Stmts(bd, b)[i]
           e == Effect(bd, st, <<b, i>>, s)
           new == StmtErrors(bd, out, st, <<b, i>>, s)
           told == [e EXCEPT !.errs = @ \cup new]
<1>1. IsWalk(bd, e) /\ e.errs = st.errs
  BY EffectKeepsForm
<1>2. Step(bd, out, b, i, st) = EndLoans(bd, out, <<b, i>>, told)
  BY DEF Step
<1> HIDE DEF e, new
<1>3. IsWalk(bd, told) /\ told.vs = e.vs /\ told.pm = e.pm /\ told.errs = e.errs \cup new
  BY <1>1 DEF IsWalk, IsKnown
<1> HIDE DEF told
<1>4. LET t == EndLoans(bd, out, <<b, i>>, told)
      IN  IsWalk(bd, t) /\ t.vs = told.vs /\ t.pm = told.pm /\ t.errs = told.errs
  BY <1>3 DEF EndLoans, IsWalk, IsKnown
<1> QED
  BY <1>1, <1>2, <1>3, <1>4 DEF e, new

LEMMA StepMoves ==
  ASSUME NEW bd, NEW out, NEW b, NEW i, NEW st, IsWalk(bd, st)
  PROVE  /\ Step(bd, out, b, i, st).vs = Effect(bd, st, <<b, i>>, Stmts(bd, b)[i]).vs
         /\ Step(bd, out, b, i, st).pm = Effect(bd, st, <<b, i>>, Stmts(bd, b)[i]).pm
BY StepIs

\* A call changes what is known of its arguments only.
LEMMA TerminateIs ==
  ASSUME NEW bd, NEW out, NEW b, NEW st, IsWalk(bd, st)
  PROVE  LET t == Term(bd, b)
             at == <<b, Len(Stmts(bd, b)) + 1>>
             lent == [st EXCEPT !.loans = @ \cup ResultLoans(st, at, t)]
             x == Terminate(bd, out, b, st)
         IN  /\ IsWalk(bd, x) /\ IsWalk(bd, lent) /\ lent.vs = st.vs /\ lent.pm = st.pm
             /\ x.pm = st.pm
             /\ x.vs = IF IsCall(t) THEN AfterPass(bd, lent, t).vs ELSE st.vs
             /\ st.errs \subseteq x.errs
             /\ TermReadErrors(bd, st, t) \subseteq x.errs
             /\ IsCall(t) => PassErrors(bd, lent, t) \subseteq x.errs
<1> DEFINE t == Term(bd, b)
           at == <<b, Len(Stmts(bd, b)) + 1>>
           lent == [st EXCEPT !.loans = @ \cup ResultLoans(st, at, t)]
           after == IF IsCall(t) THEN AfterPass(bd, lent, t) ELSE st
           new == TermReadErrors(bd, st, t)
                  \cup (IF IsCall(t) THEN MutationErrors(lent, t) \cup PassErrors(bd, lent, t) ELSE {})
           told == [after EXCEPT !.errs = @ \cup new]
<1>1. Terminate(bd, out, b, st) = EndLoans(bd, out, at, told)
  BY DEF Terminate
<1>2. IsWalk(bd, lent) /\ lent.vs = st.vs /\ lent.pm = st.pm /\ lent.errs = st.errs
  <2> DEFINE more == ResultLoans(st, at, t)
  <2> HIDE DEF more
  <2>1. LET x == [st EXCEPT !.loans = @ \cup more]
        IN  IsWalk(bd, x) /\ x.vs = st.vs /\ x.pm = st.pm /\ x.errs = st.errs
    BY DEF IsWalk, IsKnown
  <2> QED
    BY <2>1 DEF more
<1>3. new = TermReadErrors(bd, st, t)
            \cup (IF IsCall(t) THEN MutationErrors(lent, t) \cup PassErrors(bd, lent, t) ELSE {})
  OBVIOUS
<1> HIDE DEF lent, new
<1>4. LET x == AfterPass(bd, lent, t)
      IN  IsWalk(bd, x) /\ x.pm = lent.pm /\ x.errs = lent.errs
  BY <1>2 DEF AfterPass, IsWalk, IsKnown
<1>5. /\ IsWalk(bd, after) /\ after.pm = st.pm /\ after.errs = st.errs
      /\ after.vs = IF IsCall(t) THEN AfterPass(bd, lent, t).vs ELSE st.vs
  BY <1>2, <1>4
<1> HIDE DEF after
<1>6. IsWalk(bd, told) /\ told.vs = after.vs /\ told.pm = after.pm /\ told.errs = after.errs \cup new
  BY <1>5 DEF IsWalk, IsKnown
<1> HIDE DEF told
<1>7. LET x == EndLoans(bd, out, at, told)
      IN  IsWalk(bd, x) /\ x.vs = told.vs /\ x.pm = told.pm /\ x.errs = told.errs
  BY <1>6 DEF EndLoans, IsWalk, IsKnown
<1> QED
  BY <1>1, <1>2, <1>3, <1>5, <1>6, <1>7 DEF lent

\* The state at the terminator, with the loans of the result.
Lent(bd, b, st) ==
  [st EXCEPT !.loans = @ \cup ResultLoans(st, <<b, Len(Stmts(bd, b)) + 1>>, Term(bd, b))]

LEMMA TerminateMoves ==
  ASSUME NEW bd, NEW out, NEW b, NEW st, IsWalk(bd, st)
  PROVE  /\ Terminate(bd, out, b, st).pm = st.pm
         /\ IsWalk(bd, Lent(bd, b, st)) /\ Lent(bd, b, st).vs = st.vs
         /\ Terminate(bd, out, b, st).vs
              = IF IsCall(Term(bd, b)) THEN AfterPass(bd, Lent(bd, b, st), Term(bd, b)).vs ELSE st.vs
BY TerminateIs DEF Lent

-----------------------------------------------------------------------------
(* A block the checker has nothing against *)

\* Walking a block keeps the form of a state and gathers what is reported.
LEMMA WalkKeepsForm ==
  ASSUME NEW bd, NEW out, NEW b, NEW st, IsKnown(bd, st), NEW i \in Nat
  PROVE  IsWalk(bd, StateAt(bd, out, b, st, i))
<1> DEFINE good == {k \in Nat : IsWalk(bd, StateAt(bd, out, b, st, k))}
<1>1. 0 \in good
  <2>1. IsWalk(bd, Walking(st))
    BY DEF Walking, IsWalk, IsKnown
  <2> QED
    BY <2>1, StateAtIs
<1>2. ASSUME NEW k \in Nat, k \in good PROVE k + 1 \in good
  <2> DEFINE before == StateAt(bd, out, b, st, k)
  <2>1. StateAt(bd, out, b, st, k + 1) = Step(bd, out, b, k + 1, before)
    BY StateAtIs
  <2>2. IsWalk(bd, before)
    BY <1>2
  <2> HIDE DEF before
  <2>3. IsWalk(bd, Step(bd, out, b, k + 1, before))
    BY <2>2, StepIs
  <2> QED
    BY <2>1, <2>3
<1>3. Nat \subseteq good
  <2> HIDE DEF good
  <2> QED
    BY <1>1, <1>2, SetInduction
<1> QED
  BY <1>3

\* What is reported before a statement is reported after the block.
LEMMA ErrorsGather ==
  ASSUME NEW bd, NEW out, NEW b, NEW st, IsKnown(bd, st), NEW i \in Nat, NEW n \in Nat, i <= n
  PROVE  StateAt(bd, out, b, st, i).errs \subseteq StateAt(bd, out, b, st, n).errs
<1> DEFINE good == {k \in Nat : i <= k => StateAt(bd, out, b, st, i).errs
                                            \subseteq StateAt(bd, out, b, st, k).errs}
<1>1. 0 \in good
  <2>1. i <= 0 => i = 0
    OBVIOUS
  <2> QED
    BY <2>1
<1>2. ASSUME NEW k \in Nat, k \in good PROVE k + 1 \in good
  <2> DEFINE before == StateAt(bd, out, b, st, k)
             after == StateAt(bd, out, b, st, k + 1)
             new == StmtErrors(bd, out, before, <<b, k + 1>>, Stmts(bd, b)[k + 1])
  <2>1. after = Step(bd, out, b, k + 1, before)
    BY StateAtIs
  <2>2. IsWalk(bd, before)
    BY WalkKeepsForm
  <2>3. Step(bd, out, b, k + 1, before).errs = before.errs \cup new
    <3> HIDE DEF before
    <3> QED
      BY <2>2, StepIs
  <2>4. before.errs \subseteq after.errs
    <3> HIDE DEF before, after, new
    <3> QED
      BY <2>1, <2>3
  <2>5. i <= k + 1 => i <= k \/ i = k + 1
    OBVIOUS
  <2> QED
    BY <1>2, <2>4, <2>5
<1>3. Nat \subseteq good
  <2> HIDE DEF good
  <2> QED
    BY <1>1, <1>2, SetInduction
<1> QED
  BY <1>3

\* Where a walk reports nothing, no statement and no terminator does.
LEMMA NothingReported ==
  ASSUME NEW bd, NEW out, NEW b, NEW st, IsKnown(bd, st), Len(Stmts(bd, b)) \in Nat,
         ProcessBlock(bd, out, b, st).errs = {}
  PROVE  /\ \A i \in 1 .. Len(Stmts(bd, b)) :
              StmtErrors(bd, out, StateAt(bd, out, b, st, i - 1), <<b, i>>, Stmts(bd, b)[i]) = {}
         /\ LET last == StateAt(bd, out, b, st, Len(Stmts(bd, b)))
                t == Term(bd, b)
            IN  /\ TermReadErrors(bd, last, t) = {}
                /\ IsCall(t) => PassErrors(bd, Lent(bd, b, last), t) = {}
<1> DEFINE n == Len(Stmts(bd, b))
           last == StateAt(bd, out, b, st, n)
           t == Term(bd, b)
           lent == Lent(bd, b, last)
<1>1. IsWalk(bd, last)
  BY WalkKeepsForm
<1>2. Terminate(bd, out, b, last).errs = {}
  BY DEF ProcessBlock
<1>3. /\ last.errs = {} /\ TermReadErrors(bd, last, t) = {}
      /\ IsCall(t) => PassErrors(bd, lent, t) = {}
  <2> HIDE DEF last
  <2>1. /\ last.errs \subseteq Terminate(bd, out, b, last).errs
        /\ TermReadErrors(bd, last, t) \subseteq Terminate(bd, out, b, last).errs
        /\ IsCall(t) => PassErrors(bd, lent, t) \subseteq Terminate(bd, out, b, last).errs
    BY <1>1, TerminateIs DEF Lent
  <2> QED
    BY <1>2, <2>1
<1>4. ASSUME NEW i \in 1 .. n
      PROVE  StmtErrors(bd, out, StateAt(bd, out, b, st, i - 1), <<b, i>>, Stmts(bd, b)[i]) = {}
  <2> DEFINE k == i - 1
             before == StateAt(bd, out, b, st, k)
             new == StmtErrors(bd, out, before, <<b, i>>, Stmts(bd, b)[i])
  <2>1. k \in Nat /\ i \in Nat /\ k + 1 = i /\ i <= n
    OBVIOUS
  <2>2. StateAt(bd, out, b, st, i) = Step(bd, out, b, i, before)
    <3> HIDE DEF k
    <3>1. StateAt(bd, out, b, st, k + 1) = Step(bd, out, b, k + 1, StateAt(bd, out, b, st, k))
      BY <2>1, StateAtIs
    <3> QED
      BY <2>1, <3>1
  <2>3. IsWalk(bd, before)
    <3> HIDE DEF k
    <3> QED
      BY <2>1, WalkKeepsForm
  <2>4. Step(bd, out, b, i, before).errs = before.errs \cup new
    <3> HIDE DEF before
    <3> QED
      BY <2>3, StepIs
  <2>5. StateAt(bd, out, b, st, i).errs \subseteq last.errs
    <3> HIDE DEF k
    <3> QED
      BY <2>1, ErrorsGather
  <2> HIDE DEF before, last, new
  <2>6. new = {}
    BY <1>3, <2>2, <2>4, <2>5
  <2> QED
    BY <2>6 DEF before, new
<1> QED
  BY <1>3, <1>4

-----------------------------------------------------------------------------
(* Moves and the statements of a block *)

\* One position further.
LEMMA SinceNext ==
  ASSUME NEW E \in SUBSET Nat, NEW R \in SUBSET Nat, NEW i \in Nat, NEW before
  PROVE  Since(E, R, i + 1, before) <=> i \notin R /\ (i \in E \/ Since(E, R, i, before))
<1>1. \A j \in Nat : j < i + 1 <=> j < i \/ j = i
  OBVIOUS
<1>2. ASSUME Since(E, R, i + 1, before) PROVE i \notin R /\ (i \in E \/ Since(E, R, i, before))
  <2>1. CASE \E j \in E : j < i + 1 /\ \A k \in R : k < i + 1 => k < j
    <3>1. PICK j \in E : j < i + 1 /\ \A k \in R : k < i + 1 => k < j
      BY <2>1
    <3>2. i \notin R
      BY <3>1
    <3>3. CASE j = i
      BY <3>2, <3>3
    <3>4. CASE j < i
      <4>1. \A k \in R : k < i => k < j
        BY <3>1
      <4> QED
        BY <3>2, <3>4, <4>1 DEF Since
    <3> QED
      BY <1>1, <3>1, <3>3, <3>4
  <2>2. CASE before /\ \A k \in R : ~ (k < i + 1)
    <3>1. i \notin R /\ \A k \in R : ~ (k < i)
      BY <2>2
    <3> QED
      BY <2>2, <3>1 DEF Since
  <2> QED
    BY <1>2, <2>1, <2>2 DEF Since
<1>3. ASSUME i \notin R, i \in E PROVE Since(E, R, i + 1, before)
  <2>1. \A k \in R : k < i + 1 => k < i
    BY <1>1, <1>3
  <2> QED
    BY <1>3, <2>1 DEF Since
<1>4. ASSUME i \notin R, Since(E, R, i, before) PROVE Since(E, R, i + 1, before)
  <2>1. \A k \in R : k < i + 1 => k < i
    BY <1>1, <1>4
  <2>2. \A j \in E : j < i => j < i + 1
    OBVIOUS
  <2>3. CASE \E j \in E : j < i /\ \A k \in R : k < i => k < j
    BY <2>1, <2>2, <2>3 DEF Since
  <2>4. CASE before /\ \A k \in R : ~ (k < i)
    BY <2>1, <2>4 DEF Since
  <2> QED
    BY <1>4, <2>3, <2>4 DEF Since
<1> QED
  BY <1>2, <1>3, <1>4

LEMMA SinceAtFirst ==
  ASSUME NEW E \in SUBSET (Nat \ {0}), NEW R \in SUBSET (Nat \ {0}), NEW before \in BOOLEAN
  PROVE  Since(E, R, 1, before) <=> before
<1>1. \A j \in Nat \ {0} : ~ (j < 1)
  OBVIOUS
<1> QED
  BY <1>1 DEF Since

\* Positions are positions.
LEMMA PositionsAre ==
  ASSUME NEW bd, NEW b, Len(Stmts(bd, b)) \in Nat, NEW l
  PROVE  /\ Takes(bd, b, l) \subseteq Nat \ {0}
         /\ Ends(bd, b, l) \subseteq Nat \ {0}
         /\ Renews(bd, b, l) \subseteq Nat \ {0}
<1>1. 1 .. Len(Stmts(bd, b)) \subseteq Nat \ {0} /\ Len(Stmts(bd, b)) + 1 \in Nat \ {0}
  OBVIOUS
<1> QED
  BY <1>1 DEF Takes, Ends, Renews

\* Whether statement i of b does one of these things to l.
TakesIt(bd, s, l) ==
  \/ s.op = "Deinit" /\ s.local = l
  \/ s.op = "Borrow" /\ s.form \in Strong /\ s.src.local = l
  \/ s.op = "Assign" /\ MovesWhole(bd, s) /\ s.src.local = l

RenewsIt(s, l) ==
  \/ s.op = "StorageLive" /\ s.local = l
  \/ s.op = "Assign" /\ s.dest.local = l /\ s.dest.proj = <<>>
  \/ s.op \in {"Borrow", "Const", "BinaryOp", "GetDiscriminant"} /\ s.dest.local = l

EndsIt(s, l) == s.op = "StorageDead" /\ s.local = l

LEMMA StatementDoes ==
  ASSUME NEW bd, NEW b, Len(Stmts(bd, b)) \in Nat, NEW l, NEW i \in 1 .. Len(Stmts(bd, b))
  PROVE  /\ i \in Takes(bd, b, l) <=> TakesIt(bd, Stmts(bd, b)[i], l)
         /\ i \in Renews(bd, b, l) <=> RenewsIt(Stmts(bd, b)[i], l)
         /\ i \in Ends(bd, b, l) <=> EndsIt(Stmts(bd, b)[i], l)
<1>1. i # Len(Stmts(bd, b)) + 1
  OBVIOUS
<1> QED
  BY <1>1 DEF Takes, Renews, Ends, TakesIt, RenewsIt, EndsIt

LEMMA TerminatorDoes ==
  ASSUME NEW bd, NEW b, Len(Stmts(bd, b)) \in Nat, NEW l
  PROVE  LET t == Term(bd, b)
             last == Len(Stmts(bd, b)) + 1
         IN  /\ last \in Takes(bd, b, l) <=> IsCall(t) /\ \E k \in Taken(bd, t) : ArgAt(t, k) = l
             /\ last \in Renews(bd, b, l) <=> IsCall(t) /\ l \in Elements(t.dest)
             /\ last \notin Ends(bd, b, l)
<1>1. Len(Stmts(bd, b)) + 1 \notin 1 .. Len(Stmts(bd, b))
  OBVIOUS
<1> QED
  BY <1>1 DEF Takes, Renews, Ends

LEMMA PutAt ==
  ASSUME NEW f, NEW x, NEW v, NEW y \in DOMAIN f
  PROVE  Put(f, x, v)[y] = IF y = x THEN v ELSE f[y]
BY DEF Put

\* What was taken by a statement is known to be moved after it, and what was
\* known to be moved still is, unless the statement renews it or ends its
\* storage.
LEMMA EffectKeepsMoved ==
  ASSUME NEW bd, NEW st, NEW at, NEW s, IsWalk(bd, st), NEW l \in Locals(bd),
         ~RenewsIt(s, l), ~FillsPart(s, l), ~EndsIt(s, l),
         TakesIt(bd, s, l) \/ st.vs[l] = "Moved"
  PROVE  Effect(bd, st, at, s).vs[l] = "Moved"
<1> DEFINE e == Effect(bd, st, at, s)
<1> SUFFICES e.vs[l] = "Moved"
  OBVIOUS
<1>0. DOMAIN st.vs = Locals(bd)
  BY DEF IsWalk, IsKnown
<1>1. CASE s.op = "StorageLive"
  <2>1. e.vs = Put(st.vs, s.local, "Owned")
    BY <1>1, SmallEffects
  <2>2. s.local # l /\ st.vs[l] = "Moved"
    BY <1>1 DEF RenewsIt, TakesIt
  <2> HIDE DEF e
  <2> QED
    BY <1>0, <2>1, <2>2, PutAt
<1>2. CASE s.op = "StorageDead"
  <2>1. e.vs = Put(st.vs, s.local, "None")
    BY <1>2, SmallEffects
  <2>2. s.local # l /\ st.vs[l] = "Moved"
    BY <1>2 DEF EndsIt, TakesIt
  <2> HIDE DEF e
  <2> QED
    BY <1>0, <2>1, <2>2, PutAt
<1>3. CASE s.op = "Deinit"
  <2>1. e.vs = Put(st.vs, s.local, "Moved")
    BY <1>3, SmallEffects
  <2>2. s.local = l \/ st.vs[l] = "Moved"
    BY <1>3 DEF TakesIt
  <2> HIDE DEF e
  <2> QED
    BY <1>0, <2>1, <2>2, PutAt
<1>4. CASE s.op = "Borrow"
  <2> DEFINE left == IF s.form \in Strong THEN Put(st.vs, s.src.local, "Moved") ELSE st.vs
  <2>1. e = AfterBorrow(st, at, s)
    BY <1>4, EffectIs
  <2>2. e.vs = Put(left, s.dest.local, "Owned")
    <3>1. (AfterBorrow(st, at, s)).vs = Put(left, s.dest.local, "Owned")
      BY <1>0, AfterBorrowIs
    <3> HIDE DEF e, left
    <3> QED
      BY <2>1, <3>1
  <2>3. s.dest.local # l
    BY <1>4 DEF RenewsIt
  <2>4. (s.form \in Strong /\ s.src.local = l) \/ st.vs[l] = "Moved"
    BY <1>4 DEF TakesIt
  <2>5. DOMAIN left = Locals(bd) /\ left[l] = "Moved"
    <3>1. CASE s.form \in Strong
      <4>1. left = Put(st.vs, s.src.local, "Moved")
        BY <3>1
      <4> QED
        BY <1>0, <2>4, <4>1, PutAt DEF Put
    <3>2. CASE s.form \notin Strong
      BY <1>0, <2>4, <3>2
    <3> QED
      BY <3>1, <3>2
  <2> HIDE DEF e, left
  <2> QED
    BY <2>2, <2>3, <2>5, PutAt
<1>5. CASE s.op = "Assign"
  <2> DEFINE left == Put(st.vs, s.src.local, StateLeft(bd, st, s))
  <2>1. e = AfterAssign(bd, st, at, s)
    BY <1>5, EffectIs
  <2>2. e.vs = Put(left, s.dest.local, "Owned")
    <3> HIDE DEF e
    <3> QED
      BY <2>1, AfterAssignIs
  <2>3. s.dest.local # l
    BY <1>5 DEF RenewsIt, FillsPart
  <2>4. (MovesWhole(bd, s) /\ s.src.local = l) \/ st.vs[l] = "Moved"
    BY <1>5 DEF TakesIt
  <2>5. DOMAIN left = Locals(bd) /\ left[l] = "Moved"
    <3>1. DOMAIN left = Locals(bd)
      BY <1>0 DEF Put
    <3>2. left[l] = IF l = s.src.local THEN StateLeft(bd, st, s) ELSE st.vs[l]
      BY <1>0, PutAt
    <3>3. l = s.src.local => StateLeft(bd, st, s) = "Moved"
      BY <2>4 DEF StateLeft
    <3> HIDE DEF left
    <3> QED
      BY <2>4, <3>1, <3>2, <3>3
  <2> HIDE DEF e, left
  <2> QED
    BY <2>2, <2>3, <2>5, PutAt
<1>6. CASE s.op \in {"Const", "BinaryOp", "GetDiscriminant"}
  <2>1. e = Own(st, s.dest.local)
    BY <1>6, EffectIs
  <2>2. e.vs = Put(st.vs, s.dest.local, "Owned")
    <3> HIDE DEF e
    <3> QED
      BY <2>1, OwnIs
  <2>3. s.dest.local # l /\ st.vs[l] = "Moved"
    BY <1>6 DEF RenewsIt, TakesIt
  <2> HIDE DEF e
  <2> QED
    BY <1>0, <2>2, <2>3, PutAt
<1>7. CASE s.op = "Drop"
  <2>1. e = AfterDrop(st, s.local)
    BY <1>7, EffectIs
  <2>2. e.vs = Put(st.vs, s.local, IF st.vs[s.local] = "Moved" THEN st.vs[s.local] ELSE "Ended")
    <3> HIDE DEF e
    <3> QED
      BY <2>1, AfterDropIs
  <2>3. st.vs[l] = "Moved"
    BY <1>7 DEF TakesIt
  <2> HIDE DEF e
  <2> QED
    BY <1>0, <2>2, <2>3, PutAt
<1>8. CASE s.op \notin {"StorageLive", "StorageDead", "Deinit", "Borrow", "Assign", "Const",
                        "BinaryOp", "GetDiscriminant", "Drop"}
  <2>1. e = st
    BY <1>8, EffectIs
  <2>2. st.vs[l] = "Moved"
    BY <1>8 DEF TakesIt
  <2> HIDE DEF e
  <2> QED
    BY <2>1, <2>2
<1> QED
  BY <1>1, <1>2, <1>3, <1>4, <1>5, <1>6, <1>7, <1>8

-----------------------------------------------------------------------------
(* Reads *)

\* The checker's test of two paths finds every overlap of the run's.
LEMMA OverlapFound ==
  ASSUME NEW S, NEW p \in Seq(S), NEW q \in Seq(S), Comparable(p, q)
  PROVE  PrefixConflict(p, q)
<1> DEFINE n == Shorter(p, q)
<1>1. n \in Nat /\ n <= Len(p) /\ n <= Len(q) /\ (n = Len(p) \/ n = Len(q))
  BY DEF Shorter
<1>2. \A k \in 1 .. n : p[k] = q[k]
  <2>1. CASE Within(p, q)
    <3>1. \A k \in 1 .. n : k \in DOMAIN q
      BY <1>1
    <3> HIDE DEF n
    <3> QED
      BY <1>1, <2>1, <3>1 DEF Within
  <2>2. CASE Within(q, p)
    <3>1. \A k \in 1 .. n : k \in DOMAIN p
      BY <1>1
    <3> HIDE DEF n
    <3> QED
      BY <1>1, <2>2, <3>1 DEF Within
  <2> QED
    BY <2>1, <2>2 DEF Comparable
<1> HIDE DEF n
<1>3. SubSeq(p, 1, n) = [k \in 1 .. n |-> p[k]]
  BY <1>1
<1>4. SubSeq(q, 1, n) = [k \in 1 .. n |-> q[k]]
  BY <1>1
<1>5. SubSeq(p, 1, n) = SubSeq(q, 1, n)
  BY <1>2, <1>3, <1>4
<1> QED
  BY <1>5 DEF PrefixConflict, Prefix, n

\* Nothing of p is missing: the reverse of ReadsGone.
There(p, h, o) ==
  /\ h[p.local]
  /\ \A x \in o[p.local] : ~ Comparable(IF IsFieldPath(p.proj) THEN p.proj ELSE <<>>, x)

AreHoles(bd, o) == o \in [Locals(bd) -> SUBSET Seq(0 .. 99)]

LEMMA UseIsThere ==
  ASSUME NEW bd, NEW st, NEW p, IsPlace(bd, p), UseErrors(bd, st, p) = {},
         NEW h, h[p.local] \in BOOLEAN, ~h[p.local] => st.vs[p.local] = "Moved",
         NEW o, AreHoles(bd, o), o[p.local] \subseteq st.pm[p.local]
  PROVE  There(p, h, o)
<1> DEFINE path == IF IsFieldPath(p.proj) THEN p.proj ELSE <<>>
<1>1. ~ UseAfterMove(st, p)
  BY DEF UseErrors, When
<1>2. h[p.local]
  BY <1>1 DEF UseAfterMove
<1>3. ASSUME NEW x \in o[p.local] PROVE ~ Comparable(path, x)
  <2>1. path \in Seq(0 .. 99) /\ x \in Seq(0 .. 99)
    BY DEF IsPlace, AreHoles
  <2>2. ~ PrefixConflict(path, x)
    BY <1>1, <1>3 DEF UseAfterMove, PartialMoveInvalidates
  <2> HIDE DEF path
  <2> QED
    BY <2>1, <2>2, OverlapFound
<1> QED
  BY <1>2, <1>3 DEF There

\* What a statement reads it is checked for, and where it reads.
LEMMA UsesChecked ==
  ASSUME NEW bd, NEW out, NEW st, NEW at, NEW s, StmtErrors(bd, out, st, at, s) = {},
         NEW p \in UsedPlaces(s)
  PROVE  UseErrors(bd, st, p) = {} /\ p.local \in Reads(bd, s)
<1>1. CASE s.op = "Borrow"
  <2>1. StmtErrors(bd, out, st, at, s) = BorrowErrors(bd, st, s)
    BY <1>1, Zenon DEF StmtErrors
  <2>2. UsedPlaces(s) = {s.src}
    BY <1>1, Zenon DEF UsedPlaces
  <2>3. Reads(bd, s) = {s.src.local}
    BY <1>1, Zenon DEF Reads
  <2>4. UseErrors(bd, st, s.src) \subseteq BorrowErrors(bd, st, s)
    BY DEF BorrowErrors
  <2> QED
    BY <2>1, <2>2, <2>3, <2>4
<1>2. CASE s.op = "Assign"
  <2>1. StmtErrors(bd, out, st, at, s) = AssignErrors(bd, st, s)
    BY <1>2, Zenon DEF StmtErrors
  <2>2. UsedPlaces(s) = {s.src}
    BY <1>2, Zenon DEF UsedPlaces
  <2>3. Reads(bd, s) = {s.src.local}
    BY <1>2, Zenon DEF Reads
  <2>4. UseErrors(bd, st, s.src) \subseteq AssignErrors(bd, st, s)
    BY DEF AssignErrors
  <2> QED
    BY <2>1, <2>2, <2>3, <2>4
<1>3. CASE s.op \in {"BinaryOp", "GetDiscriminant"}
  <2>1. StmtErrors(bd, out, st, at, s) = UNION {UseErrors(bd, st, x) : x \in s.srcs}
    BY <1>3, Zenon DEF StmtErrors
  <2>2. UsedPlaces(s) = s.srcs
    BY <1>3, Zenon DEF UsedPlaces
  <2>3. Reads(bd, s) = {x.local : x \in s.srcs}
    BY <1>3, Zenon DEF Reads
  <2> QED
    BY <2>1, <2>2, <2>3
<1>4. CASE s.op \notin {"Borrow", "Assign", "BinaryOp", "GetDiscriminant"}
  <2>1. UsedPlaces(s) = {}
    BY <1>4, Zenon DEF UsedPlaces
  <2> QED
    BY <2>1
<1> QED
  BY <1>1, <1>2, <1>3, <1>4

-----------------------------------------------------------------------------
(* What is gone in the run, and what is moved for the checker *)

HereAfter(bd, s, h) ==
  [l \in Locals(bd) |-> RenewsIt(s, l) \/ (~TakesIt(bd, s, l) /\ h[l])]

HolesOpened(bd, s, o) ==
  Put(o, s.src.local, IF MovesField(bd, s) THEN o[s.src.local] \cup {s.src.proj} ELSE o[s.src.local])

HolesAfter(bd, s, o) ==
  IF s.op = "StorageLive" THEN Put(o, s.local, {})
  ELSE IF s.op \in {"Borrow", "Const", "BinaryOp", "GetDiscriminant"} THEN Put(o, s.dest.local, {})
  ELSE IF s.op = "Assign"
       THEN Put(HolesOpened(bd, s, o), s.dest.local,
                IF s.dest.proj = <<>> THEN {}
                ELSE HolesOpened(bd, s, o)[s.dest.local] \ {s.dest.proj})
  ELSE o

Covers(bd, known, o) == \A l \in Locals(bd) : o[l] \subseteq known[l]

LEMMA PutCovers ==
  ASSUME NEW bd, NEW known, NEW o, DOMAIN o = Locals(bd), DOMAIN known = Locals(bd),
         Covers(bd, known, o), NEW x, NEW some, NEW all, some \subseteq all
  PROVE  /\ Covers(bd, Put(known, x, all), Put(o, x, some))
         /\ some \subseteq known[x] => Covers(bd, known, Put(o, x, some))
<1>1. \A l \in Locals(bd) : /\ Put(o, x, some)[l] = IF l = x THEN some ELSE o[l]
                            /\ Put(known, x, all)[l] = IF l = x THEN all ELSE known[l]
  BY PutAt
<1>2. \A l \in Locals(bd) : o[l] \subseteq known[l]
  BY DEF Covers
<1> QED
  BY <1>1, <1>2 DEF Covers

\* Every field moved out in the run is on the checker's list.
LEMMA EffectCovers ==
  ASSUME NEW bd, NEW out, NEW st, NEW at, NEW s, IsWalk(bd, st),
         StmtErrors(bd, out, st, at, s) = {},
         NEW o, DOMAIN o = Locals(bd), Covers(bd, st.pm, o),
         s.op = "Assign" => s.src.local \in Locals(bd) /\ s.dest.local \in Locals(bd)
  PROVE  Covers(bd, Effect(bd, st, at, s).pm, HolesAfter(bd, s, o))
<1> DEFINE e == Effect(bd, st, at, s)
           after == HolesAfter(bd, s, o)
<1> SUFFICES Covers(bd, e.pm, after)
  OBVIOUS
<1>0. DOMAIN st.pm = Locals(bd)
  BY DEF IsWalk, IsKnown
<1>1. CASE s.op = "StorageLive"
  <2>1. e.pm = Put(st.pm, s.local, {})
    BY <1>1, SmallEffects
  <2>2. after = Put(o, s.local, {})
    BY <1>1 DEF HolesAfter
  <2> HIDE DEF e, after
  <2> QED
    BY <1>0, <2>1, <2>2, PutCovers
<1>2. CASE s.op \in {"Borrow", "Const", "BinaryOp", "GetDiscriminant"}
  <2>1. e.pm = st.pm
    <3>1. CASE s.op = "Borrow"
      <4>1. e = AfterBorrow(st, at, s)
        BY <3>1, EffectIs
      <4> HIDE DEF e
      <4> QED
        BY <4>1, AfterBorrowIs
    <3>2. CASE s.op \in {"Const", "BinaryOp", "GetDiscriminant"}
      <4>1. e = Own(st, s.dest.local)
        BY <3>2, EffectIs
      <4> HIDE DEF e
      <4> QED
        BY <4>1, OwnIs
    <3> QED
      BY <1>2, <3>1, <3>2
  <2>2. after = Put(o, s.dest.local, {})
    BY <1>2 DEF HolesAfter
  <2> HIDE DEF e, after
  <2> QED
    BY <1>0, <2>1, <2>2, PutCovers
<1>3. CASE s.op = "Assign"
  <2> DEFINE opened == HolesOpened(bd, s, o)
             moved == PathsMoved(bd, st, s)
  <2>1. /\ DOMAIN moved = Locals(bd)
        /\ e.pm = Put(moved, s.dest.local, PathsLeft(bd, st, s))
    <3>1. e = AfterAssign(bd, st, at, s)
      BY <1>3, EffectIs
    <3> HIDE DEF e
    <3> QED
      BY <3>1, AfterAssignIs
  <2>2. after = Put(opened, s.dest.local, IF s.dest.proj = <<>> THEN {} ELSE opened[s.dest.local] \ {s.dest.proj})
    BY <1>3 DEF HolesAfter
  <2>3. MovesField(bd, s) => CanMoveOut(bd, s)
    <3>1. StmtErrors(bd, out, st, at, s) = AssignErrors(bd, st, s)
      BY <1>3, Zenon DEF StmtErrors
    <3> QED
      BY <3>1 DEF AssignErrors, When
  <2>4. DOMAIN opened = Locals(bd) /\ Covers(bd, moved, opened)
    <3> DEFINE some == IF MovesField(bd, s) THEN o[s.src.local] \cup {s.src.proj} ELSE o[s.src.local]
               all == st.pm[s.src.local] \cup {s.src.proj}
    <3>1. opened = Put(o, s.src.local, some) /\ DOMAIN opened = Locals(bd)
      BY DEF HolesOpened, Put
    <3>2. CASE MovesField(bd, s)
      <4>1. moved = Put(st.pm, s.src.local, all)
        BY <2>3, <3>2 DEF PathsMoved, Put
      <4>2. some \subseteq all
        BY <1>3, <3>2 DEF Covers
      <4> HIDE DEF some, all, opened, moved
      <4> QED
        BY <1>0, <3>1, <4>1, <4>2, PutCovers
    <3>3. CASE ~MovesField(bd, s)
      <4>1. moved = st.pm
        BY <3>3 DEF PathsMoved
      <4>2. some \subseteq st.pm[s.src.local]
        BY <1>3, <3>3 DEF Covers
      <4> HIDE DEF some, opened, moved
      <4> QED
        BY <1>0, <3>1, <4>1, <4>2, PutCovers
    <3> QED
      BY <3>2, <3>3
  <2>5. (IF s.dest.proj = <<>> THEN {} ELSE opened[s.dest.local] \ {s.dest.proj})
           \subseteq PathsLeft(bd, st, s)
    <3>1. opened[s.dest.local] \subseteq moved[s.dest.local]
      <4> HIDE DEF opened, moved
      <4> QED
        BY <1>3, <2>4 DEF Covers
    <3> HIDE DEF opened
    <3> QED
      BY <3>1 DEF PathsLeft
  <2> HIDE DEF e, after, opened, moved
  <2> QED
    BY <2>1, <2>2, <2>4, <2>5, PutCovers
<1>4. CASE s.op \notin {"StorageLive", "Borrow", "Const", "BinaryOp", "GetDiscriminant", "Assign"}
  <2>1. e.pm = st.pm
    <3>1. CASE s.op \in {"StorageDead", "Deinit"}
      BY <3>1, SmallEffects
    <3>2. CASE s.op = "Drop"
      <4>1. e = AfterDrop(st, s.local)
        BY <3>2, EffectIs
      <4>2. AfterDrop(st, s.local).pm = st.pm
        BY AfterDropIs
      <4> HIDE DEF e
      <4> QED
        BY <4>1, <4>2
    <3>3. CASE s.op \notin {"StorageDead", "Deinit", "Drop"}
      BY <1>4, <3>3, EffectIs
    <3> QED
      BY <3>1, <3>2, <3>3
  <2>2. after = o
    BY <1>4 DEF HolesAfter
  <2> HIDE DEF e, after
  <2> QED
    BY <2>1, <2>2
<1> QED
  BY <1>1, <1>2, <1>3, <1>4

-----------------------------------------------------------------------------
(***************************************************************************)
(* How the run and the checker agree at position i of b: what is gone was  *)
(* taken and is known to be moved, unless its storage has ended since; the *)
(* fields that are gone are known to be.                                   *)
(***************************************************************************)
MayBeTaken(bd, l) == CHOOSE at \in SUBSET Blocks(bd) : FilledWhileThere(bd, l, at)
MayBeOver(bd, l)  == CHOOSE at \in SUBSET Blocks(bd) : ReadWhileStored(bd, l, at)

MayBeGone(bd, b, i, l)    == Since(Takes(bd, b, l), Renews(bd, b, l), i, b \in MayBeTaken(bd, l))
MayHaveEnded(bd, b, i, l) == Since(Ends(bd, b, l), Renews(bd, b, l), i, b \in MayBeOver(bd, l))

GoneIsMoved(bd, b, i, st, h) ==
  \A l \in Locals(bd) :
    ~h[l] => MayBeGone(bd, b, i, l) /\ (st.vs[l] = "Moved" \/ MayHaveEnded(bd, b, i, l))

Agrees(bd, b, i, st, h, o) == GoneIsMoved(bd, b, i, st, h) /\ Covers(bd, st.pm, o)

LEMMA StorageFits ==
  ASSUME NEW bd \in Bodies, NEW l \in Locals(bd)
  PROVE  /\ PlacesFit(bd)
         /\ FilledWhileThere(bd, l, MayBeTaken(bd, l))
         /\ ReadWhileStored(bd, l, MayBeOver(bd, l))
<1>1. \E at \in SUBSET Blocks(bd) : FilledWhileThere(bd, l, at)
  BY StorageAssumption
<1>2. \E at \in SUBSET Blocks(bd) : ReadWhileStored(bd, l, at)
  BY StorageAssumption
<1>3. PlacesFit(bd)
  BY StorageAssumption
<1> QED
  BY <1>1, <1>2, <1>3 DEF MayBeTaken, MayBeOver

LEMMA GoneNext ==
  ASSUME NEW bd, NEW b, Len(Stmts(bd, b)) \in Nat, NEW l, NEW i \in Nat
  PROVE  /\ MayBeGone(bd, b, i + 1, l)
              <=> i \notin Renews(bd, b, l) /\ (i \in Takes(bd, b, l) \/ MayBeGone(bd, b, i, l))
         /\ MayHaveEnded(bd, b, i + 1, l)
              <=> i \notin Renews(bd, b, l) /\ (i \in Ends(bd, b, l) \/ MayHaveEnded(bd, b, i, l))
<1>1. /\ Takes(bd, b, l) \in SUBSET Nat /\ Ends(bd, b, l) \in SUBSET Nat
      /\ Renews(bd, b, l) \in SUBSET Nat
  BY PositionsAre
<1> QED
  BY <1>1, SinceNext DEF MayBeGone, MayHaveEnded

\* A statement the checker has nothing against keeps the agreement.
LEMMA StatementKeeps ==
  ASSUME NEW bd \in Bodies, NEW b \in Blocks(bd), NEW i \in 1 .. Len(Stmts(bd, b)),
         NEW out, NEW st, IsWalk(bd, st),
         StmtErrors(bd, out, st, <<b, i>>, Stmts(bd, b)[i]) = {},
         NEW h, NEW o, DOMAIN o = Locals(bd), Agrees(bd, b, i, st, h, o)
  PROVE  Agrees(bd, b, i + 1, Step(bd, out, b, i, st),
                HereAfter(bd, Stmts(bd, b)[i], h), HolesAfter(bd, Stmts(bd, b)[i], o))
<1> DEFINE s == Stmts(bd, b)[i]
           e == Effect(bd, st, <<b, i>>, s)
           t == Step(bd, out, b, i, st)
<1>1. t.vs = e.vs /\ t.pm = e.pm
  BY StepMoves
<1>2. Len(Stmts(bd, b)) \in Nat /\ i \in Nat
  BY BodiesAssumption DEF IsBody
<1>3. s.op = "Assign" => s.src.local \in Locals(bd) /\ s.dest.local \in Locals(bd)
  <2>1. PlacesFit(bd)
    BY StorageAssumption
  <2>2. s.op = "Assign" => IsPlace(bd, s.dest)
    BY <2>1 DEF PlacesFit
  <2>3. s.op = "Assign" => UsedPlaces(s) = {s.src}
    BY Zenon DEF UsedPlaces
  <2>4. \A p \in UsedPlaces(s) : IsPlace(bd, p)
    BY <2>1 DEF PlacesFit
  <2> HIDE DEF s
  <2> QED
    BY <2>2, <2>3, <2>4 DEF IsPlace
<1>4. Covers(bd, e.pm, HolesAfter(bd, s, o))
  BY <1>3, EffectCovers DEF Agrees
<1>5. ASSUME NEW l \in Locals(bd), ~HereAfter(bd, s, h)[l]
      PROVE  MayBeGone(bd, b, i + 1, l) /\ (e.vs[l] = "Moved" \/ MayHaveEnded(bd, b, i + 1, l))
  <2>1. ~RenewsIt(s, l) /\ (TakesIt(bd, s, l) \/ ~h[l])
    BY <1>5 DEF HereAfter
  <2>2. ~h[l] => MayBeGone(bd, b, i, l) /\ (st.vs[l] = "Moved" \/ MayHaveEnded(bd, b, i, l))
    BY DEF Agrees, GoneIsMoved
  <2>3. /\ i \in Takes(bd, b, l) <=> TakesIt(bd, s, l)
        /\ i \in Renews(bd, b, l) <=> RenewsIt(s, l)
        /\ i \in Ends(bd, b, l) <=> EndsIt(s, l)
    BY <1>2, StatementDoes
  <2>4. MayBeGone(bd, b, i + 1, l)
    BY <1>2, <2>1, <2>2, <2>3, GoneNext
  <2>5. ~FillsPart(s, l)
    <3>1. FilledWhileThere(bd, l, MayBeTaken(bd, l))
      BY StorageFits
    <3>2. FillsPart(s, l) => ~ MayBeGone(bd, b, i + 1, l)
      BY <3>1 DEF FilledWhileThere, MayBeGone
    <3> QED
      BY <2>4, <3>2
  <2>6. CASE EndsIt(s, l)
    BY <1>2, <2>1, <2>3, <2>4, <2>6, GoneNext
  <2>7. CASE ~EndsIt(s, l) /\ (TakesIt(bd, s, l) \/ st.vs[l] = "Moved")
    BY <2>1, <2>4, <2>5, <2>7, EffectKeepsMoved
  <2>8. CASE ~TakesIt(bd, s, l) /\ st.vs[l] # "Moved"
    BY <1>2, <2>1, <2>2, <2>3, <2>4, <2>8, GoneNext
  <2> QED
    BY <2>6, <2>7, <2>8
<1> HIDE DEF e, t
<1>6. Agrees(bd, b, i + 1, t, HereAfter(bd, s, h), HolesAfter(bd, s, o))
  BY <1>1, <1>4, <1>5 DEF Agrees, GoneIsMoved
<1> QED
  BY <1>6 DEF t

\* What a statement reads is there.
LEMMA StatementReadsWhatIsThere ==
  ASSUME NEW bd \in Bodies, NEW b \in Blocks(bd), NEW i \in 1 .. Len(Stmts(bd, b)),
         NEW out, NEW st,
         StmtErrors(bd, out, st, <<b, i>>, Stmts(bd, b)[i]) = {},
         NEW h \in [Locals(bd) -> BOOLEAN], NEW o, AreHoles(bd, o), Agrees(bd, b, i, st, h, o),
         NEW p \in UsedPlaces(Stmts(bd, b)[i])
  PROVE  There(p, h, o)
<1> DEFINE s == Stmts(bd, b)[i]
           l == p.local
<1>1. UseErrors(bd, st, p) = {} /\ l \in Reads(bd, s)
  BY UsesChecked
<1>2. IsPlace(bd, p)
  BY StorageAssumption DEF PlacesFit
<1>3. l \in Locals(bd)
  BY <1>2 DEF IsPlace
<1>4. ~ MayHaveEnded(bd, b, i, l)
  <2>1. ReadWhileStored(bd, l, MayBeOver(bd, l))
    BY <1>3, StorageFits
  <2>2. Len(Stmts(bd, b)) \in Nat
    BY BodiesAssumption DEF IsBody
  <2>3. i \in Positions(bd, b) /\ i # Len(Stmts(bd, b)) + 1
    BY <2>2 DEF Positions
  <2>4. l \in ReadsAt(bd, b, i)
    BY <1>1, <2>3 DEF ReadsAt
  <2> HIDE DEF l
  <2> QED
    BY <2>1, <2>3, <2>4 DEF ReadWhileStored, MayHaveEnded
<1>5. ~h[l] => st.vs[l] = "Moved"
  BY <1>3, <1>4 DEF Agrees, GoneIsMoved
<1>6. o[l] \subseteq st.pm[l]
  BY <1>3 DEF Agrees, Covers
<1>7. h[l] \in BOOLEAN
  BY <1>3
<1> QED
  BY <1>1, <1>2, <1>5, <1>6, <1>7, UseIsThere

-----------------------------------------------------------------------------
(* The same for terminators *)

HereAfterTerm(bd, t, h) ==
  IF IsCall(t)
  THEN [l \in Locals(bd) |-> IF l \in Elements(t.dest) THEN TRUE
                             ELSE h[l] /\ l \notin {ArgAt(t, k) : k \in Taken(bd, t)}]
  ELSE h

HolesAfterTerm(bd, t, o) ==
  IF IsCall(t) THEN [l \in Locals(bd) |-> IF l \in Elements(t.dest) THEN {} ELSE o[l]] ELSE o

\* What is known to be gone is known to be gone one block on.
Carries(bd, st, next) ==
  /\ \A l \in Locals(bd) : st.vs[l] = "Moved" => next.vs[l] = "Moved"
  /\ \A l \in Locals(bd) : st.pm[l] \subseteq next.pm[l]

LEMMA TerminatorKeeps ==
  ASSUME NEW bd \in Bodies, NEW b \in Blocks(bd), NEW after \in Succs(bd, b),
         NEW out, NEW st, IsWalk(bd, st),
         IsCall(Term(bd, b)) => PassErrors(bd, Lent(bd, b, st), Term(bd, b)) = {},
         NEW next, Carries(bd, Terminate(bd, out, b, st), next),
         NEW h, NEW o, Agrees(bd, b, Len(Stmts(bd, b)) + 1, st, h, o)
  PROVE  Agrees(bd, after, 1, next, HereAfterTerm(bd, Term(bd, b), h), HolesAfterTerm(bd, Term(bd, b), o))
<1> DEFINE t == Term(bd, b)
           n == Len(Stmts(bd, b))
           lent == Lent(bd, b, st)
           x == Terminate(bd, out, b, st)
           taken == {ArgAt(t, k) : k \in Taken(bd, t)}
           after_h == HereAfterTerm(bd, t, h)
           after_o == HolesAfterTerm(bd, t, o)
<1>1. /\ x.pm = st.pm /\ lent.vs = st.vs /\ IsWalk(bd, lent)
      /\ x.vs = IF IsCall(t) THEN AfterPass(bd, lent, t).vs ELSE st.vs
  BY TerminateMoves
<1>2. n \in Nat /\ after \in Blocks(bd)
  BY BodiesAssumption DEF IsBody, Succs
<1>3. Covers(bd, next.pm, after_o)
  <2>1. \A l \in Locals(bd) : o[l] \subseteq st.pm[l] /\ x.pm[l] \subseteq next.pm[l]
    BY DEF Agrees, Covers, Carries
  <2>2. \A l \in Locals(bd) : after_o[l] \subseteq o[l]
    BY DEF HolesAfterTerm
  <2> HIDE DEF x, after_o
  <2> QED
    BY <1>1, <2>1, <2>2 DEF Covers
<1>4. ASSUME NEW l \in Locals(bd), ~after_h[l]
      PROVE  MayBeGone(bd, after, 1, l) /\ (next.vs[l] = "Moved" \/ MayHaveEnded(bd, after, 1, l))
  <2>1. /\ n + 1 \in Takes(bd, b, l) <=> IsCall(t) /\ \E k \in Taken(bd, t) : ArgAt(t, k) = l
        /\ n + 1 \in Renews(bd, b, l) <=> IsCall(t) /\ l \in Elements(t.dest)
        /\ n + 1 \notin Ends(bd, b, l)
    BY <1>2, TerminatorDoes
  <2>2. ~(IsCall(t) /\ l \in Elements(t.dest)) /\ (~h[l] \/ (IsCall(t) /\ l \in taken))
    BY <1>4 DEF HereAfterTerm
  <2>3. ~h[l] => MayBeGone(bd, b, n + 1, l) /\ (st.vs[l] = "Moved" \/ MayHaveEnded(bd, b, n + 1, l))
    BY DEF Agrees, GoneIsMoved
  <2>4. (n + 1) + 1 = n + 2 /\ n + 1 \in Nat
    BY <1>2
  <2>5. MayBeGone(bd, b, n + 2, l)
    <3>1. MayBeGone(bd, b, (n + 1) + 1, l)
      BY <1>2, <2>1, <2>2, <2>3, <2>4, GoneNext
    <3> QED
      BY <2>4, <3>1
  <2>6. MayBeGone(bd, after, 1, l)
    <3>1. FilledWhileThere(bd, l, MayBeTaken(bd, l))
      BY StorageFits
    <3>2. after \in MayBeTaken(bd, l)
      BY <2>5, <3>1 DEF FilledWhileThere, Spreads, MayBeGone, TakenIn, RenewedIn
    <3>3. /\ Takes(bd, after, l) \in SUBSET (Nat \ {0}) /\ Renews(bd, after, l) \in SUBSET (Nat \ {0})
      BY <1>2, PositionsAre, BodiesAssumption DEF IsBody
    <3> QED
      BY <3>2, <3>3, SinceAtFirst DEF MayBeGone
  <2>7. CASE ~h[l] /\ MayHaveEnded(bd, b, n + 1, l)
    <3>1. MayHaveEnded(bd, b, (n + 1) + 1, l)
      BY <1>2, <2>1, <2>2, <2>4, <2>7, GoneNext
    <3>2. MayHaveEnded(bd, b, n + 2, l)
      BY <2>4, <3>1
    <3>3. ReadWhileStored(bd, l, MayBeOver(bd, l))
      BY StorageFits
    <3>4. after \in MayBeOver(bd, l)
      BY <3>2, <3>3 DEF ReadWhileStored, Spreads, MayHaveEnded, EndedIn, RenewedIn
    <3>5. /\ Ends(bd, after, l) \in SUBSET (Nat \ {0}) /\ Renews(bd, after, l) \in SUBSET (Nat \ {0})
      BY <1>2, PositionsAre, BodiesAssumption DEF IsBody
    <3>6. MayHaveEnded(bd, after, 1, l)
      BY <3>4, <3>5, SinceAtFirst DEF MayHaveEnded
    <3> QED
      BY <2>6, <3>6
  <2>8. CASE st.vs[l] = "Moved" \/ (IsCall(t) /\ l \in taken)
    <3>1. x.vs[l] = "Moved"
      <4>1. CASE ~IsCall(t)
        BY <1>1, <2>8, <4>1
      <4>2. CASE IsCall(t)
        <5>1. PassErrors(bd, lent, t) = {}
          BY <4>2
        <5> HIDE DEF lent
        <5>2. AfterPass(bd, lent, t).vs
                = [m \in Locals(bd) |-> IF m \in taken /\ ~(t.kind = "Jit" /\ lent.vs[m] = "Ended")
                                        THEN "Moved" ELSE lent.vs[m]]
          <6> DEFINE vs == [m \in Locals(bd) |-> IF m \in taken /\ ~(t.kind = "Jit" /\ lent.vs[m] = "Ended")
                                                 THEN "Moved" ELSE lent.vs[m]]
          <6>1. AfterPass(bd, lent, t) = [lent EXCEPT !.vs = vs]
            BY DEF AfterPass
          <6>2. DOMAIN lent = {"vs", "loans", "pm", "errs"}
            BY <1>1 DEF IsWalk
          <6> HIDE DEF vs
          <6>3. [lent EXCEPT !.vs = vs].vs = vs
            BY <6>2
          <6> QED
            BY <6>1, <6>3 DEF vs
        <5>3. l \in taken /\ t.kind = "Jit" => lent.vs[l] # "Ended"
          BY <5>1 DEF PassErrors, When
        <5> HIDE DEF x, taken, t
        <5> QED
          BY <1>1, <2>8, <4>2, <5>2, <5>3
      <4> QED
        BY <4>1, <4>2
    <3> QED
      BY <2>6, <3>1 DEF Carries
  <2> QED
    BY <2>2, <2>3, <2>7, <2>8
<1> HIDE DEF after_h, after_o
<1>5. Agrees(bd, after, 1, next, after_h, after_o)
  BY <1>3, <1>4 DEF Agrees, GoneIsMoved
<1> QED
  BY <1>5 DEF after_h, after_o

-----------------------------------------------------------------------------
(* Joins *)

\* A block has finitely many edges into it.
LEMMA EdgesAreFinite ==
  ASSUME NEW bd \in Bodies, NEW b
  PROVE  IsFiniteSet(InEdges(bd, b))
<1> DEFINE n == Len(bd.blocks)
           most == {k \in Nat : \E m \in Nat : \A p \in 1 .. k : p \in Blocks(bd) => Len(Succ(bd, p)) <= m}
<1>1. n \in Nat /\ Blocks(bd) = 1 .. n /\ \A p \in Blocks(bd) : Succ(bd, p) \in Seq(Blocks(bd))
  BY BodiesAssumption DEF IsBody
<1>2. n \in most
  <2>1. 0 \in most
    OBVIOUS
  <2>2. ASSUME NEW k \in Nat, k \in most PROVE k + 1 \in most
    <3>1. PICK m \in Nat : \A p \in 1 .. k : p \in Blocks(bd) => Len(Succ(bd, p)) <= m
      BY <2>2
    <3> DEFINE l == IF k + 1 \in Blocks(bd) THEN Len(Succ(bd, k + 1)) ELSE 0
    <3>2. l \in Nat
      BY <1>1
    <3>3. ASSUME NEW p \in 1 .. (k + 1), p \in Blocks(bd) PROVE Len(Succ(bd, p)) <= m + l
      <4>1. Len(Succ(bd, p)) \in Nat
        BY <1>1, <3>3
      <4>2. CASE p = k + 1
        <5>1. Len(Succ(bd, p)) = l
          BY <3>3, <4>2
        <5> HIDE DEF l
        <5> QED
          BY <3>2, <4>1, <5>1
      <4>3. CASE p # k + 1
        <5>1. p \in 1 .. k
          BY <4>3
        <5>2. Len(Succ(bd, p)) <= m
          BY <3>1, <3>3, <5>1
        <5> HIDE DEF l
        <5> QED
          BY <3>2, <4>1, <5>2
      <4> QED
        BY <4>2, <4>3
    <3> HIDE DEF l
    <3>4. m + l \in Nat
      BY <3>2
    <3> QED
      BY <3>3, <3>4
  <2> HIDE DEF most
  <2> QED
    BY <1>1, <2>1, <2>2, SetInduction
<1>3. PICK m \in Nat : \A p \in 1 .. n : p \in Blocks(bd) => Len(Succ(bd, p)) <= m
  BY <1>2
<1>4. InEdges(bd, b) \subseteq (1 .. n) \X (1 .. m)
  <2> SUFFICES ASSUME NEW e \in InEdges(bd, b) PROVE e \in (1 .. n) \X (1 .. m)
    OBVIOUS
  <2>1. PICK p \in Blocks(bd) : e \in {<<p, i>> : i \in {j \in DOMAIN Succ(bd, p) : Succ(bd, p)[j] = b}}
    BY DEF InEdges
  <2>2. PICK i \in DOMAIN Succ(bd, p) : e = <<p, i>>
    BY <2>1
  <2>3. i \in 1 .. Len(Succ(bd, p)) /\ Len(Succ(bd, p)) \in Nat /\ Len(Succ(bd, p)) <= m
    BY <1>1, <1>3
  <2>4. i \in 1 .. m /\ p \in 1 .. n
    BY <1>1, <2>3
  <2> QED
    BY <2>2, <2>4
<1>5. IsFiniteSet((1 .. n) \X (1 .. m))
  <2>1. IsFiniteSet(1 .. n) /\ IsFiniteSet(1 .. m)
    BY <1>1, FS_Interval
  <2> QED
    BY <2>1, FS_Product
<1> QED
  BY <1>4, <1>5, FS_Subset

\* An edge hands on what is moved and which paths are, at a join too.
LEMMA MergeCarries ==
  ASSUME NEW bd \in Bodies, NEW exits, NEW b \in Blocks(bd), NEW next \in Succs(bd, b)
  PROVE  Carries(bd, exits[b], Merge(bd, InEdges(bd, next), exits))
<1> DEFINE edges == InEdges(bd, next)
           m == Merge(bd, edges, exits)
<1>1. PICK i \in DOMAIN Succ(bd, b) : Succ(bd, b)[i] = next
  BY DEF Succs
<1>2. <<b, i>> \in edges
  BY <1>1 DEF InEdges
<1>3. CASE Cardinality(edges) = 1
  <2>1. PICK x : edges = {x}
    BY <1>3, EdgesAreFinite, FS_Singleton
  <2> DEFINE only == CHOOSE e \in edges : TRUE
  <2>2. only = <<b, i>>
    <3>1. only \in edges
      BY <1>2
    <3> HIDE DEF edges, only
    <3> QED
      BY <1>2, <2>1, <3>1
  <2>3. m = exits[b]
    <3>1. edges # {}
      BY <1>2
    <3>2. m = exits[only[1]]
      BY <1>3, <3>1 DEF Merge
    <3> HIDE DEF m, edges, only
    <3>3. only[1] = b
      BY <2>2
    <3> QED
      BY <3>2, <3>3
  <2> HIDE DEF m
  <2>4. Carries(bd, exits[b], m)
    BY <2>3 DEF Carries
  <2> QED
    BY <2>4 DEF m
<1>4. CASE Cardinality(edges) # 1
  <2> DEFINE vs == [l \in Locals(bd) |-> MergeVs({exits[e[1]].vs[l] : e \in edges})]
             pm == [l \in Locals(bd) |-> UNION {exits[e[1]].pm[l] : e \in edges}]
  <2>1. m.vs = vs /\ m.pm = pm
    BY <1>2, <1>4 DEF Merge
  <2> HIDE DEF edges
  <2>2. ASSUME NEW l \in Locals(bd), exits[b].vs[l] = "Moved" PROVE vs[l] = "Moved"
    <3>1. "Moved" \in {exits[e[1]].vs[l] : e \in edges}
      BY <1>2, <2>2
    <3>2. MergeVs({exits[e[1]].vs[l] : e \in edges}) = "Moved"
      BY <3>1 DEF MergeVs
    <3> QED
      BY <3>2
  <2>3. ASSUME NEW l \in Locals(bd) PROVE exits[b].pm[l] \subseteq pm[l]
    <3>1. exits[b].pm[l] \in {exits[e[1]].pm[l] : e \in edges}
      BY <1>2
    <3> QED
      BY <3>1
  <2> HIDE DEF vs, pm, m
  <2>4. Carries(bd, exits[b], m)
    BY <2>1, <2>2, <2>3 DEF Carries
  <2> QED
    BY <2>4 DEF m, edges
<1> QED
  BY <1>3, <1>4

\* The merge of states is a state.
LEMMA MergeKeepsForm ==
  ASSUME NEW bd, NEW b, NEW exits, \A p \in Blocks(bd) : IsKnown(bd, exits[p])
  PROVE  IsKnown(bd, Merge(bd, InEdges(bd, b), exits))
<1> DEFINE edges == InEdges(bd, b)
           m == Merge(bd, edges, exits)
<1>1. CASE edges = {}
  <2>1. m = Nothing(bd)
    BY <1>1 DEF Merge
  <2> HIDE DEF m
  <2>2. IsKnown(bd, m)
    BY <2>1 DEF Nothing, IsKnown
  <2> QED
    BY <2>2 DEF m
<1>2. CASE edges # {} /\ Cardinality(edges) = 1
  <2>1. (CHOOSE e \in edges : TRUE) \in edges
    BY <1>2
  <2>2. (CHOOSE e \in edges : TRUE)[1] \in Blocks(bd)
    BY <2>1, EdgesOf
  <2>3. m = exits[(CHOOSE e \in edges : TRUE)[1]]
    BY <1>2 DEF Merge
  <2> HIDE DEF m, edges
  <2>4. IsKnown(bd, m)
    BY <2>2, <2>3
  <2> QED
    BY <2>4 DEF m, edges
<1>3. CASE edges # {} /\ Cardinality(edges) # 1
  <2> DEFINE vs == [l \in Locals(bd) |-> MergeVs({exits[e[1]].vs[l] : e \in edges})]
             pm == [l \in Locals(bd) |-> UNION {exits[e[1]].pm[l] : e \in edges}]
  <2>1. m.vs = vs /\ m.pm = pm
    BY <1>3 DEF Merge
  <2>2. DOMAIN vs = Locals(bd) /\ DOMAIN pm = Locals(bd)
    OBVIOUS
  <2> HIDE DEF vs, pm, m
  <2>3. IsKnown(bd, m)
    BY <2>1, <2>2 DEF IsKnown
  <2> QED
    BY <2>3 DEF m
<1> QED
  BY <1>1, <1>2, <1>3

-----------------------------------------------------------------------------
(* The steps of the run *)

MachineFits ==
  /\ here \in [Locals(body) -> BOOLEAN]
  /\ AreHoles(body, holes)
  /\ stale \in [Locals(body) -> {"no"} \cup Causes]

\* A read of what is there is not a read of something gone.
LEMMA VerdictOfWhatIsThere ==
  ASSUME MachineFits, NEW places, \A p \in places : There(p, here, holes)
  PROVE  Verdict(places) # "gone"
<1> DEFINE stales == {p \in places : p.local \in Refs /\ stale[p.local] # "no"}
<1>1. ~ \E p \in places : ReadsGone(p)
  BY DEF There, ReadsGone
<1>2. CASE stales = {}
  <2>1. Verdict(places) = "no"
    BY <1>1, <1>2 DEF Verdict
  <2> QED
    BY <2>1
<1>3. CASE stales # {}
  <2> DEFINE q == CHOOSE p \in places : p.local \in Refs /\ stale[p.local] # "no"
  <2>1. q.local \in Refs
    BY <1>3
  <2>2. Verdict(places) = stale[q.local]
    BY <1>1, <1>3 DEF Verdict
  <2> HIDE DEF q
  <2>3. stale[q.local] \in {"no"} \cup Causes
    BY <2>1 DEF MachineFits, Refs
  <2> QED
    BY <2>2, <2>3 DEF Causes
<1> QED
  BY <1>2, <1>3

\* What one statement of the run does to what is gone.
RunsAs(s) ==
  /\ pc' = <<pc[1], pc[2] + 1>>
  /\ here' = HereAfter(body, s, here)
  /\ holes' = HolesAfter(body, s, holes)
  /\ stale' \in [Locals(body) -> {"no"} \cup Causes]
  /\ bad' = bad \/ bad' = Verdict(UsedPlaces(s))
  /\ UNCHANGED checker

LEMMA SpoilFits ==
  ASSUME MachineFits, NEW p, NEW rs, NEW cause \in Causes
  PROVE  Spoil(p, rs, cause) \in [Locals(body) -> {"no"} \cup Causes]
BY DEF MachineFits, Spoil

\* A statement that neither renews nor takes nor opens anything.
LEMMA StatementIdles ==
  ASSUME MachineFits, NEW s,
         s.op \notin {"StorageLive", "Borrow", "Const", "BinaryOp", "GetDiscriminant", "Assign", "Deinit"}
  PROVE  HereAfter(body, s, here) = here /\ HolesAfter(body, s, holes) = holes
<1>1. \A l \in Locals(body) : ~RenewsIt(s, l) /\ ~TakesIt(body, s, l)
  BY DEF RenewsIt, TakesIt
<1> QED
  BY <1>1 DEF HereAfter, HolesAfter, MachineFits

LEMMA RefillIs ==
  ASSUME MachineFits, NEW l, Refill(l)
  PROVE  here' = [x \in Locals(body) |-> x = l \/ here[x]] /\ holes' = Put(holes, l, {})
BY DEF MachineFits, Refill, Put

LEMMA StorageLiveRuns ==
  ASSUME MachineFits, RunStorageLive
  PROVE  RunsAs(Current)
<1> DEFINE s == Current
<1> SUFFICES RunsAs(s)
  OBVIOUS
<1>1. s.op = "StorageLive" /\ Refill(s.local) /\ Forgets(s.local) /\ Advance /\ bad' = bad
  BY DEF RunStorageLive
<1>2. here' = [x \in Locals(body) |-> x = s.local \/ here[x]] /\ holes' = Put(holes, s.local, {})
  BY <1>1, RefillIs
<1>3. \A x \in Locals(body) : (RenewsIt(s, x) \/ (~TakesIt(body, s, x) /\ here[x])) = (x = s.local \/ here[x])
  BY <1>1 DEF RenewsIt, TakesIt, MachineFits
<1>4. HereAfter(body, s, here) = [x \in Locals(body) |-> x = s.local \/ here[x]]
  BY <1>3 DEF HereAfter
<1>5. HolesAfter(body, s, holes) = Put(holes, s.local, {})
  BY <1>1 DEF HolesAfter
<1> HIDE DEF s
<1>6. stale' \in [Locals(body) -> {"no"} \cup Causes]
  BY <1>1 DEF Forgets, MachineFits
<1> QED
  BY <1>1, <1>2, <1>4, <1>5, <1>6 DEF RunsAs, Advance

LEMMA EndRuns ==
  ASSUME MachineFits, RunEnd
  PROVE  RunsAs(Current)
<1> DEFINE s == Current
<1> SUFFICES RunsAs(s)
  OBVIOUS
<1>1. /\ s.op \in {"StorageDead", "Drop"} /\ Advance /\ UNCHANGED <<here, holes, bad>>
      /\ stale' = IF Owner(s.local) THEN Spoil(Whole(s.local), Refs, "ended") ELSE stale
  BY DEF RunEnd
<1>2. HereAfter(body, s, here) = here /\ HolesAfter(body, s, holes) = holes
  BY <1>1, StatementIdles
<1>3. Spoil(Whole(s.local), Refs, "ended") \in [Locals(body) -> {"no"} \cup Causes]
  BY SpoilFits DEF Causes
<1> HIDE DEF s
<1> QED
  BY <1>1, <1>2, <1>3 DEF RunsAs, Advance, MachineFits

LEMMA DeinitRuns ==
  ASSUME MachineFits, RunDeinit
  PROVE  RunsAs(Current)
<1> DEFINE s == Current
<1> SUFFICES RunsAs(s)
  OBVIOUS
<1>1. /\ s.op = "Deinit" /\ Advance /\ UNCHANGED <<holes, stale, bad>>
      /\ here' = [here EXCEPT ![s.local] = FALSE]
  BY DEF RunDeinit
<1>2. HereAfter(body, s, here) = here'
  <2>1. \A x \in Locals(body) : (RenewsIt(s, x) \/ (~TakesIt(body, s, x) /\ here[x])) = (x # s.local /\ here[x])
    BY <1>1 DEF RenewsIt, TakesIt, MachineFits
  <2>2. HereAfter(body, s, here) = [x \in Locals(body) |-> x # s.local /\ here[x]]
    BY <2>1 DEF HereAfter
  <2>3. here' = [x \in Locals(body) |-> x # s.local /\ here[x]]
    <3> HIDE DEF s
    <3> QED
      BY <1>1 DEF MachineFits
  <2> QED
    BY <2>2, <2>3
<1>3. HolesAfter(body, s, holes) = holes
  BY <1>1 DEF HolesAfter
<1> HIDE DEF s
<1> QED
  BY <1>1, <1>2, <1>3 DEF RunsAs, Advance, MachineFits

LEMMA ComputeRuns ==
  ASSUME MachineFits, RunCompute
  PROVE  RunsAs(Current)
<1> DEFINE s == Current
           d == s.dest.local
<1> SUFFICES RunsAs(s)
  OBVIOUS
<1>1. /\ s.op \in {"Const", "BinaryOp", "GetDiscriminant"} /\ Refill(d) /\ Forgets(d) /\ Advance
      /\ bad' = Verdict(UsedPlaces(s))
  BY DEF RunCompute
<1>2. here' = [x \in Locals(body) |-> x = d \/ here[x]] /\ holes' = Put(holes, d, {})
  BY <1>1, RefillIs
<1>3. \A x \in Locals(body) : (RenewsIt(s, x) \/ (~TakesIt(body, s, x) /\ here[x])) = (x = d \/ here[x])
  BY <1>1 DEF RenewsIt, TakesIt, MachineFits
<1>4. HereAfter(body, s, here) = [x \in Locals(body) |-> x = d \/ here[x]]
  BY <1>3 DEF HereAfter
<1>5. HolesAfter(body, s, holes) = Put(holes, d, {})
  BY <1>1 DEF HolesAfter
<1> HIDE DEF s
<1>6. stale' \in [Locals(body) -> {"no"} \cup Causes]
  BY <1>1 DEF Forgets, MachineFits
<1> QED
  BY <1>1, <1>2, <1>4, <1>5, <1>6 DEF RunsAs, Advance

LEMMA NopRuns ==
  ASSUME MachineFits, RunNop
  PROVE  RunsAs(Current)
<1> DEFINE s == Current
<1> SUFFICES RunsAs(s)
  OBVIOUS
<1>1. s.op \in {"Alloc", "Nop"} /\ Advance /\ UNCHANGED <<here, holes, stale, bad>>
  BY DEF RunNop
<1>2. HereAfter(body, s, here) = here /\ HolesAfter(body, s, holes) = holes
  BY <1>1, StatementIdles
<1> HIDE DEF s
<1> QED
  BY <1>1, <1>2 DEF RunsAs, Advance, MachineFits

LEMMA BorrowRuns ==
  ASSUME MachineFits, RunBorrow, IsPlace(body, Current.src)
  PROVE  RunsAs(Current)
<1> DEFINE s == Current
           d == s.dest.local
           p == TargetOf(s.src)
           others == IF s.form = "BorrowExclusiveMutable" THEN Refs
                     ELSE {r \in Refs : mode[r] = "BorrowExclusiveMutable"}
           left == IF s.form \in Strong THEN [here EXCEPT ![s.src.local] = FALSE] ELSE here
           whole == [Spoil(p, Refs, "moved") EXCEPT ![d] = "no"]
           part == [Spoil(p, others, "aliased") EXCEPT
                      ![d] = IF HasDeref(s.src) /\ s.src.local \in Refs
                             THEN stale[s.src.local] ELSE "no"]
<1> SUFFICES RunsAs(s)
  OBVIOUS
<1>1. /\ s.op = "Borrow" /\ Advance /\ bad' = Verdict({s.src})
      /\ here' = [left EXCEPT ![d] = TRUE]
      /\ holes' = [holes EXCEPT ![d] = {}]
      /\ stale' = IF s.form \in Strong THEN whole ELSE part
  BY DEF RunBorrow
<1>2. UsedPlaces(s) = {s.src}
  BY <1>1, Zenon DEF UsedPlaces
<1>3. stale' \in [Locals(body) -> {"no"} \cup Causes]
  <2>1. whole \in [Locals(body) -> {"no"} \cup Causes]
    <3> DEFINE base == Spoil(p, Refs, "moved")
    <3> HIDE DEF p
    <3>1. base \in [Locals(body) -> {"no"} \cup Causes]
      BY SpoilFits DEF Causes
    <3>2. whole = [base EXCEPT ![d] = "no"]
      BY DEF p
    <3> HIDE DEF base, whole
    <3> QED
      BY <3>1, <3>2
  <2>2. Spoil(p, others, "aliased") \in [Locals(body) -> {"no"} \cup Causes]
    <3> HIDE DEF p, others
    <3> QED
      BY SpoilFits DEF Causes
  <2>3. stale[s.src.local] \in {"no"} \cup Causes
    BY DEF IsPlace, MachineFits
  <2>4. part \in [Locals(body) -> {"no"} \cup Causes]
    <3> DEFINE base == Spoil(p, others, "aliased")
               one == IF HasDeref(s.src) /\ s.src.local \in Refs THEN stale[s.src.local] ELSE "no"
    <3>1. one \in {"no"} \cup Causes
      BY <2>3
    <3>2. part = [base EXCEPT ![d] = one]
      OBVIOUS
    <3> HIDE DEF base, one, part
    <3>3. base \in [Locals(body) -> {"no"} \cup Causes]
      BY <2>2 DEF base
    <3> QED
      BY <3>1, <3>2, <3>3
  <2> HIDE DEF whole, part
  <2> QED
    BY <1>1, <2>1, <2>4
<1>4. HolesAfter(body, s, holes) = holes'
  BY <1>1 DEF HolesAfter, Put
<1>5. HereAfter(body, s, here) = here'
  <2>1. \A x \in Locals(body) : (RenewsIt(s, x) \/ (~TakesIt(body, s, x) /\ here[x]))
                                 = (x = d \/ (~(s.form \in Strong /\ x = s.src.local) /\ here[x]))
    BY <1>1 DEF RenewsIt, TakesIt, MachineFits
  <2> DEFINE g == [x \in Locals(body) |-> x = d \/ (~(s.form \in Strong /\ x = s.src.local) /\ here[x])]
  <2>2. HereAfter(body, s, here) = g
    BY <2>1 DEF HereAfter
  <2> HIDE DEF s
  <2>3. left = [x \in Locals(body) |-> ~(s.form \in Strong /\ x = s.src.local) /\ here[x]]
    BY DEF MachineFits
  <2> HIDE DEF left
  <2>4. here' = g
    BY <1>1, <2>3
  <2> QED
    BY <2>2, <2>4
<1> HIDE DEF s, left, whole, part
<1> QED
  BY <1>1, <1>2, <1>3, <1>4, <1>5 DEF RunsAs, Advance

LEMMA AssignRuns ==
  ASSUME MachineFits, RunAssign, IsPlace(body, Current.src), IsPlace(body, Current.dest)
  PROVE  RunsAs(Current)
<1> DEFINE s == Current
           d == s.dest.local
           away == [here EXCEPT ![s.src.local] = IF MovesWhole(body, s) THEN FALSE ELSE @]
           open == [holes EXCEPT ![s.src.local] =
                      IF MovesField(body, s) THEN @ \cup {s.src.proj} ELSE @]
           copied == d \in Refs /\ s.src.local \in Refs /\ s.src.proj = <<>>
           spoiled == [r \in Locals(body) |->
                     IF r = d /\ s.dest.proj = <<>> THEN "no"
                     ELSE IF stale[r] # "no" THEN stale[r]
                     ELSE IF MovesWhole(body, s)
                             /\ (Overlap(target[r], Whole(s.src.local)) \/ Overlap(target[r], s.dest))
                          THEN "moved"
                     ELSE IF MovesField(body, s) /\ Overlap(target[r], s.src) THEN "field"
                     ELSE "no"]
<1> SUFFICES RunsAs(s)
  OBVIOUS
<1>1. /\ s.op = "Assign" /\ Advance /\ bad' = Verdict({s.src})
      /\ here' = IF s.dest.proj = <<>> THEN [away EXCEPT ![d] = TRUE] ELSE away
      /\ holes' = [open EXCEPT ![d] = IF s.dest.proj = <<>> THEN {} ELSE @ \ {s.dest.proj}]
      /\ stale' = IF copied THEN [stale EXCEPT ![d] = stale[s.src.local]] ELSE spoiled
  BY DEF RunAssign
<1>2. UsedPlaces(s) = {s.src}
  BY <1>1, Zenon DEF UsedPlaces
<1>3. stale' \in [Locals(body) -> {"no"} \cup Causes]
  <2>1. \A r \in Locals(body) : stale[r] \in {"no"} \cup Causes
    BY DEF MachineFits
  <2>2. spoiled \in [Locals(body) -> {"no"} \cup Causes]
    BY <2>1 DEF Causes
  <2>3. stale[s.src.local] \in {"no"} \cup Causes
    BY <2>1 DEF IsPlace
  <2> HIDE DEF s, spoiled
  <2>4. [stale EXCEPT ![d] = stale[s.src.local]] \in [Locals(body) -> {"no"} \cup Causes]
    BY <2>3 DEF MachineFits
  <2> QED
    BY <1>1, <2>2, <2>4
<1>4. HolesAfter(body, s, holes) = holes'
  <2>1. HolesOpened(body, s, holes) = open
    BY DEF HolesOpened, Put
  <2>2. HolesAfter(body, s, holes)
          = Put(open, d, IF s.dest.proj = <<>> THEN {} ELSE open[d] \ {s.dest.proj})
    BY <1>1, <2>1 DEF HolesAfter
  <2> HIDE DEF s, open
  <2>3. Put(open, d, IF s.dest.proj = <<>> THEN {} ELSE open[d] \ {s.dest.proj}) = holes'
    BY <1>1 DEF Put
  <2> QED
    BY <2>2, <2>3
<1>5. HereAfter(body, s, here) = here'
  <2>1. \A x \in Locals(body) : (RenewsIt(s, x) \/ (~TakesIt(body, s, x) /\ here[x]))
                                 = ((x = d /\ s.dest.proj = <<>>)
                                    \/ (~(MovesWhole(body, s) /\ x = s.src.local) /\ here[x]))
    BY <1>1 DEF RenewsIt, TakesIt, MachineFits
  <2> DEFINE g == [x \in Locals(body) |-> (x = d /\ s.dest.proj = <<>>)
                                    \/ (~(MovesWhole(body, s) /\ x = s.src.local) /\ here[x])]
  <2>2. HereAfter(body, s, here) = g
    BY <2>1 DEF HereAfter
  <2>3. away = [x \in Locals(body) |-> ~(MovesWhole(body, s) /\ x = s.src.local) /\ here[x]]
    <3> HIDE DEF s
    <3> QED
      BY DEF MachineFits
  <2> HIDE DEF s, away
  <2>4. here' = g
    BY <1>1, <2>3
  <2> QED
    BY <2>2, <2>4
<1> HIDE DEF s, away, open, spoiled
<1> QED
  BY <1>1, <1>2, <1>3, <1>4, <1>5 DEF RunsAs, Advance

\* The statements of the run.
RunStmt == \/ RunStorageLive \/ RunEnd \/ RunDeinit \/ RunBorrow \/ RunAssign
           \/ RunCompute \/ RunNop

LEMMA StatementsRun ==
  ASSUME body \in Bodies, MachineFits, RunStmt, pc[1] \in Blocks(body), pc[2] \in Nat \ {0}
  PROVE  /\ pc[2] \in 1 .. Len(Stmts(body, pc[1])) /\ bad = "no"
         /\ RunsAs(Current) /\ MachineFits'
<1> DEFINE s == Current
           n == Len(Stmts(body, pc[1]))
<1>1. bad = "no" /\ pc[2] <= n
  BY DEF RunStmt, RunStorageLive, RunEnd, RunDeinit, RunBorrow, RunAssign, RunCompute, RunNop, AtStmt, Running
<1>2. n \in Nat
  BY BodiesAssumption DEF IsBody
<1>3. pc[2] \in 1 .. n
  BY <1>1, <1>2
<1>4. /\ s.op \in {"Assign", "Borrow", "Const", "BinaryOp", "GetDiscriminant"} => IsPlace(body, s.dest)
      /\ \A p \in UsedPlaces(s) : IsPlace(body, p)
  BY <1>3, StorageAssumption DEF PlacesFit, Current
<1>5. s.op \in {"Assign", "Borrow"} => IsPlace(body, s.src)
  <2>1. s.op \in {"Assign", "Borrow"} => UsedPlaces(s) = {s.src}
    BY Zenon DEF UsedPlaces
  <2> QED
    BY <1>4, <2>1
<1>6. RunsAs(s)
  <2>1. CASE RunStorageLive
    BY <2>1, StorageLiveRuns
  <2>2. CASE RunEnd
    BY <2>2, EndRuns
  <2>3. CASE RunDeinit
    BY <2>3, DeinitRuns
  <2>4. CASE RunBorrow
    <3>1. s.op = "Borrow"
      BY <2>4 DEF RunBorrow
    <3> QED
      BY <1>5, <2>4, <3>1, BorrowRuns
  <2>5. CASE RunAssign
    <3>1. s.op = "Assign"
      BY <2>5 DEF RunAssign
    <3> QED
      BY <1>4, <1>5, <2>5, <3>1, AssignRuns
  <2>6. CASE RunCompute
    BY <2>6, ComputeRuns
  <2>7. CASE RunNop
    BY <2>7, NopRuns
  <2> QED
    BY <2>1, <2>2, <2>3, <2>4, <2>5, <2>6, <2>7 DEF RunStmt
<1>7. HereAfter(body, s, here) \in [Locals(body) -> BOOLEAN]
  BY DEF HereAfter
<1>8. AreHoles(body, HolesAfter(body, s, holes))
  <2> DEFINE all == SUBSET Seq(0 .. 99)
  <2>1. ASSUME NEW f \in [Locals(body) -> all], NEW x, NEW v \in all
        PROVE  Put(f, x, v) \in [Locals(body) -> all]
    BY DEF Put
  <2>2. {} \in all /\ holes \in [Locals(body) -> all]
    BY DEF MachineFits, AreHoles
  <2>3. ASSUME s.op = "Assign"
        PROVE  /\ HolesOpened(body, s, holes) \in [Locals(body) -> all]
               /\ s.dest.local \in Locals(body)
    <3>1. /\ s.src.local \in Locals(body) /\ s.src.proj \in Seq(0 .. 99)
          /\ s.dest.local \in Locals(body)
      BY <1>4, <1>5, <2>3 DEF IsPlace
    <3> DEFINE v == IF MovesField(body, s) THEN holes[s.src.local] \cup {s.src.proj} ELSE holes[s.src.local]
    <3>2. v \in all
      BY <2>2, <3>1
    <3>3. HolesOpened(body, s, holes) = Put(holes, s.src.local, v)
      BY DEF HolesOpened
    <3> HIDE DEF v, all
    <3> QED
      BY <2>1, <2>2, <3>1, <3>2, <3>3
  <2>4. CASE s.op = "Assign"
    <3> DEFINE open == HolesOpened(body, s, holes)
               v == IF s.dest.proj = <<>> THEN {} ELSE open[s.dest.local] \ {s.dest.proj}
    <3>1. open[s.dest.local] \in all
      <4> HIDE DEF open, all
      <4> QED
        BY <2>3, <2>4 DEF open
    <3>2. v \in all
      <4> HIDE DEF open
      <4> QED
        BY <3>1
    <3>3. HolesAfter(body, s, holes) = Put(open, s.dest.local, v)
      BY <2>4 DEF HolesAfter
    <3>4. open \in [Locals(body) -> all]
      BY <2>3, <2>4
    <3> HIDE DEF open, v, all
    <3>5. HolesAfter(body, s, holes) \in [Locals(body) -> all]
      BY <2>1, <3>2, <3>3, <3>4
    <3> QED
      BY <3>5 DEF AreHoles, all
  <2>5. CASE s.op # "Assign"
    <3>1. \/ HolesAfter(body, s, holes) = holes
          \/ HolesAfter(body, s, holes) = Put(holes, s.local, {})
          \/ HolesAfter(body, s, holes) = Put(holes, s.dest.local, {})
      BY <2>5 DEF HolesAfter
    <3> HIDE DEF all
    <3>2. HolesAfter(body, s, holes) \in [Locals(body) -> all]
      BY <2>1, <2>2, <3>1
    <3> QED
      BY <3>2 DEF AreHoles, all
  <2> QED
    BY <2>4, <2>5
<1>9. MachineFits'
  <2> HIDE DEF s
  <2>1. body' = body
    BY <1>6 DEF RunsAs, checker
  <2> QED
    BY <1>6, <1>7, <1>8, <2>1 DEF RunsAs, MachineFits
<1> QED
  BY <1>1, <1>3, <1>6, <1>9

-----------------------------------------------------------------------------
(***************************************************************************)
(* The invariant of a run.  Checker and run share nothing but the body, so *)
(* what relates them is the final states: from the entry state of a        *)
(* walked block, what is gone in the run is followed statement by          *)
(* statement to what the checker knows at the same place.                  *)
(***************************************************************************)
States == \A b \in Blocks(body) : IsKnown(body, entry[b]) /\ IsKnown(body, exit[b])

Placed ==
  /\ Accepted
  /\ pc = <<pc[1], pc[2]>> /\ pc[1] \in Blocks(body) /\ pc[2] \in Nat \ {0}

Followed ==
  /\ pc[1] \in ReachableBlocks
  /\ bad # "gone"
  /\ bad = "no" /\ pc[2] <= Len(Stmts(body, pc[1])) + 1
       => Agrees(body, pc[1], pc[2], Seen(pc[1], pc[2]), here, holes)

RunInv ==
  /\ Inductive /\ States /\ MachineFits
  /\ pc = Stopped => Idle
  /\ pc # Stopped => Placed /\ (Vetted => Followed)

\* What an accepted body's final states say of a block that was walked.
LEMMA FinalStates ==
  ASSUME Inductive, States, Accepted, NEW b \in walked
  PROVE  /\ b \in Blocks(body)
         /\ ProcessBlock(body, live_out, b, entry[b]).errs = {}
         /\ exit[b] = Known(ProcessBlock(body, live_out, b, entry[b]))
         /\ \A i \in 1 .. Len(Stmts(body, b)) :
              StmtErrors(body, live_out, Seen(b, i), <<b, i>>, Stmts(body, b)[i]) = {}
         /\ LET last == Seen(b, Len(Stmts(body, b)) + 1)
            IN  /\ TermReadErrors(body, last, Term(body, b)) = {}
                /\ IsCall(Term(body, b)) => PassErrors(body, Lent(body, b, last), Term(body, b)) = {}
<1> DEFINE n == Len(Stmts(body, b))
<1>1. b \in Blocks(body) /\ body \in Bodies /\ n \in Nat
  BY BodiesAssumption DEF Inductive, Shape, IsBody
<1>2. /\ exit[b] = Known(ProcessBlock(body, live_out, b, entry[b]))
      /\ ProcessBlock(body, live_out, b, entry[b]).errs = {}
  BY DEF Inductive, WalkedLast, Accepted
<1>3. IsKnown(body, entry[b])
  BY <1>1 DEF States
<1>4. (n + 1) - 1 = n
  BY <1>1
<1> QED
  BY <1>1, <1>2, <1>3, <1>4, NothingReported DEF Seen

LEMMA Reached ==
  ASSUME body \in Bodies
  PROVE  /\ Entry \in ReachableBlocks
         /\ \A b \in ReachableBlocks : b \in Blocks(body) /\ Succs(body, b) \subseteq ReachableBlocks
<1>1. Entry \in ReachableBlocks
  BY BodiesAssumption DEF ReachableBlocks, IsBody
<1>2. ASSUME NEW b \in ReachableBlocks, NEW next \in Succs(body, b) PROVE next \in ReachableBlocks
  <2>1. next \in Blocks(body)
    BY <1>2, BodiesAssumption DEF IsBody, Succs, ReachableBlocks
  <2> QED
    BY <1>2, <2>1 DEF ReachableBlocks
<1> QED
  BY <1>1, <1>2 DEF ReachableBlocks

\* A step of the run leaves what the checker found.
LEMMA CheckerStays ==
  ASSUME UNCHANGED checker
  PROVE  /\ body' = body /\ live_out' = live_out /\ entry' = entry
         /\ Inductive => Inductive'
         /\ States => States'
         /\ Accepted' <=> Accepted
         /\ Vetted' <=> Vetted
         /\ ReachableBlocks' = ReachableBlocks
<1>1. /\ body' = body /\ live_out' = live_out /\ entry' = entry /\ exit' = exit
      /\ worklist' = worklist /\ pushing' = pushing /\ started' = started
      /\ errors' = errors /\ walked' = walked
  BY DEF checker
<1>2. Inductive => Inductive'
  BY <1>1 DEF Inductive, Shape, EntryNotQueued, QueuedFirst, Settled, WalkedLast, Waiting, Merged, Elements
<1>3. States => States'
  BY <1>1 DEF States
<1>4. ReachableBlocks' = ReachableBlocks
  BY <1>1 DEF ReachableBlocks
<1>5. (Accepted' <=> Accepted) /\ (Vetted' <=> Vetted)
  BY <1>1, <1>4 DEF Accepted, Checked, Vetted
<1> QED
  BY <1>1, <1>2, <1>3, <1>4, <1>5

LEMMA BeginKeeps ==
  ASSUME RunInv, Begin
  PROVE  RunInv'
<1>1. /\ Accepted /\ pc = Stopped /\ pc' = <<Entry, 1>> /\ UNCHANGED checker
      /\ here' = here /\ holes' = holes /\ stale' = stale /\ bad' = bad
  BY DEF Begin
<1>2. Idle /\ body \in Bodies
  BY <1>1 DEF RunInv, Inductive, Shape
<1>3. Entry \in Blocks(body) /\ Entry \in ReachableBlocks
  BY <1>2, Reached DEF ReachableBlocks
<1>4. /\ body' = body /\ ReachableBlocks' = ReachableBlocks /\ Accepted'
      /\ Inductive' /\ States'
  BY <1>1, CheckerStays DEF RunInv
<1>5. pc' # Stopped
  BY <1>1 DEF Stopped, Entry
<1>6. MachineFits'
  BY <1>1, <1>4 DEF RunInv, MachineFits
<1>7. pc'[1] = Entry /\ pc'[2] = 1
  BY <1>1
<1>8. Placed'
  BY <1>1, <1>3, <1>4, <1>7 DEF Placed
<1>9. Agrees(body, Entry, 1, Seen(Entry, 1)', here, holes)
  <2> DEFINE st == Seen(Entry, 1)'
  <2>1. (\A l \in Locals(body) : here[l]) /\ \A l \in Locals(body) : holes[l] = {}
    BY <1>2 DEF Idle
  <2> HIDE DEF st
  <2>2. Agrees(body, Entry, 1, st, here, holes)
    BY <2>1 DEF Agrees, GoneIsMoved, Covers
  <2> QED
    BY <2>2 DEF st
<1>10. Followed'
  <2>1. bad' = "no"
    BY <1>1, <1>2 DEF Idle
  <2>2. Agrees(body, pc[1], pc[2], Seen(pc[1], pc[2]), here, holes)'
    BY <1>1, <1>4, <1>7, <1>9
  <2> QED
    BY <1>3, <1>4, <1>7, <2>1, <2>2 DEF Followed
<1> QED
  BY <1>4, <1>5, <1>6, <1>8, <1>10 DEF RunInv

\* One statement of the run, one statement of the walk.
LEMMA StatementKeepsFollowed ==
  ASSUME RunInv, RunStmt, Placed, Vetted, Followed, RunsAs(Current), bad = "no",
         pc[2] \in 1 .. Len(Stmts(body, pc[1]))
  PROVE  Followed'
<1> DEFINE b == pc[1]
           i == pc[2]
           s == Stmts(body, b)[i]
           st == Seen(b, i)
           next == Seen(b, i + 1)
<1>1. /\ Inductive /\ States /\ MachineFits /\ Accepted /\ body \in Bodies
      /\ b \in Blocks(body) /\ b \in ReachableBlocks /\ b \in walked
      /\ i \in 1 .. Len(Stmts(body, b)) /\ Len(Stmts(body, b)) \in Nat /\ i \in Nat
  BY BodiesAssumption DEF RunInv, Placed, Followed, Vetted, Inductive, Shape, IsBody
<1>2. Agrees(body, b, i, st, here, holes)
  <2>1. i <= Len(Stmts(body, b)) + 1
    BY <1>1
  <2> QED
    BY <2>1 DEF Followed
<1>3. /\ StmtErrors(body, live_out, st, <<b, i>>, s) = {}
  BY <1>1, FinalStates
<1>4. IsWalk(body, st) /\ next = Step(body, live_out, b, i, st)
  <2> DEFINE k == i - 1
  <2>1. k \in Nat /\ k + 1 = i /\ (i + 1) - 1 = k + 1
    BY <1>1
  <2>2. IsKnown(body, entry[b])
    BY <1>1 DEF States
  <2>3. st = StateAt(body, live_out, b, entry[b], k) /\ next = StateAt(body, live_out, b, entry[b], k + 1)
    BY <2>1 DEF Seen
  <2> HIDE DEF k, b, i, st, next
  <2>4. IsWalk(body, st)
    BY <2>1, <2>2, <2>3, WalkKeepsForm
  <2>5. StateAt(body, live_out, b, entry[b], k + 1)
          = Step(body, live_out, b, k + 1, StateAt(body, live_out, b, entry[b], k))
    BY <2>1, StateAtIs
  <2> QED
    BY <2>1, <2>3, <2>4, <2>5
<1>5. Current = s
  BY DEF Current
<1>6. DOMAIN holes = Locals(body) /\ here \in [Locals(body) -> BOOLEAN] /\ AreHoles(body, holes)
  BY <1>1 DEF MachineFits, AreHoles
<1>7. Agrees(body, b, i + 1, next, HereAfter(body, s, here), HolesAfter(body, s, holes))
  <2>1. Agrees(body, b, i + 1, Step(body, live_out, b, i, st),
               HereAfter(body, s, here), HolesAfter(body, s, holes))
    <3> HIDE DEF st
    <3> QED
      BY <1>1, <1>2, <1>3, <1>4, <1>6, StatementKeeps
  <2> HIDE DEF next, st
  <2> QED
    BY <1>4, <2>1
<1>8. Verdict(UsedPlaces(s)) # "gone"
  <2>1. ASSUME NEW p \in UsedPlaces(s) PROVE There(p, here, holes)
    <3> HIDE DEF st
    <3> QED
      BY <1>1, <1>2, <1>3, <1>6, <2>1, StatementReadsWhatIsThere
  <2> QED
    BY <1>1, <2>1, VerdictOfWhatIsThere
<1>9. /\ pc' = <<b, i + 1>> /\ UNCHANGED checker
      /\ here' = HereAfter(body, s, here) /\ holes' = HolesAfter(body, s, holes)
      /\ bad' = bad \/ bad' = Verdict(UsedPlaces(s))
  BY <1>5 DEF RunsAs
<1>10. /\ body' = body /\ live_out' = live_out /\ entry' = entry
       /\ ReachableBlocks' = ReachableBlocks
  BY <1>9, CheckerStays
<1>11. pc'[1] = b /\ pc'[2] = i + 1
  BY <1>9
<1>12. bad' # "gone"
  BY <1>8, <1>9
<1>13. Agrees(body, pc[1], pc[2], Seen(pc[1], pc[2]), here, holes)'
  <2>1. Seen(pc[1], pc[2])' = next
    BY <1>10, <1>11 DEF Seen
  <2> HIDE DEF next, b, i, s, st
  <2> QED
    BY <1>7, <1>9, <1>10, <1>11, <2>1
<1> QED
  BY <1>1, <1>10, <1>11, <1>12, <1>13 DEF Followed

LEMMA StatementKeepsRunInv ==
  ASSUME RunInv, RunStmt
  PROVE  RunInv'
<1>1. pc # Stopped
  BY DEF RunStmt, RunStorageLive, RunEnd, RunDeinit, RunBorrow, RunAssign, RunCompute, RunNop, AtStmt, Running
<1>2. Placed /\ body \in Bodies /\ MachineFits
  BY <1>1 DEF RunInv, Inductive, Shape
<1>3. /\ pc[2] \in 1 .. Len(Stmts(body, pc[1])) /\ bad = "no"
      /\ RunsAs(Current) /\ MachineFits'
  BY <1>2, StatementsRun DEF Placed
<1>4. pc' = <<pc[1], pc[2] + 1>> /\ UNCHANGED checker
  BY <1>3 DEF RunsAs
<1>5. /\ body' = body /\ (Accepted' <=> Accepted) /\ (Vetted' <=> Vetted)
      /\ Inductive' /\ States'
  BY <1>4, CheckerStays DEF RunInv
<1>6. Placed' /\ pc' # Stopped
  <2>1. pc'[1] = pc[1] /\ pc'[2] = pc[2] + 1 /\ pc[2] + 1 \in Nat \ {0}
    BY <1>2, <1>4 DEF Placed
  <2> QED
    BY <1>2, <1>4, <1>5, <2>1 DEF Placed, Stopped
<1>7. Vetted' => Followed'
  BY <1>1, <1>2, <1>3, <1>5, StatementKeepsFollowed DEF RunInv
<1> QED
  BY <1>3, <1>5, <1>6, <1>7 DEF RunInv

LEMMA SuccsAre ==
  ASSUME NEW bd \in Bodies, NEW b \in Blocks(bd), NEW next \in Succs(bd, b)
  PROVE  next \in Blocks(bd) /\ next \in Nat \ {0} /\ next # Entry
<1>1. Succ(bd, b) \in Seq(Blocks(bd)) /\ Blocks(bd) = 1 .. Len(bd.blocks)
  BY BodiesAssumption DEF IsBody
<1>2. next \in Blocks(bd)
  BY <1>1 DEF Succs
<1>3. next # Entry
  BY EntryAssumption
<1> QED
  BY <1>1, <1>2, <1>3

\* What a terminator reads is there.
LEMMA TerminatorReadsWhatIsThere ==
  ASSUME RunInv, Placed, Vetted, Followed, AtTerm
  PROVE  Verdict(ReadByTerm) # "gone"
<1> DEFINE b == pc[1]
           n == Len(Stmts(body, b))
           st == Seen(b, n + 1)
<1>1. /\ Inductive /\ States /\ MachineFits /\ Accepted /\ body \in Bodies
      /\ b \in Blocks(body) /\ b \in walked /\ n \in Nat
  BY BodiesAssumption DEF RunInv, Placed, Followed, Vetted, Inductive, Shape, IsBody
<1>2. pc[2] = n + 1 /\ bad = "no"
  BY DEF AtTerm, Running
<1>3. Agrees(body, b, n + 1, st, here, holes)
  <2>1. pc[2] <= n + 1
    BY <1>1, <1>2
  <2> QED
    BY <1>2, <2>1 DEF Followed
<1>4. TermReadErrors(body, st, Term(body, b)) = {}
  BY <1>1, FinalStates
<1>5. ASSUME NEW l \in TermReads(body, b) PROVE There(Whole(l), here, holes)
  <2>1. l \in Locals(body) /\ PlacesFit(body)
    BY <1>1, StorageAssumption DEF PlacesFit
  <2>2. st.vs[l] # "Moved" /\ st.pm[l] = {}
    <3> HIDE DEF st, b
    <3>1. When(st.vs[l] = "Moved" \/ st.pm[l] # {}, "E2420") \subseteq TermReadErrors(body, st, Term(body, b))
      BY DEF TermReadErrors, TermReads
    <3> QED
      BY <1>4, <3>1 DEF When
  <2>3. ~ MayHaveEnded(body, b, n + 1, l)
    <3>1. ReadWhileStored(body, l, MayBeOver(body, l))
      BY <1>1, <2>1, StorageFits
    <3>2. n + 1 \in Positions(body, b) /\ l \in ReadsAt(body, b, n + 1)
      BY <1>1 DEF Positions, ReadsAt
    <3> HIDE DEF n, b
    <3> QED
      BY <1>1, <3>1, <3>2 DEF ReadWhileStored, MayHaveEnded
  <2> HIDE DEF st, n, b
  <2>4. here[l]
    BY <1>3, <2>1, <2>2, <2>3 DEF Agrees, GoneIsMoved
  <2>5. holes[l] = {}
    BY <1>3, <2>1, <2>2 DEF Agrees, Covers
  <2> QED
    BY <2>4, <2>5 DEF There, Whole
<1>6. \A p \in ReadByTerm : There(p, here, holes)
  BY <1>5 DEF ReadByTerm, Ending, TermReads
<1> QED
  BY <1>1, <1>6, VerdictOfWhatIsThere

\* The entry state of a successor knows what the block's exit state knows.
LEMMA SuccessorKnows ==
  ASSUME Inductive, States, Accepted, Vetted, NEW b \in ReachableBlocks, NEW next \in Succs(body, b)
  PROVE  Carries(body, Terminate(body, live_out, b, Seen(b, Len(Stmts(body, b)) + 1)), Seen(next, 1))
<1> DEFINE n == Len(Stmts(body, b))
           x == ProcessBlock(body, live_out, b, entry[b])
           st == Seen(next, 1)
<1>1. /\ body \in Bodies /\ b \in walked /\ b \in Blocks(body) /\ n \in Nat
      /\ next \in Blocks(body) /\ next # Entry
  <2>1. body \in Bodies /\ b \in walked /\ b \in Blocks(body)
    BY DEF Inductive, Shape, Vetted, ReachableBlocks
  <2> QED
    BY <2>1, SuccsAre, BodiesAssumption DEF IsBody
<1>2. entry[next] = Merge(body, InEdges(body, next), exit)
  <2>1. Waiting = {}
    BY DEF Accepted, Checked, Waiting, Elements
  <2> QED
    BY <1>1, <2>1 DEF Inductive, Settled, Merged
<1>3. Carries(body, exit[b], entry[next])
  BY <1>1, <1>2, MergeCarries
<1>4. exit[b] = Known(x)
  BY <1>1, FinalStates
<1>5. st = Walking(entry[next])
  <2>1. 1 - 1 = 0
    OBVIOUS
  <2> QED
    BY <2>1, StateAtIs DEF Seen
<1>6. x = Terminate(body, live_out, b, Seen(b, n + 1))
  <2>1. (n + 1) - 1 = n
    BY <1>1
  <2> QED
    BY <2>1 DEF ProcessBlock, Seen
<1> HIDE DEF x, st
<1>7. exit[b].vs = x.vs /\ exit[b].pm = x.pm /\ st.vs = entry[next].vs /\ st.pm = entry[next].pm
  BY <1>4, <1>5 DEF Known, Walking
<1>8. Carries(body, x, st)
  BY <1>3, <1>7 DEF Carries
<1> QED
  BY <1>6, <1>8 DEF st

\* What is gone at the start of the next block.
LEMMA TerminatorKeepsAgreement ==
  ASSUME RunInv, Placed, Vetted, Followed, AtTerm, NEW next \in Succs(body, pc[1])
  PROVE  /\ next \in ReachableBlocks /\ next \in Blocks(body)
         /\ Agrees(body, next, 1, Seen(next, 1),
                   HereAfterTerm(body, Ending, here), HolesAfterTerm(body, Ending, holes))
<1> DEFINE b == pc[1]
           n == Len(Stmts(body, b))
           last == Seen(b, n + 1)
           st == Seen(next, 1)
<1>1. /\ Inductive /\ States /\ MachineFits /\ Accepted /\ body \in Bodies
      /\ b \in Blocks(body) /\ b \in walked /\ n \in Nat /\ b \in ReachableBlocks
  BY BodiesAssumption DEF RunInv, Placed, Followed, Vetted, Inductive, Shape, IsBody
<1>2. next \in ReachableBlocks /\ next \in Blocks(body)
  BY <1>1, Reached
<1>3. Agrees(body, b, n + 1, last, here, holes)
  <2>1. pc[2] = n + 1 /\ bad = "no" /\ pc[2] <= n + 1
    BY <1>1 DEF AtTerm, Running
  <2> QED
    BY <2>1 DEF Followed
<1>4. IsCall(Term(body, b)) => PassErrors(body, Lent(body, b, last), Term(body, b)) = {}
  BY <1>1, FinalStates
<1>5. IsWalk(body, last)
  <2>1. (n + 1) - 1 = n /\ IsKnown(body, entry[b])
    BY <1>1 DEF States
  <2>2. IsWalk(body, StateAt(body, live_out, b, entry[b], n))
    BY <1>1, <2>1, WalkKeepsForm
  <2> QED
    BY <2>1, <2>2 DEF Seen
<1>6. Carries(body, Terminate(body, live_out, b, last), st)
  BY <1>1, SuccessorKnows
<1>7. next \in Succs(body, b)
  OBVIOUS
<1> HIDE DEF last, st
<1>8. Agrees(body, next, 1, st, HereAfterTerm(body, Term(body, b), here), HolesAfterTerm(body, Term(body, b), holes))
  BY <1>1, <1>3, <1>4, <1>5, <1>6, <1>7, TerminatorKeeps
<1> QED
  BY <1>2, <1>8 DEF st, Ending

LEMMA BranchKeeps ==
  ASSUME RunInv, RunBranch
  PROVE  RunInv'
<1> DEFINE b == pc[1]
<1>1. /\ AtTerm /\ pc # Stopped /\ ~IsCall(Ending) /\ bad' = Verdict(ReadByTerm)
      /\ \/ \E next \in Succs(body, b) : pc' = <<next, 1>>
         \/ pc' = <<b, pc[2] + 1>>
      /\ UNCHANGED checker /\ here' = here /\ holes' = holes /\ stale' = stale
  BY DEF RunBranch, AtTerm, Running
<1>2. Placed /\ body \in Bodies /\ MachineFits /\ (Vetted => Followed)
  BY <1>1 DEF RunInv, Inductive, Shape
<1>3. /\ body' = body /\ (Accepted' <=> Accepted) /\ (Vetted' <=> Vetted)
      /\ live_out' = live_out /\ entry' = entry /\ ReachableBlocks' = ReachableBlocks
      /\ Inductive' /\ States'
  BY <1>1, CheckerStays DEF RunInv
<1>4. MachineFits'
  BY <1>1, <1>2, <1>3 DEF MachineFits
<1>5. pc[2] = Len(Stmts(body, b)) + 1 /\ Len(Stmts(body, b)) \in Nat /\ b \in Blocks(body)
  BY <1>1, <1>2, BodiesAssumption DEF AtTerm, Placed, IsBody
<1>6. CASE \E next \in Succs(body, b) : pc' = <<next, 1>>
  <2>1. PICK next \in Succs(body, b) : pc' = <<next, 1>>
    BY <1>6
  <2>2. next \in Blocks(body) /\ next \in Nat \ {0}
    BY <1>2, <1>5, SuccsAre
  <2>3. pc'[1] = next /\ pc'[2] = 1
    BY <2>1
  <2>4. Placed' /\ pc' # Stopped
    BY <1>2, <1>3, <2>1, <2>2, <2>3 DEF Placed, Stopped
  <2>5. ASSUME Vetted PROVE Followed'
    <3>1. /\ next \in ReachableBlocks
          /\ Agrees(body, next, 1, Seen(next, 1),
                    HereAfterTerm(body, Ending, here), HolesAfterTerm(body, Ending, holes))
      BY <1>1, <1>2, <2>5, TerminatorKeepsAgreement
    <3>2. HereAfterTerm(body, Ending, here) = here /\ HolesAfterTerm(body, Ending, holes) = holes
      BY <1>1 DEF HereAfterTerm, HolesAfterTerm
    <3>3. Seen(pc[1], pc[2])' = Seen(next, 1)
      BY <1>3, <2>3 DEF Seen
    <3>4. Agrees(body, pc[1], pc[2], Seen(pc[1], pc[2]), here, holes)'
      BY <1>1, <1>3, <2>3, <3>1, <3>2, <3>3
    <3>5. bad' # "gone"
      BY <1>1, <1>2, <2>5, TerminatorReadsWhatIsThere
    <3> QED
      BY <1>3, <2>3, <3>1, <3>4, <3>5 DEF Followed
  <2> QED
    BY <1>2, <1>3, <1>4, <2>4, <2>5 DEF RunInv
<1>7. CASE pc' = <<b, pc[2] + 1>>
  <2>1. pc'[1] = b /\ pc'[2] = pc[2] + 1 /\ pc[2] + 1 \in Nat \ {0}
    BY <1>5, <1>7
  <2>2. Placed' /\ pc' # Stopped
    BY <1>2, <1>3, <1>7, <2>1 DEF Placed, Stopped
  <2>3. ASSUME Vetted PROVE Followed'
    <3>1. bad' # "gone"
      BY <1>1, <1>2, <2>3, TerminatorReadsWhatIsThere
    <3>2. ~ (pc'[2] <= Len(Stmts(body', pc'[1])) + 1)
      BY <1>3, <1>5, <2>1
    <3>3. pc'[1] \in ReachableBlocks'
      BY <1>2, <1>3, <2>1, <2>3 DEF Followed
    <3> QED
      BY <3>1, <3>2, <3>3 DEF Followed
  <2> QED
    BY <1>2, <1>3, <1>4, <2>2, <2>3 DEF RunInv
<1> QED
  BY <1>1, <1>6, <1>7

LEMMA CallKeeps ==
  ASSUME RunInv, RunCall
  PROVE  RunInv'
<1> DEFINE b == pc[1]
           t == Ending
           taken == {ArgAt(t, i) : i \in Taken(body, t)}
           changed == IF t.kind = "Jit" THEN {}
                      ELSE {ArgAt(t, i) : i \in (t.consumes \cup t.mutates) \cap DOMAIN t.reads}
           spoiled == [r \in Locals(body) |->
             IF r \notin Refs \/ stale[r] # "no" THEN stale[r]
             ELSE IF \E l \in changed : r # l /\ Overlap(target[r], Object(l)) THEN "mutated"
             ELSE IF \E l \in taken : Overlap(target[r], Whole(l)) THEN "passed" ELSE "no"]
           next == t.succ[1]
           Settles(cause) == stale' = [l \in Locals(body) |->
                               IF l \notin Elements(t.dest) THEN spoiled[l]
                               ELSE IF l = t.dest[1] THEN cause ELSE "no"]
<1>1. /\ AtTerm /\ pc # Stopped /\ IsCall(t) /\ bad' = Verdict(ReadByTerm)
      /\ pc' = <<next, 1>> /\ UNCHANGED checker
      /\ here' = [l \in Locals(body) |-> IF l \in Elements(t.dest) THEN TRUE
                                         ELSE here[l] /\ l \notin taken]
      /\ holes' = [l \in Locals(body) |-> IF l \in Elements(t.dest) THEN {} ELSE holes[l]]
      /\ Settles("no") \/ \E a : Settles(IF a \in Refs THEN spoiled[a] ELSE "no")
  BY DEF RunCall, AtTerm, Running
<1>2. Placed /\ body \in Bodies /\ MachineFits /\ (Vetted => Followed)
  BY <1>1 DEF RunInv, Inductive, Shape
<1>3. /\ body' = body /\ (Accepted' <=> Accepted) /\ (Vetted' <=> Vetted)
      /\ live_out' = live_out /\ entry' = entry /\ ReachableBlocks' = ReachableBlocks
      /\ Inductive' /\ States'
  BY <1>1, CheckerStays DEF RunInv
<1>4. here' = HereAfterTerm(body, t, here) /\ holes' = HolesAfterTerm(body, t, holes)
  BY <1>1 DEF HereAfterTerm, HolesAfterTerm
<1>5. MachineFits'
  <2>1. spoiled \in [Locals(body) -> {"no"} \cup Causes]
    BY <1>2 DEF MachineFits, Causes
  <2>2. stale' \in [Locals(body) -> {"no"} \cup Causes]
    <3>1. PICK cause \in {"no"} \cup {spoiled[a] : a \in Refs} : Settles(cause)
      <4> HIDE DEF spoiled, Settles
      <4> QED
        BY <1>1
    <3> HIDE DEF spoiled
    <3>2. \A l \in Locals(body) : spoiled[l] \in {"no"} \cup Causes
      BY <2>1
    <3>3. cause \in {"no"} \cup Causes
      BY <3>2 DEF Refs
    <3> HIDE DEF t
    <3> QED
      BY <3>1, <3>2, <3>3
  <2>3. here' \in [Locals(body) -> BOOLEAN]
    <3>1. \A l \in Locals(body) : here[l] \in BOOLEAN
      BY <1>2 DEF MachineFits
    <3> HIDE DEF t, taken
    <3> QED
      BY <1>1, <3>1
  <2>4. AreHoles(body, holes')
    BY <1>1, <1>2 DEF MachineFits, AreHoles
  <2> QED
    BY <1>3, <2>2, <2>3, <2>4 DEF MachineFits
<1>6. next \in Succs(body, b) /\ next \in Blocks(body) /\ next \in Nat \ {0}
  <2>1. b \in Blocks(body)
    BY <1>2 DEF Placed
  <2>2. IsCall(Term(body, b)) => Len(Succ(body, b)) = 1
    BY <1>2, <2>1, StorageAssumption DEF PlacesFit
  <2>3. Len(Succ(body, b)) = 1 /\ Succ(body, b) \in Seq(Blocks(body))
    BY <1>1, <1>2, <2>1, <2>2, BodiesAssumption DEF IsBody, Ending
  <2>4. 1 \in DOMAIN Succ(body, b) /\ next = Succ(body, b)[1]
    BY <2>3 DEF Succ, Ending
  <2>5. next \in Succs(body, b)
    BY <2>4 DEF Succs
  <2> QED
    BY <1>2, <2>1, <2>5, SuccsAre
<1>7. pc'[1] = next /\ pc'[2] = 1
  BY <1>1
<1>8. Placed' /\ pc' # Stopped
  BY <1>1, <1>2, <1>3, <1>6, <1>7 DEF Placed, Stopped
<1>9. ASSUME Vetted PROVE Followed'
  <2>1. /\ next \in ReachableBlocks
        /\ Agrees(body, next, 1, Seen(next, 1),
                  HereAfterTerm(body, t, here), HolesAfterTerm(body, t, holes))
    BY <1>1, <1>2, <1>6, <1>9, TerminatorKeepsAgreement
  <2>2. Seen(pc[1], pc[2])' = Seen(next, 1)
    BY <1>3, <1>7 DEF Seen
  <2> HIDE DEF t, next
  <2>3. Agrees(body, pc[1], pc[2], Seen(pc[1], pc[2]), here, holes)'
    BY <1>3, <1>4, <1>7, <2>1, <2>2
  <2>4. bad' # "gone"
    BY <1>1, <1>2, <1>9, TerminatorReadsWhatIsThere
  <2> QED
    BY <1>3, <1>7, <2>1, <2>3, <2>4 DEF Followed
<1> QED
  BY <1>2, <1>3, <1>5, <1>8, <1>9 DEF RunInv

-----------------------------------------------------------------------------
(* The checker's own steps *)

LEMMA BlockKeepsForm ==
  ASSUME NEW bd \in Bodies, NEW out, NEW b \in Blocks(bd), NEW st, IsKnown(bd, st)
  PROVE  IsKnown(bd, Known(ProcessBlock(bd, out, b, st)))
<1> DEFINE n == Len(Stmts(bd, b))
           last == StateAt(bd, out, b, st, n)
           x == ProcessBlock(bd, out, b, st)
<1>1. IsWalk(bd, last)
  BY WalkKeepsForm, BodiesAssumption DEF IsBody
<1>2. x = Terminate(bd, out, b, last)
  BY DEF ProcessBlock
<1> HIDE DEF last
<1>3. IsWalk(bd, Terminate(bd, out, b, last))
  BY <1>1, TerminateIs
<1> HIDE DEF x
<1>4. IsKnown(bd, Known(x))
  BY <1>2, <1>3 DEF Known, IsWalk, IsKnown
<1> QED
  BY <1>4 DEF x

LEMMA StatesAtFirst ==
  ASSUME Init
  PROVE  States
<1>1. IsKnown(body, Initial(body)) /\ IsKnown(body, Nothing(body))
  BY DEF Initial, Nothing, IsKnown
<1> QED
  BY <1>1 DEF Init, States

LEMMA CheckKeepsStates ==
  ASSUME Inductive, States, CheckNext
  PROVE  States'
<1>0. body' = body /\ body \in Bodies /\ Entry \in Blocks(body)
  BY BodiesAssumption
  DEF CheckNext, QueueSuccessor, WalkEntry, SkipBlock, WalkBlock, Inductive, Shape, IsBody
<1>1. CASE QueueSuccessor \/ SkipBlock
  BY <1>1 DEF QueueSuccessor, SkipBlock, States
<1>2. CASE WalkEntry
  <2> DEFINE st == ProcessBlock(body, live_out, Entry, entry[Entry])
  <2>1. exit' = [exit EXCEPT ![Entry] = Known(st)] /\ entry' = entry
    BY <1>2 DEF WalkEntry
  <2>2. IsKnown(body, Known(st))
    BY <1>0, BlockKeepsForm DEF States
  <2> HIDE DEF st
  <2>3. \A b \in Blocks(body) : exit'[b] = IF b = Entry THEN Known(st) ELSE exit[b]
    BY <2>1 DEF Inductive, Shape
  <2> QED
    BY <1>0, <2>1, <2>2, <2>3 DEF States
<1>3. CASE WalkBlock
  <2> DEFINE b == Head(worklist)
             st == ProcessBlock(body, live_out, b, Merged(b))
  <2>1. /\ entry' = [entry EXCEPT ![b] = Merged(b)]
        /\ exit' = exit \/ exit' = [exit EXCEPT ![b] = Known(st)]
    BY <1>3 DEF WalkBlock
  <2>2. b \in Blocks(body)
    BY <1>3, ElementsOf DEF WalkBlock, Popping, Inductive, Shape
  <2>3. IsKnown(body, Merged(b))
    BY MergeKeepsForm DEF States, Merged
  <2>4. IsKnown(body, Known(st))
    BY <1>0, <2>2, <2>3, BlockKeepsForm
  <2> HIDE DEF b, st
  <2>5. /\ \A d \in Blocks(body) : entry'[d] = IF d = b THEN Merged(b) ELSE entry[d]
        /\ \A d \in Blocks(body) : exit'[d] = exit[d] \/ (d = b /\ exit'[d] = Known(st))
    BY <2>1 DEF Inductive, Shape
  <2>6. \A d \in Blocks(body) : IsKnown(body, entry'[d])
    BY <2>3, <2>5 DEF States
  <2>7. \A d \in Blocks(body) : IsKnown(body, exit'[d])
    BY <2>4, <2>5 DEF States
  <2> QED
    BY <1>0, <2>6, <2>7 DEF States
<1> QED
  BY <1>1, <1>2, <1>3 DEF CheckNext

\* The checker does not move once it has accepted a body.
LEMMA CheckKeeps ==
  ASSUME RunInv, Check
  PROVE  RunInv'
<1>1. CheckNext /\ UNCHANGED machine /\ Inductive /\ States
  BY DEF Check, RunInv
<1>2. Inductive'
  BY <1>1, KeptByQueueing, KeptByWalkingEntry, KeptBySkipping, KeptByWalking DEF CheckNext
<1>3. States'
  BY <1>1, CheckKeepsStates
<1>4. pc = Stopped
  <2>1. ~ Accepted
    BY <1>1 DEF CheckNext, QueueSuccessor, WalkEntry, SkipBlock, WalkBlock, Popping, Accepted, Checked
  <2> QED
    BY <2>1 DEF RunInv, Placed
<1>5. body' = body
  BY <1>1 DEF CheckNext, QueueSuccessor, WalkEntry, SkipBlock, WalkBlock
<1>6. pc' = Stopped /\ Idle' /\ MachineFits'
  BY <1>1, <1>4, <1>5 DEF RunInv, machine, Idle, MachineFits
<1> QED
  BY <1>2, <1>3, <1>6 DEF RunInv

LEMMA RunInvAtFirst ==
  ASSUME RunInit
  PROVE  RunInv
<1>1. Init /\ Idle
  BY DEF RunInit
<1>2. Inductive /\ States
  BY <1>1, InductiveAtFirst, StatesAtFirst
<1>3. MachineFits
  BY <1>1 DEF Idle, MachineFits, AreHoles
<1> QED
  BY <1>1, <1>2, <1>3 DEF RunInv, Idle

\* The invariant holds of every run of every accepted body.
THEOREM RunsAreFollowed == RunSpec => []RunInv
<1>1. RunInit => RunInv
  BY RunInvAtFirst
<1>2. RunInv /\ [Check \/ Run]_vars => RunInv'
  <2> SUFFICES ASSUME RunInv, [Check \/ Run]_vars PROVE RunInv'
    OBVIOUS
  <2>1. CASE Check
    BY <2>1, CheckKeeps
  <2>2. CASE Begin
    BY <2>2, BeginKeeps
  <2>3. CASE RunStmt
    BY <2>3, StatementKeepsRunInv
  <2>4. CASE RunBranch
    BY <2>4, BranchKeeps
  <2>5. CASE RunCall
    BY <2>5, CallKeeps
  <2>6. CASE UNCHANGED vars
    <3>1. UNCHANGED checker /\ UNCHANGED machine
      BY <2>6 DEF vars
    <3>2. /\ Inductive' /\ States' /\ (Accepted' <=> Accepted) /\ (Vetted' <=> Vetted)
          /\ body' = body /\ live_out' = live_out /\ entry' = entry
          /\ ReachableBlocks' = ReachableBlocks
      BY <3>1, CheckerStays DEF RunInv
    <3>3. /\ pc' = pc /\ here' = here /\ holes' = holes /\ target' = target
          /\ mode' = mode /\ stale' = stale /\ bad' = bad
      BY <3>1 DEF machine
    <3>4. MachineFits' /\ (pc = Stopped => Idle')
      BY <3>2, <3>3 DEF RunInv, MachineFits, Idle
    <3>5. Placed => Placed'
      BY <3>2, <3>3 DEF Placed
    <3>6. Followed => Followed'
      BY <3>2, <3>3 DEF Followed, Seen
    <3> QED
      BY <3>2, <3>3, <3>4, <3>5, <3>6 DEF RunInv
  <2> QED
    BY <2>1, <2>2, <2>3, <2>4, <2>5, <2>6 DEF Run, RunStmt
<1> QED
  BY <1>1, <1>2, PTL DEF RunSpec

\* An accepted body, all of whose reachable blocks were walked, never reads
\* what an earlier step of the same run moved away: on any path, round any
\* loop, whole or in part, and with any number of locals and blocks.
THEOREM AcceptedReadsNothingMoved == RunSpec => []NoUseAfterMove
<1>1. RunInv => NoUseAfterMove
  BY DEF RunInv, NoUseAfterMove, Followed, Idle
<1> QED
  BY <1>1, RunsAreFollowed, PTL

-----------------------------------------------------------------------------
(***************************************************************************)
(* Liveness along the paths of the graph, for the references of a run.     *)
(* That the pairs LiveAtStart collects are closed under one more round is  *)
(* proved with the analysis, and cited from there.                         *)
(***************************************************************************)
Paths == INSTANCE LivenessProofs
           WITH live_in <- live_out, next <- 1, changed <- FALSE, done <- FALSE

\* Both modules read the same graph.
LEMMA SameGraph ==
  ASSUME NEW bd, NEW b, NEW i, NEW l
  PROVE  /\ Paths!Blocks(bd) = Blocks(bd) /\ Paths!Locals(bd) = Locals(bd)
         /\ Paths!Positions(bd, b) = Positions(bd, b)
         /\ Paths!ReadsAt(bd, b, i) = ReadsAt(bd, b, i)
         /\ Paths!WritesAt(bd, b, i) = WritesAt(bd, b, i)
         /\ Paths!FirstEvent(bd, b, i, l) = FirstEvent(bd, b, i, l)
         /\ Paths!Succs(bd, b) = Succs(bd, b)
         /\ Paths!IsBody(bd) = IsBody(bd)
BY DEF Paths!Blocks, Blocks, Paths!Locals, Locals, Paths!Positions, Positions,
       Paths!ReadsAt, ReadsAt, Paths!WritesAt, WritesAt, Paths!TermReads, TermReads,
       Paths!Reads, Reads, Paths!Writes, Writes, Paths!Stmts, Stmts, Paths!Term, Term,
       Paths!FirstEvent, FirstEvent, Paths!Succs, Succs, Paths!Succ, Succ,
       Paths!IsBody, IsBody, Paths!Entry, Entry

\* And what is assumed of the one is assumed of the other.
LEMMA SameAssumptions ==
  /\ \A bd \in Bodies : Paths!IsBody(bd)
  /\ DOMAIN FieldType \subseteq 1 .. 97
  /\ \A f \in DOMAIN FieldType : FieldType[f] \in Paths!Types
BY SameGraph, BodiesAssumption, FieldTypeAssumption DEF Paths!Types, Types

LEMMA SameStarts ==
  ASSUME NEW bd
  PROVE  Paths!LiveAtStart(bd) = LiveAtStart(bd)
BY DEF Paths!LiveAtStart, LiveAtStart, Paths!Blocks, Blocks, Paths!Locals, Locals,
       Paths!Positions, Positions, Paths!ReadsAt, ReadsAt, Paths!WritesAt, WritesAt,
       Paths!TermReads, TermReads, Paths!Reads, Reads, Paths!Writes, Writes,
       Paths!Stmts, Stmts, Paths!Term, Term, Paths!FirstEvent, FirstEvent,
       Paths!Succs, Succs, Paths!Succ, Succ, Paths!Cardinality, Cardinality

\* Live at the start of a block: read there first, or let through to a successor.
LEMMA StartsAre ==
  ASSUME NEW bd \in Bodies, NEW b \in Blocks(bd), NEW l \in Locals(bd)
  PROVE  <<b, l>> \in LiveAtStart(bd) <=>
           \/ FirstEvent(bd, b, 0, l) = "read"
           \/ FirstEvent(bd, b, 0, l) = "none" /\ \E s \in Succs(bd, b) : <<s, l>> \in LiveAtStart(bd)
<1>1. b \in Paths!Blocks(bd) /\ l \in Paths!Locals(bd)
  BY SameGraph
<1>2. <<b, l>> \in Paths!LiveAtStart(bd) <=>
        \/ <<b, l>> \in Paths!ReadFirst(bd)
        \/ <<b, l>> \in Paths!Untouched(bd)
             /\ \E s \in Paths!Succs(bd, b) : <<s, l>> \in Paths!LiveAtStart(bd)
  BY <1>1, SameAssumptions, Paths!StartsAre
<1>3. /\ <<b, l>> \in Paths!ReadFirst(bd) <=> FirstEvent(bd, b, 0, l) = "read"
      /\ <<b, l>> \in Paths!Untouched(bd) <=> FirstEvent(bd, b, 0, l) = "none"
  BY <1>1, SameGraph DEF Paths!ReadFirst, Paths!Untouched, Paths!Pairs
<1>4. Paths!Succs(bd, b) = Succs(bd, b)
  BY SameGraph
<1> QED
  BY <1>2, <1>3, <1>4, SameStarts

\* What is live at the start of a block is live at the end of its predecessors.
LEMMA LiveOverEdges ==
  ASSUME NEW bd \in Bodies, NEW b \in Blocks(bd), NEW next \in Succs(bd, b), NEW l \in Locals(bd),
         PathLiveAfter(bd, PathLiveOut(bd), next, 0, l)
  PROVE  l \in PathLiveOut(bd)[b]
<1> DEFINE in == PathLiveIn(bd)
<1>1. next \in Blocks(bd) /\ Succs(bd, next) \subseteq Blocks(bd)
  BY SuccsAre
<1>2. \A c \in Blocks(bd) : in[c] = {x \in Locals(bd) : <<c, x>> \in LiveAtStart(bd)}
  BY DEF PathLiveIn
<1>3. \A c \in Blocks(bd) : PathLiveOut(bd)[c] = UNION {in[s] : s \in Succs(bd, c)}
  BY DEF PathLiveOut, Out
<1> HIDE DEF in
<1>4. <<next, l>> \in LiveAtStart(bd)
  <2>1. CASE FirstEvent(bd, next, 0, l) = "read"
    BY <1>1, <2>1, StartsAre
  <2>2. CASE FirstEvent(bd, next, 0, l) = "none" /\ l \in PathLiveOut(bd)[next]
    <3>1. PICK s \in Succs(bd, next) : l \in in[s]
      BY <1>1, <1>3, <2>2
    <3>2. <<s, l>> \in LiveAtStart(bd)
      BY <1>1, <1>2, <3>1
    <3> QED
      BY <1>1, <2>2, <3>1, <3>2, StartsAre
  <2> QED
    BY <2>1, <2>2 DEF PathLiveAfter
<1> QED
  BY <1>1, <1>2, <1>3, <1>4

\* The first event after a position is none, or that of the first position that touches l.
Touching(bd, b, i, l) ==
  {j \in Positions(bd, b) : j > i /\ l \in ReadsAt(bd, b, j) \cup WritesAt(bd, b, j)}

LEMMA FirstEventIs ==
  ASSUME NEW bd \in Bodies, NEW b \in Blocks(bd), NEW i, NEW l
  PROVE  \/ Touching(bd, b, i, l) = {} /\ FirstEvent(bd, b, i, l) = "none"
         \/ \E j \in Touching(bd, b, i, l) :
              /\ \A k \in Touching(bd, b, i, l) : j <= k
              /\ FirstEvent(bd, b, i, l) = IF l \in ReadsAt(bd, b, j) THEN "read" ELSE "write"
<1>1. Paths!Touching(bd, b, i, l) = Touching(bd, b, i, l)
  BY SameGraph DEF Paths!Touching, Touching
<1>2. b \in Paths!Blocks(bd)
  BY SameGraph
<1>3. \/ Paths!Touching(bd, b, i, l) = {} /\ Paths!FirstEvent(bd, b, i, l) = "none"
      \/ \E j \in Paths!Touching(bd, b, i, l) :
           /\ \A k \in Paths!Touching(bd, b, i, l) : j <= k
           /\ Paths!FirstEvent(bd, b, i, l) = IF l \in Paths!ReadsAt(bd, b, j) THEN "read" ELSE "write"
  BY <1>2, SameAssumptions, Paths!FirstEventIs
<1> QED
  BY <1>1, <1>3, SameGraph

\* What a position reads is live before it.
LEMMA ReadIsLive ==
  ASSUME NEW bd \in Bodies, NEW b \in Blocks(bd), NEW i \in Positions(bd, b), NEW l \in ReadsAt(bd, b, i),
         NEW out
  PROVE  PathLiveAfter(bd, out, b, i - 1, l)
<1>1. Positions(bd, b) \subseteq Nat \ {0}
  BY BodiesAssumption DEF IsBody, Positions
<1>2. i \in Touching(bd, b, i - 1, l)
  BY <1>1 DEF Touching
<1>3. PICK j \in Touching(bd, b, i - 1, l) :
        /\ \A k \in Touching(bd, b, i - 1, l) : j <= k
        /\ FirstEvent(bd, b, i - 1, l) = IF l \in ReadsAt(bd, b, j) THEN "read" ELSE "write"
  BY <1>2, FirstEventIs
<1>4. j = i
  <2>1. j <= i /\ j > i - 1 /\ j \in Nat /\ i \in Nat
    BY <1>1, <1>2, <1>3 DEF Touching
  <2> QED
    BY <2>1
<1> QED
  BY <1>3, <1>4 DEF PathLiveAfter

\* What is live after a position that does not write it is live before it.
LEMMA LiveBefore ==
  ASSUME NEW bd \in Bodies, NEW b \in Blocks(bd), NEW i \in Positions(bd, b), NEW l, NEW out,
         PathLiveAfter(bd, out, b, i, l), l \notin WritesAt(bd, b, i)
  PROVE  PathLiveAfter(bd, out, b, i - 1, l)
<1>1. Positions(bd, b) \subseteq Nat \ {0}
  BY BodiesAssumption DEF IsBody, Positions
<1>2. CASE l \in ReadsAt(bd, b, i)
  BY <1>2, ReadIsLive
<1>3. CASE l \notin ReadsAt(bd, b, i)
  <2>1. Touching(bd, b, i - 1, l) = Touching(bd, b, i, l)
    <3>1. ASSUME NEW j \in Positions(bd, b), j # i PROVE j > i - 1 <=> j > i
      <4>1. j \in Nat /\ i \in Nat
        BY <1>1
      <4> QED
        BY <3>1, <4>1
    <3>2. ~ (i > i)
      BY <1>1
    <3> QED
      BY <1>3, <3>1, <3>2 DEF Touching
  <2>2. FirstEvent(bd, b, i - 1, l) = FirstEvent(bd, b, i, l)
    BY <2>1 DEF FirstEvent, Touching
  <2> QED
    BY <2>2 DEF PathLiveAfter
<1> QED
  BY <1>2, <1>3

\* What is live at the end of a block is live before its terminator.
LEMMA LiveAtEnd ==
  ASSUME NEW bd \in Bodies, NEW b \in Blocks(bd), NEW l, NEW out, l \in out[b]
  PROVE  PathLiveAfter(bd, out, b, Len(Stmts(bd, b)), l)
<1> DEFINE n == Len(Stmts(bd, b))
<1>1. n \in Nat
  BY BodiesAssumption DEF IsBody
<1>2. n + 1 \in Positions(bd, b) /\ WritesAt(bd, b, n + 1) = {} /\ (n + 1) - 1 = n
  BY <1>1 DEF Positions, WritesAt
<1>3. FirstEvent(bd, b, n + 1, l) = "none"
  <2>1. \A j \in Positions(bd, b) : ~ (j > n + 1)
    BY <1>1 DEF Positions
  <2>2. Touching(bd, b, n + 1, l) = {}
    BY <2>1 DEF Touching
  <2> QED
    BY <2>2, FirstEventIs
<1>4. PathLiveAfter(bd, out, b, n + 1, l)
  BY <1>3 DEF PathLiveAfter
<1> HIDE DEF n
<1>5. PathLiveAfter(bd, out, b, (n + 1) - 1, l)
  BY <1>2, <1>4, LiveBefore
<1> QED
  BY <1>2, <1>5 DEF n

\* The query of the checker sees every path.
LEMMA QuerySeesPaths ==
  ASSUME NEW bd \in Bodies, NEW b \in Blocks(bd), NEW i, NEW l, NEW out,
         PathLiveAfter(bd, out, b, i, l)
  PROVE  IsLiveAfter(bd, out, b, i, l)
<1>1. CASE FirstEvent(bd, b, i, l) = "read"
  <2>1. PICK j \in Touching(bd, b, i, l) : l \in ReadsAt(bd, b, j)
    BY <1>1, FirstEventIs
  <2> QED
    BY <2>1 DEF Touching, IsLiveAfter
<1>2. CASE l \in out[b]
  BY <1>2 DEF IsLiveAfter
<1> QED
  BY <1>1, <1>2 DEF PathLiveAfter

-----------------------------------------------------------------------------
(* Loans *)

\* The loans a statement adds, and those it takes out.
LoanOf(st, at, s) ==
  [source |-> LoanSource(st, s), dest |-> s.dest.local, form |-> s.form, at |-> at, prop |-> FALSE]

LEMMA EffectLoans ==
  ASSUME NEW bd, NEW st, NEW at, NEW s, IsWalk(bd, st)
  PROVE  LET e == Effect(bd, st, at, s)
         IN  /\ s.op = "StorageDead" => e.loans = {m \in st.loans : m.source.local # s.local}
             /\ s.op = "Drop" =>
                  e.loans = {m \in st.loans : m.source.local # s.local /\ m.dest # s.local}
             /\ s.op = "Borrow" /\ s.form \notin Strong => e.loans = st.loans \cup {LoanOf(st, at, s)}
             /\ s.op = "Borrow" /\ s.form \in Strong => e.loans = st.loans
             /\ s.op = "Assign" => e.loans = st.loans \cup Reissued(bd, st, at, s)
             /\ s.op \notin {"StorageDead", "Drop", "Borrow", "Assign"} => e.loans = st.loans
<1> DEFINE e == Effect(bd, st, at, s)
<1>1. ASSUME NEW x, NEW l, IsWalk(bd, x) PROVE Own(x, l).loans = x.loans
  BY <1>1 DEF Own, IsWalk
<1>2. ASSUME s.op = "StorageDead" PROVE e.loans = {m \in st.loans : m.source.local # s.local}
  <2> DEFINE left == {m \in st.loans : m.source.local # s.local}
  <2>1. e = [st EXCEPT !.vs[s.local] = "None", !.loans = left]
    BY <1>2, Zenon DEF Effect
  <2> HIDE DEF e, left
  <2>2. e.loans = left
    BY <2>1 DEF IsWalk
  <2> QED
    BY <2>2 DEF left
<1>3. ASSUME s.op = "Drop"
      PROVE  e.loans = {m \in st.loans : m.source.local # s.local /\ m.dest # s.local}
  <2> DEFINE left == {m \in st.loans : m.source.local # s.local /\ m.dest # s.local}
  <2>1. e = AfterDrop(st, s.local)
    BY <1>3, EffectIs
  <2>2. AfterDrop(st, s.local)
          = [st EXCEPT !.vs[s.local] = IF @ = "Moved" THEN @ ELSE "Ended", !.loans = left]
    BY DEF AfterDrop
  <2> HIDE DEF e, left
  <2>3. e.loans = left
    BY <2>1, <2>2 DEF IsWalk
  <2> QED
    BY <2>3 DEF left
<1>4. ASSUME s.op = "Borrow", s.form \notin Strong
      PROVE  e.loans = st.loans \cup {LoanOf(st, at, s)}
  <2> DEFINE lent == [st EXCEPT !.loans = @ \cup {LoanOf(st, at, s)}]
  <2>1. e = AfterBorrow(st, at, s)
    BY <1>4, EffectIs
  <2>2. AfterBorrow(st, at, s) = Own(lent, s.dest.local)
    BY <1>4 DEF AfterBorrow, LoanOf
  <2>3. IsWalk(bd, lent) /\ lent.loans = st.loans \cup {LoanOf(st, at, s)}
    BY DEF IsWalk, IsKnown
  <2> HIDE DEF e, lent
  <2> QED
    BY <1>1, <2>1, <2>2, <2>3
<1>5. ASSUME s.op = "Borrow", s.form \in Strong PROVE e.loans = st.loans
  <2> DEFINE lent == [st EXCEPT !.vs[s.src.local] = "Moved"]
  <2>1. e = AfterBorrow(st, at, s)
    BY <1>5, EffectIs
  <2>2. AfterBorrow(st, at, s) = Own(lent, s.dest.local)
    BY <1>5 DEF AfterBorrow
  <2>3. IsWalk(bd, lent) /\ lent.loans = st.loans
    BY DEF IsWalk, IsKnown
  <2> HIDE DEF e, lent
  <2> QED
    BY <1>1, <2>1, <2>2, <2>3
<1>6. ASSUME s.op = "Assign" PROVE e.loans = st.loans \cup Reissued(bd, st, at, s)
  <2> DEFINE more == Reissued(bd, st, at, s)
             open == PathsMoved(bd, st, s)
             read == [st EXCEPT !.loans = @ \cup more,
                                !.pm = open,
                                !.vs[s.src.local] = IF MovesWhole(bd, s) THEN "Moved" ELSE @]
             d == s.dest.local
             paths == IF s.dest.proj = <<>> THEN {}
                      ELSE IF IsFieldPath(s.dest.proj) THEN read.pm[d] \ {s.dest.proj} ELSE read.pm[d]
             filled == [read EXCEPT !.pm[d] = paths]
  <2>1. e = AfterAssign(bd, st, at, s)
    BY <1>6, EffectIs
  <2>2. AfterAssign(bd, st, at, s) = Own(filled, d)
    BY DEF AfterAssign
  <2>3. DOMAIN open = Locals(bd)
    BY DEF PathsMoved, IsWalk, IsKnown
  <2> HIDE DEF more, open
  <2>4. IsWalk(bd, read) /\ read.loans = st.loans \cup more
    BY <2>3 DEF IsWalk, IsKnown
  <2> HIDE DEF read, paths
  <2>5. IsWalk(bd, filled) /\ filled.loans = read.loans
    BY <2>4 DEF IsWalk, IsKnown
  <2> HIDE DEF e, filled
  <2>6. e.loans = st.loans \cup more
    BY <1>1, <2>1, <2>2, <2>4, <2>5
  <2> QED
    BY <2>6 DEF more
<1>7. ASSUME s.op \notin {"StorageDead", "Drop", "Borrow", "Assign"} PROVE e.loans = st.loans
  <2>1. CASE s.op = "StorageLive"
    <3> DEFINE own == Own(st, s.local)
    <3>1. e = [own EXCEPT !.pm[s.local] = {}]
      BY <2>1, Zenon DEF Effect
    <3>2. IsWalk(bd, own) /\ own.loans = st.loans
      BY <1>1, OwnIs
    <3> HIDE DEF e, own
    <3> QED
      BY <3>1, <3>2 DEF IsWalk
  <2>2. CASE s.op = "Deinit"
    <3>1. e = [st EXCEPT !.vs[s.local] = "Moved"]
      BY <2>2, Zenon DEF Effect
    <3> HIDE DEF e
    <3> QED
      BY <3>1 DEF IsWalk
  <2>3. CASE s.op \in {"Const", "BinaryOp", "GetDiscriminant"}
    <3>1. e = Own(st, s.dest.local)
      BY <2>3, EffectIs
    <3> HIDE DEF e
    <3> QED
      BY <1>1, <3>1
  <2>4. CASE s.op \notin {"StorageLive", "StorageDead", "Deinit", "Borrow", "Assign", "Const",
                          "BinaryOp", "GetDiscriminant", "Drop"}
    BY <2>4, EffectIs
  <2> QED
    BY <1>7, <2>1, <2>2, <2>3, <2>4
<1> HIDE DEF e
<1> QED
  BY <1>2, <1>3, <1>4, <1>5, <1>6, <1>7 DEF e

LEMMA StepLoans ==
  ASSUME NEW bd, NEW out, NEW b, NEW i, NEW st, IsWalk(bd, st)
  PROVE  Step(bd, out, b, i, st).loans
           = {m \in Effect(bd, st, <<b, i>>, Stmts(bd, b)[i]).loans : IsLiveAfter(bd, out, b, i, m.dest)}
<1> DEFINE s == Stmts(bd, b)[i]
           e == Effect(bd, st, <<b, i>>, s)
           new == StmtErrors(bd, out, st, <<b, i>>, s)
           told == [e EXCEPT !.errs = @ \cup new]
           at == <<b, i>>
<1>1. IsWalk(bd, e)
  BY EffectKeepsForm
<1>2. Step(bd, out, b, i, st) = EndLoans(bd, out, at, told)
  BY DEF Step
<1> HIDE DEF e, new
<1>3. IsWalk(bd, told) /\ told.loans = e.loans
  BY <1>1 DEF IsWalk, IsKnown
<1> HIDE DEF told
<1>4. at[1] = b /\ at[2] = i
  OBVIOUS
<1> HIDE DEF at
<1>5. EndLoans(bd, out, at, told).loans = {m \in told.loans : IsLiveAfter(bd, out, at[1], at[2], m.dest)}
  BY <1>3 DEF EndLoans, IsWalk
<1> QED
  BY <1>2, <1>3, <1>4, <1>5 DEF e

LoansLeft(bd, out, b, st) ==
  {m \in IF IsCall(Term(bd, b)) THEN Lent(bd, b, st).loans ELSE st.loans :
     IsLiveAfter(bd, out, b, Len(Stmts(bd, b)) + 1, m.dest)}

LEMMA TerminateLoans ==
  ASSUME NEW bd, NEW out, NEW b, NEW st, IsWalk(bd, st)
  PROVE  LET t == Term(bd, b)
             n == Len(Stmts(bd, b))
             x == Terminate(bd, out, b, st)
             lent == Lent(bd, b, st)
         IN  /\ lent.loans = st.loans \cup ResultLoans(st, <<b, n + 1>>, t)
             /\ x.loans = LoansLeft(bd, out, b, st)
             /\ IsCall(t) => MutationErrors(lent, t) \subseteq x.errs
<1> DEFINE t == Term(bd, b)
           n == Len(Stmts(bd, b))
           at == <<b, n + 1>>
           lent == [st EXCEPT !.loans = @ \cup ResultLoans(st, at, t)]
           after == IF IsCall(t) THEN AfterPass(bd, lent, t) ELSE st
           new == TermReadErrors(bd, st, t)
                  \cup (IF IsCall(t) THEN MutationErrors(lent, t) \cup PassErrors(bd, lent, t) ELSE {})
           told == [after EXCEPT !.errs = @ \cup new]
<1>1. Terminate(bd, out, b, st) = EndLoans(bd, out, at, told)
  BY DEF Terminate
<1>2. IsWalk(bd, lent) /\ lent.loans = st.loans \cup ResultLoans(st, at, t)
  <2> DEFINE more == ResultLoans(st, at, t)
  <2> HIDE DEF more
  <2>1. LET x == [st EXCEPT !.loans = @ \cup more]
        IN  IsWalk(bd, x) /\ x.loans = st.loans \cup more
    BY DEF IsWalk, IsKnown
  <2> QED
    BY <2>1 DEF more
<1>3. IsCall(t) => MutationErrors(lent, t) \subseteq new
  OBVIOUS
<1>9. lent = Lent(bd, b, st)
  BY DEF Lent
<1> HIDE DEF lent, new
<1>4. LET x == AfterPass(bd, lent, t)
      IN  IsWalk(bd, x) /\ x.loans = lent.loans
  BY <1>2 DEF AfterPass, IsWalk, IsKnown
<1>5. IsWalk(bd, after) /\ after.loans = IF IsCall(t) THEN lent.loans ELSE st.loans
  BY <1>2, <1>4
<1> HIDE DEF after
<1>6. IsWalk(bd, told) /\ told.loans = after.loans /\ new \subseteq told.errs
  BY <1>5 DEF IsWalk, IsKnown
<1> HIDE DEF told
<1>7. at[1] = b /\ at[2] = n + 1
  OBVIOUS
<1>8. LET x == EndLoans(bd, out, at, told)
      IN  /\ x.loans = {m \in told.loans : IsLiveAfter(bd, out, at[1], at[2], m.dest)}
          /\ x.errs = told.errs
  <2> HIDE DEF at
  <2> QED
    BY <1>6 DEF EndLoans, IsWalk
<1>10. Terminate(bd, out, b, st).loans
        = {m \in told.loans : IsLiveAfter(bd, out, b, n + 1, m.dest)}
  <2> HIDE DEF n
  <2> QED
    BY <1>1, <1>7, <1>8
<1>11. IsCall(t) => MutationErrors(lent, t) \subseteq Terminate(bd, out, b, st).errs
  BY <1>1, <1>3, <1>6, <1>8
<1>12. Terminate(bd, out, b, st).loans = LoansLeft(bd, out, b, st)
  <2>1. told.loans = IF IsCall(t) THEN Lent(bd, b, st).loans ELSE st.loans
    BY <1>5, <1>6, <1>9
  <2> HIDE DEF told, n, t
  <2>2. Terminate(bd, out, b, st).loans
          = {m \in IF IsCall(t) THEN Lent(bd, b, st).loans ELSE st.loans :
               IsLiveAfter(bd, out, b, n + 1, m.dest)}
    BY <1>10, <2>1
  <2> QED
    BY <2>2 DEF LoansLeft, n, t
<1> HIDE DEF n, t
<1> QED
  BY <1>2, <1>9, <1>11, <1>12 DEF n, t

\* An edge hands on every loan, at a join too.
LEMMA MergeCarriesLoans ==
  ASSUME NEW bd \in Bodies, NEW exits, NEW b \in Blocks(bd), NEW next \in Succs(bd, b)
  PROVE  exits[b].loans \subseteq Merge(bd, InEdges(bd, next), exits).loans
<1> DEFINE edges == InEdges(bd, next)
           m == Merge(bd, edges, exits)
<1>1. PICK i \in DOMAIN Succ(bd, b) : Succ(bd, b)[i] = next
  BY DEF Succs
<1>2. <<b, i>> \in edges
  BY <1>1 DEF InEdges
<1>3. CASE Cardinality(edges) = 1
  <2>1. PICK x : edges = {x}
    BY <1>3, EdgesAreFinite, FS_Singleton
  <2> DEFINE only == CHOOSE e \in edges : TRUE
  <2>2. only = <<b, i>>
    <3>1. only \in edges
      BY <1>2
    <3> HIDE DEF edges, only
    <3> QED
      BY <1>2, <2>1, <3>1
  <2>3. m = exits[b]
    <3>1. edges # {}
      BY <1>2
    <3>2. m = exits[only[1]]
      BY <1>3, <3>1 DEF Merge
    <3> HIDE DEF m, edges, only
    <3>3. only[1] = b
      BY <2>2
    <3> QED
      BY <3>2, <3>3
  <2> QED
    BY <2>3
<1>4. CASE Cardinality(edges) # 1
  <2>1. m.loans = UNION {exits[e[1]].loans : e \in edges}
    BY <1>2, <1>4 DEF Merge
  <2> HIDE DEF m, edges
  <2>2. exits[b].loans \in {exits[e[1]].loans : e \in edges}
    BY <1>2
  <2>3. exits[b].loans \subseteq m.loans
    BY <2>1, <2>2
  <2> QED
    BY <2>3 DEF m, edges
<1> QED
  BY <1>3, <1>4

\* The entry state of a successor has the loans of the block's exit state.
LEMMA SuccessorHasLoans ==
  ASSUME Inductive, States, Accepted, Vetted, NEW b \in ReachableBlocks, NEW next \in Succs(body, b)
  PROVE  Terminate(body, live_out, b, Seen(b, Len(Stmts(body, b)) + 1)).loans \subseteq Seen(next, 1).loans
<1> DEFINE n == Len(Stmts(body, b))
           x == ProcessBlock(body, live_out, b, entry[b])
           st == Seen(next, 1)
<1>1. /\ body \in Bodies /\ b \in walked /\ b \in Blocks(body) /\ n \in Nat
      /\ next \in Blocks(body) /\ next # Entry
  <2>1. body \in Bodies /\ b \in walked /\ b \in Blocks(body)
    BY DEF Inductive, Shape, Vetted, ReachableBlocks
  <2> QED
    BY <2>1, SuccsAre, BodiesAssumption DEF IsBody
<1>2. entry[next] = Merge(body, InEdges(body, next), exit)
  <2>1. Waiting = {}
    BY DEF Accepted, Checked, Waiting, Elements
  <2> QED
    BY <1>1, <2>1 DEF Inductive, Settled, Merged
<1>3. exit[b].loans \subseteq entry[next].loans
  BY <1>1, <1>2, MergeCarriesLoans
<1>4. exit[b] = Known(x)
  BY <1>1, FinalStates
<1>5. st = Walking(entry[next])
  <2>1. 1 - 1 = 0
    OBVIOUS
  <2> QED
    BY <2>1, StateAtIs DEF Seen
<1>6. x = Terminate(body, live_out, b, Seen(b, n + 1))
  <2>1. (n + 1) - 1 = n
    BY <1>1
  <2> QED
    BY <2>1 DEF ProcessBlock, Seen
<1> HIDE DEF x, st
<1>7. exit[b].loans = x.loans /\ st.loans = entry[next].loans
  BY <1>4, <1>5 DEF Known, Walking
<1>8. x.loans \subseteq st.loans
  BY <1>3, <1>7
<1> QED
  BY <1>6, <1>8 DEF st

\* What an accepted body's final states say of a call to a shim.
LEMMA NothingMutated ==
  ASSUME Inductive, States, Accepted, NEW b \in walked, IsCall(Term(body, b))
  PROVE  MutationErrors(Lent(body, b, Seen(b, Len(Stmts(body, b)) + 1)), Term(body, b)) = {}
<1> DEFINE n == Len(Stmts(body, b))
           last == StateAt(body, live_out, b, entry[b], n)
<1>1. b \in Blocks(body) /\ body \in Bodies /\ n \in Nat
  BY BodiesAssumption DEF Inductive, Shape, IsBody
<1>2. ProcessBlock(body, live_out, b, entry[b]).errs = {}
  BY FinalStates
<1>3. Seen(b, n + 1) = last
  <2>1. (n + 1) - 1 = n
    BY <1>1
  <2> QED
    BY <2>1 DEF Seen
<1>4. IsWalk(body, last)
  BY <1>1, WalkKeepsForm DEF States
<1>5. Terminate(body, live_out, b, last).errs = {}
  BY <1>2 DEF ProcessBlock
<1> HIDE DEF last
<1>6. MutationErrors(Lent(body, b, last), Term(body, b)) \subseteq Terminate(body, live_out, b, last).errs
  BY <1>4, TerminateLoans
<1> QED
  BY <1>3, <1>5, <1>6

-----------------------------------------------------------------------------
(***************************************************************************)
(* References.  While a path still reads a reference, the checker holds a  *)
(* loan for it: of the place it points to or of a place around it, and in  *)
(* the form it was made with.                                              *)
(***************************************************************************)
Caught == {"ended", "moved", "mutated", "aliased"}

Covered(loans, r, p, form) ==
  \E m \in loans :
    /\ m.dest = r /\ m.form = form /\ m.source.local = p.local
    /\ p.proj \in Seq(0 .. 99) /\ m.source.proj \in Seq(0 .. 99) /\ Within(p.proj, m.source.proj)

Tracked(bd, out, b, i, st, to, form, gone) ==
  \A r \in Locals(bd) :
    bd.ty[r] = "Ref" /\ PathLiveAfter(bd, out, b, i - 1, r)
      => gone[r] \notin Caught /\ (to[r] # Nowhere => Covered(st.loans, r, to[r], form[r]))

\* Loans of the places around two places that share storage conflict.
LEMMA PlacesMeet ==
  ASSUME NEW p, NEW q, NEW around_p, NEW around_q, NEW conservative,
         p.proj \in Seq(0 .. 99), q.proj \in Seq(0 .. 99),
         around_p.proj \in Seq(0 .. 99), around_q.proj \in Seq(0 .. 99),
         around_p.local = p.local, around_q.local = q.local,
         Within(p.proj, around_p.proj), Within(q.proj, around_q.proj), Overlap(p, q)
  PROVE  PlacesConflict(around_p, around_q, conservative)
<1> DEFINE a == p.proj  c == q.proj  m == around_p.proj  n == around_q.proj
<1>1. /\ a \in Seq(0 .. 99) /\ c \in Seq(0 .. 99) /\ m \in Seq(0 .. 99) /\ n \in Seq(0 .. 99)
      /\ Within(a, m) /\ Within(c, n) /\ (Within(a, c) \/ Within(c, a))
      /\ around_p.local = around_q.local
  BY DEF Overlap, Comparable
<1>2. PlacesConflict(around_p, around_q, conservative)
        <=> ~ \E i \in 1 .. Shorter(m, n) :
                /\ m[i] \in Fields /\ n[i] \in Fields /\ m[i] # n[i]
                /\ \A j \in 1 .. (i - 1) : SameKind(m[j], n[j])
  BY <1>1 DEF PlacesConflict
<1> HIDE DEF a, c, m, n
<1>3. ASSUME NEW i \in 1 .. Shorter(m, n) PROVE m[i] = n[i]
  <2>1. i \in Nat /\ 1 <= i /\ i <= Len(m) /\ i <= Len(n)
    BY <1>1 DEF Shorter
  <2>2. i \in DOMAIN m /\ i \in DOMAIN n
    BY <1>1, <2>1
  <2>3. i \in DOMAIN a /\ i \in DOMAIN c
    BY <1>1, <2>1 DEF Within
  <2> QED
    BY <1>1, <2>2, <2>3 DEF Within
<1> QED
  BY <1>2, <1>3

\* A conservative answer is yes when one of the places is a whole local.
LEMMA WholeConflicts ==
  ASSUME NEW a, NEW c, a.proj \in Seq(0 .. 99), c.proj = <<>>
  PROVE  PlacesConflict(a, c, TRUE)
<1>1. Shorter(a.proj, c.proj) = 0
  BY DEF Shorter
<1> QED
  BY <1>1 DEF PlacesConflict

\* A place inside a place is inside what is around it.
LEMMA WithinFurther ==
  ASSUME NEW p \in Seq(0 .. 99), NEW q \in Seq(0 .. 99), NEW tail \in Seq(0 .. 99), Within(p, q)
  PROVE  p \o tail \in Seq(0 .. 99) /\ Within(p \o tail, q)
<1>1. Len(q) \in Nat /\ Len(p) \in Nat /\ Len(tail) \in Nat /\ DOMAIN q = 1 .. Len(q)
  OBVIOUS
<1>2. p \o tail \in Seq(0 .. 99) /\ Len(p \o tail) = Len(p) + Len(tail)
  OBVIOUS
<1>3. ASSUME NEW k \in DOMAIN q PROVE (p \o tail)[k] = p[k]
  <2>1. k \in 1 .. Len(p)
    BY <1>1 DEF Within
  <2> QED
    BY <2>1
<1> QED
  BY <1>1, <1>2, <1>3 DEF Within

\* The checker at a statement of the run, and what it knows of references.
AtPoint(b, i, s, st) ==
  /\ body \in Bodies /\ b \in Blocks(body) /\ i \in 1 .. Len(Stmts(body, b))
  /\ s = Stmts(body, b)[i] /\ Current = s
  /\ IsWalk(body, st) /\ StmtErrors(body, live_out, st, <<b, i>>, s) = {}
  /\ s.op = "Drop" /\ s.local \in Refs => ~ PathLiveAfter(body, live_out, b, i, s.local)
  /\ BorrowTraced(st, s)
  /\ DOMAIN target = Locals(body) /\ DOMAIN mode = Locals(body) /\ DOMAIN stale = Locals(body)
  /\ Tracked(body, live_out, b, i, st, target, mode, stale)

\* What must hold of r after the statement.
Held(b, i, st, r) ==
  /\ stale'[r] \notin Caught
  /\ target'[r] # Nowhere
       => Covered(Step(body, live_out, b, i, st).loans, r, target'[r], mode'[r])

LEMMA PointIs ==
  ASSUME NEW b, NEW i, NEW s, NEW st, AtPoint(b, i, s, st)
  PROVE  /\ i \in Positions(body, b) /\ i \in Nat
         /\ ReadsAt(body, b, i) = Reads(body, s) /\ WritesAt(body, b, i) = Writes(s)
<1>1. i \in 1 .. Len(Stmts(body, b)) /\ Len(Stmts(body, b)) \in Nat /\ s = Stmts(body, b)[i]
  BY BodiesAssumption DEF AtPoint, IsBody
<1> QED
  BY <1>1 DEF Positions, ReadsAt, WritesAt

\* A reference that is read, or live after and not written, is tracked before.
LEMMA TrackedBefore ==
  ASSUME NEW b, NEW i, NEW s, NEW st, AtPoint(b, i, s, st), NEW r \in Refs,
         r \in Reads(body, s) \/ (PathLiveAfter(body, live_out, b, i, r) /\ r \notin Writes(s))
  PROVE  stale[r] \notin Caught /\ (target[r] # Nowhere => Covered(st.loans, r, target[r], mode[r]))
<1>1. body \in Bodies /\ b \in Blocks(body)
  BY DEF AtPoint
<1>2. PathLiveAfter(body, live_out, b, i - 1, r)
  BY <1>1, PointIs, ReadIsLive, LiveBefore
<1> QED
  BY <1>2 DEF AtPoint, Tracked, Refs

\* A loan made by the statement stays while its reference is live.
LEMMA LoanMade ==
  ASSUME NEW b, NEW i, NEW s, NEW st, AtPoint(b, i, s, st), NEW r, NEW p, NEW form,
         PathLiveAfter(body, live_out, b, i, r),
         Covered(Effect(body, st, <<b, i>>, s).loans, r, p, form)
  PROVE  Covered(Step(body, live_out, b, i, st).loans, r, p, form)
<1> DEFINE e == Effect(body, st, <<b, i>>, s)
<1>1. IsWalk(body, st) /\ s = Stmts(body, b)[i]
  BY DEF AtPoint
<1>2. Step(body, live_out, b, i, st).loans = {m \in e.loans : IsLiveAfter(body, live_out, b, i, m.dest)}
  BY <1>1, StepLoans
<1>3. IsLiveAfter(body, live_out, b, i, r)
  BY QuerySeesPaths DEF AtPoint
<1> HIDE DEF e
<1>4. Covered(e.loans, r, p, form)
  BY DEF e
<1> QED
  BY <1>2, <1>3, <1>4 DEF Covered

\* A loan outlives the statement if its reference does; its source is not ended.
LEMMA LoanStays ==
  ASSUME NEW b, NEW i, NEW s, NEW st, AtPoint(b, i, s, st), NEW r, NEW p, NEW form,
         PathLiveAfter(body, live_out, b, i, r), s.op = "Drop" => s.local # r,
         Covered(st.loans, r, p, form)
  PROVE  /\ Covered(Step(body, live_out, b, i, st).loans, r, p, form)
         /\ s.op \in {"StorageDead", "Drop"} => p.local # s.local
<1> DEFINE e == Effect(body, st, <<b, i>>, s)
<1>1. PICK m \in st.loans : /\ m.dest = r /\ m.form = form /\ m.source.local = p.local
                            /\ p.proj \in Seq(0 .. 99) /\ m.source.proj \in Seq(0 .. 99)
                            /\ Within(p.proj, m.source.proj)
  BY DEF Covered
<1>2. s.op \in {"StorageDead", "Drop"} => m.source.local # s.local
  <2> SUFFICES ASSUME s.op \in {"StorageDead", "Drop"}, m.source.local = s.local PROVE FALSE
    OBVIOUS
  <2> DEFINE at == <<b, i>>
  <2>1. IsLiveAfter(body, live_out, b, i, r)
    BY QuerySeesPaths DEF AtPoint
  <2>2. at[1] = b /\ at[2] = i
    OBVIOUS
  <2>3. StmtErrors(body, live_out, st, at, s) = When(Dangles(body, live_out, st, at, s.local), "E2450")
    BY Zenon DEF StmtErrors
  <2>4. StmtErrors(body, live_out, st, at, s) = {}
    BY DEF AtPoint
  <2> HIDE DEF at
  <2>5. Dangles(body, live_out, st, at, s.local)
    BY <1>1, <2>1, <2>2 DEF Dangles
  <2> QED
    BY <2>3, <2>4, <2>5 DEF When
<1>3. m \in e.loans
  <2>1. IsWalk(body, st)
    BY DEF AtPoint
  <2>2. /\ s.op = "StorageDead" => e.loans = {x \in st.loans : x.source.local # s.local}
        /\ s.op = "Drop" => e.loans = {x \in st.loans : x.source.local # s.local /\ x.dest # s.local}
        /\ s.op \notin {"StorageDead", "Drop"} => st.loans \subseteq e.loans
    BY <2>1, EffectLoans
  <2> HIDE DEF e
  <2> QED
    BY <1>1, <1>2, <2>2
<1>4. Covered(e.loans, r, p, form)
  <2> HIDE DEF e
  <2> QED
    BY <1>1, <1>3 DEF Covered
<1>5. Covered(Step(body, live_out, b, i, st).loans, r, p, form)
  BY <1>4, LoanMade
<1> QED
  BY <1>1, <1>2, <1>5

\* A reference the statement leaves alone, but that something may happen to.
LEMMA LeftAlone ==
  ASSUME NEW b, NEW i, NEW s, NEW st, AtPoint(b, i, s, st), NEW r \in Refs,
         PathLiveAfter(body, live_out, b, i, r), r \notin Writes(s),
         target'[r] = target[r], mode'[r] = mode[r],
         stale'[r] = stale[r] \/ stale'[r] \notin Caught
  PROVE  Held(b, i, st, r)
<1>1. stale[r] \notin Caught /\ (target[r] # Nowhere => Covered(st.loans, r, target[r], mode[r]))
  BY TrackedBefore
<1>2. s.op = "Drop" => s.local # r
  BY DEF AtPoint
<1>3. target[r] # Nowhere => Covered(Step(body, live_out, b, i, st).loans, r, target[r], mode[r])
  BY <1>1, <1>2, LoanStays
<1> QED
  BY <1>1, <1>3 DEF Held

LEMMA StorageLiveTracks ==
  ASSUME NEW b, NEW i, NEW s, NEW st, AtPoint(b, i, s, st), RunStorageLive,
         NEW r \in Refs, PathLiveAfter(body, live_out, b, i, r)
  PROVE  Held(b, i, st, r)
<1>1. /\ s.op = "StorageLive" /\ mode' = mode
      /\ target' = [target EXCEPT ![s.local] = Nowhere] /\ stale' = [stale EXCEPT ![s.local] = "no"]
  BY DEF RunStorageLive, Forgets, AtPoint
<1>2. r \in DOMAIN target /\ r \in DOMAIN stale
  BY DEF AtPoint, Refs
<1>3. CASE r = s.local
  <2>1. target'[r] = Nowhere /\ stale'[r] = "no"
    BY <1>1, <1>2, <1>3
  <2> QED
    BY <2>1 DEF Held, Caught
<1>4. CASE r # s.local
  <2>1. target'[r] = target[r] /\ stale'[r] = stale[r] /\ mode'[r] = mode[r] /\ r \notin Writes(s)
    BY <1>1, <1>2, <1>4 DEF Writes
  <2> QED
    BY <2>1, LeftAlone
<1> QED
  BY <1>3, <1>4

LEMMA EndTracks ==
  ASSUME NEW b, NEW i, NEW s, NEW st, AtPoint(b, i, s, st), RunEnd,
         NEW r \in Refs, PathLiveAfter(body, live_out, b, i, r)
  PROVE  Held(b, i, st, r)
<1>1. /\ s.op \in {"StorageDead", "Drop"} /\ target' = target /\ mode' = mode
      /\ stale' = IF Owner(s.local) THEN Spoil(Whole(s.local), Refs, "ended") ELSE stale
  BY DEF RunEnd, AtPoint
<1>2. r \notin Writes(s) /\ r \in Locals(body) /\ (s.op = "Drop" => s.local # r)
  BY <1>1 DEF Writes, Refs, AtPoint
<1>3. ~ Overlap(target[r], Whole(s.local))
  <2>1. Overlap(target[r], Whole(s.local)) => target[r] # Nowhere /\ target[r].local = s.local
    BY DEF Overlap, Whole
  <2>2. target[r] # Nowhere => Covered(st.loans, r, target[r], mode[r])
    BY <1>2, TrackedBefore
  <2>3. target[r] # Nowhere => target[r].local # s.local
    BY <1>1, <1>2, <2>2, LoanStays
  <2> QED
    BY <2>1, <2>3
<1>4. stale'[r] = stale[r]
  BY <1>1, <1>2, <1>3 DEF Spoil
<1> QED
  BY <1>1, <1>2, <1>4, LeftAlone

LEMMA DeinitTracks ==
  ASSUME NEW b, NEW i, NEW s, NEW st, AtPoint(b, i, s, st), RunDeinit \/ RunNop,
         NEW r \in Refs, PathLiveAfter(body, live_out, b, i, r)
  PROVE  Held(b, i, st, r)
<1>1. s.op \in {"Deinit", "Alloc", "Nop"} /\ target' = target /\ mode' = mode /\ stale' = stale
  BY DEF RunDeinit, RunNop, AtPoint
<1>2. r \notin Writes(s)
  <2>1. s.op = "Alloc" => body.ty[s.dest.local] # "Ref"
    BY StorageAssumption DEF AtPoint, PlacesFit
  <2> QED
    BY <1>1, <2>1 DEF Writes, Refs
<1> QED
  BY <1>1, <1>2, LeftAlone

LEMMA ComputeTracks ==
  ASSUME NEW b, NEW i, NEW s, NEW st, AtPoint(b, i, s, st), RunCompute,
         NEW r \in Refs, PathLiveAfter(body, live_out, b, i, r)
  PROVE  Held(b, i, st, r)
<1> DEFINE d == s.dest.local
<1>1. /\ s.op \in {"Const", "BinaryOp", "GetDiscriminant"} /\ mode' = mode
      /\ target' = [target EXCEPT ![d] = Nowhere] /\ stale' = [stale EXCEPT ![d] = "no"]
  BY DEF RunCompute, Forgets, AtPoint
<1>2. r \in DOMAIN target /\ r \in DOMAIN stale
  BY DEF AtPoint, Refs
<1>3. CASE r = d
  <2>1. target'[r] = Nowhere /\ stale'[r] = "no"
    BY <1>1, <1>2, <1>3
  <2> QED
    BY <2>1 DEF Held, Caught
<1>4. CASE r # d
  <2>1. target'[r] = target[r] /\ stale'[r] = stale[r] /\ mode'[r] = mode[r] /\ r \notin Writes(s)
    BY <1>1, <1>2, <1>4 DEF Writes
  <2> QED
    BY <2>1, LeftAlone
<1> QED
  BY <1>3, <1>4

\* The places a statement names.
LEMMA PlacesAre ==
  ASSUME NEW b, NEW i, NEW s, NEW st, AtPoint(b, i, s, st)
  PROVE  /\ s.op \in {"Assign", "Borrow", "Const", "BinaryOp", "GetDiscriminant"} => IsPlace(body, s.dest)
         /\ s.op = "Assign" /\ s.dest.proj # <<>> => body.ty[s.dest.local] # "Ref"
         /\ s.op \in {"Assign", "Borrow"}
              => IsPlace(body, s.src) /\ UsedPlaces(s) = {s.src} /\ Reads(body, s) = {s.src.local}
         /\ \A p \in UsedPlaces(s) : p.local \in Reads(body, s)
<1>1. PlacesFit(body)
  BY StorageAssumption DEF AtPoint
<1>2. /\ s.op \in {"Assign", "Borrow", "Const", "BinaryOp", "GetDiscriminant"} => IsPlace(body, s.dest)
      /\ s.op = "Assign" /\ s.dest.proj # <<>> => body.ty[s.dest.local] # "Ref"
      /\ \A p \in UsedPlaces(s) : IsPlace(body, p)
  BY <1>1 DEF PlacesFit, AtPoint
<1>3. s.op \in {"Assign", "Borrow"} => UsedPlaces(s) = {s.src} /\ Reads(body, s) = {s.src.local}
  BY Zenon DEF UsedPlaces, Reads
<1>4. s.op \in {"BinaryOp", "GetDiscriminant"} =>
        UsedPlaces(s) = s.srcs /\ Reads(body, s) = {p.local : p \in s.srcs}
  <2>1. s.op \in {"BinaryOp", "GetDiscriminant"} => s.op \notin {"Assign", "Borrow"}
    OBVIOUS
  <2> QED
    BY <2>1, Zenon DEF UsedPlaces, Reads
<1>5. s.op \notin {"Assign", "Borrow", "BinaryOp", "GetDiscriminant"} => UsedPlaces(s) = {}
  <2>1. s.op \notin {"Assign", "Borrow", "BinaryOp", "GetDiscriminant"}
          => s.op \notin {"Assign", "Borrow"} /\ s.op \notin {"BinaryOp", "GetDiscriminant"}
    OBVIOUS
  <2> QED
    BY <2>1, Zenon DEF UsedPlaces
<1>6. \A p \in UsedPlaces(s) : p.local \in Reads(body, s)
  BY <1>3, <1>4, <1>5
<1> QED
  BY <1>2, <1>3, <1>6

\* The checker anchors a borrow on a place around the one it leads to.
LEMMA SourceLeads ==
  ASSUME NEW b, NEW i, NEW s, NEW st, AtPoint(b, i, s, st), s.op = "Borrow", TargetOf(s.src) # Nowhere
  PROVE  LET p == TargetOf(s.src)
             around == LoanSource(st, s)
         IN  /\ around.local = p.local /\ p.proj \in Seq(0 .. 99) /\ around.proj \in Seq(0 .. 99)
             /\ Within(p.proj, around.proj)
<1> DEFINE x == s.src.local
<1>1. x \in Locals(body) /\ s.src.proj \in Seq(0 .. 99) /\ x \in Reads(body, s)
  BY PlacesAre DEF IsPlace
<1>2. CASE ~ HasDeref(s.src)
  <2>1. TargetOf(s.src) = s.src /\ LoanSource(st, s) = s.src
    BY <1>2 DEF TargetOf, LoanSource
  <2> QED
    BY <1>1, <2>1 DEF Within
<1>3. CASE HasDeref(s.src)
  <2> DEFINE to == target[x]
             tail == Tail(s.src.proj)
             p == [local |-> to.local, proj |-> to.proj \o tail]
  <2>1. x \in Refs /\ to # Nowhere /\ TargetOf(s.src) = p
    BY <1>3 DEF TargetOf
  <2>2. Covered(st.loans, x, to, mode[x])
    BY <1>1, <2>1, TrackedBefore
  <2> HIDE DEF to
  <2>3. PICK m \in st.loans : /\ m.dest = x /\ m.source.local = to.local
                              /\ to.proj \in Seq(0 .. 99) /\ m.source.proj \in Seq(0 .. 99)
                              /\ Within(to.proj, m.source.proj)
    BY <2>2 DEF Covered
  <2>4. m.source = LoanSource(st, s)
    <3>1. BorrowTraced(st, s) /\ m \in LoansOf(st, x)
      BY <2>3 DEF AtPoint, LoansOf
    <3> QED
      BY <1>3, <2>1, <3>1 DEF BorrowTraced, Lead
  <2>5. tail \in Seq(0 .. 99)
    <3>1. s.src.proj # <<>>
      BY <1>3 DEF HasDeref
    <3> QED
      BY <1>1, <3>1
  <2> HIDE DEF tail
  <2>6. to.proj \o tail \in Seq(0 .. 99) /\ Within(to.proj \o tail, m.source.proj)
    BY <2>3, <2>5, WithinFurther
  <2>7. p.local = to.local /\ p.proj = to.proj \o tail
    OBVIOUS
  <2> HIDE DEF p
  <2> QED
    BY <2>1, <2>3, <2>4, <2>6, <2>7
<1> QED
  BY <1>2, <1>3

\* A borrow of what a reference that is still read points to is refused.
LEMMA BorrowExcludes ==
  ASSUME NEW b, NEW i, NEW s, NEW st, AtPoint(b, i, s, st), s.op = "Borrow", NEW r, NEW form,
         target[r] # Nowhere => Covered(st.loans, r, target[r], form),
         s.form \in {"BorrowReadOnly", "WeakObserver"} => form = "BorrowExclusiveMutable"
  PROVE  ~ Overlap(target[r], TargetOf(s.src))
<1> SUFFICES ASSUME Overlap(target[r], TargetOf(s.src)) PROVE FALSE
  OBVIOUS
<1> DEFINE p == TargetOf(s.src)
           around == LoanSource(st, s)
           mayAlias == s.form \in {"BorrowReadOnly", "WeakObserver"}
           at == <<b, i>>
<1>1. target[r] # Nowhere /\ p # Nowhere
  BY DEF Overlap
<1>2. /\ around.local = p.local /\ p.proj \in Seq(0 .. 99) /\ around.proj \in Seq(0 .. 99)
      /\ Within(p.proj, around.proj)
  BY <1>1, SourceLeads
<1>3. PICK m \in st.loans : /\ m.dest = r /\ m.form = form /\ m.source.local = target[r].local
                            /\ target[r].proj \in Seq(0 .. 99) /\ m.source.proj \in Seq(0 .. 99)
                            /\ Within(target[r].proj, m.source.proj)
  BY <1>1 DEF Covered
<1>4. StmtErrors(body, live_out, st, at, s) = BorrowErrors(body, st, s)
  <2>1. s.op \notin {"StorageDead", "Drop"}
    OBVIOUS
  <2> HIDE DEF at
  <2> QED
    BY <2>1, Zenon DEF StmtErrors
<1>5. ~ \E k \in st.loans : PlacesConflict(k.source, around, mayAlias) /\ ConflictsWith(k, s.form)
  <2>1. BorrowErrors(body, st, s) = {}
    BY <1>4 DEF AtPoint
  <2> QED
    BY <2>1 DEF BorrowErrors, When
<1> HIDE DEF p, around, mayAlias
<1>6. PlacesConflict(m.source, around, mayAlias)
  <2>1. Overlap(target[r], p)
    BY DEF p
  <2> QED
    BY <1>2, <1>3, <2>1, PlacesMeet
<1>7. ConflictsWith(m, s.form)
  BY <1>3 DEF ConflictsWith
<1> QED
  BY <1>5, <1>6, <1>7

LEMMA BorrowTracks ==
  ASSUME NEW b, NEW i, NEW s, NEW st, AtPoint(b, i, s, st), RunBorrow,
         NEW r \in Refs, PathLiveAfter(body, live_out, b, i, r)
  PROVE  Held(b, i, st, r)
<1> DEFINE d == s.dest.local
           p == TargetOf(s.src)
           others == IF s.form = "BorrowExclusiveMutable" THEN Refs
                     ELSE {x \in Refs : mode[x] = "BorrowExclusiveMutable"}
           through == IF HasDeref(s.src) /\ s.src.local \in Refs THEN stale[s.src.local] ELSE "no"
           taken == Spoil(p, Refs, "moved")
           shared == Spoil(p, others, "aliased")
<1>1. /\ s.op = "Borrow"
      /\ s.form \in Strong => /\ target' = [target EXCEPT ![d] = Nowhere]
                              /\ stale' = [taken EXCEPT ![d] = "no"] /\ mode' = mode
      /\ s.form \notin Strong => /\ target' = [target EXCEPT ![d] = p]
                                 /\ mode' = [mode EXCEPT ![d] = s.form]
                                 /\ stale' = [shared EXCEPT ![d] = through]
  BY DEF RunBorrow, AtPoint
<1>2. /\ r \in Locals(body) /\ r \in DOMAIN target /\ r \in DOMAIN mode
      /\ d \in Locals(body) /\ d \in DOMAIN target /\ d \in DOMAIN mode
      /\ DOMAIN taken = Locals(body) /\ DOMAIN shared = Locals(body)
  BY <1>1, PlacesAre DEF AtPoint, Refs, IsPlace, Spoil
<1>3. CASE r # d
  <2>1. r \notin Writes(s)
    BY <1>1, <1>3 DEF Writes
  <2>2. stale[r] \notin Caught /\ (target[r] # Nowhere => Covered(st.loans, r, target[r], mode[r]))
    BY <2>1, TrackedBefore
  <2>3. ASSUME s.form \in Strong \/ r \in others PROVE ~ Overlap(target[r], p)
    <3>1. s.form \in {"BorrowReadOnly", "WeakObserver"} => mode[r] = "BorrowExclusiveMutable"
      BY <2>3 DEF Strong
    <3> QED
      BY <1>1, <2>2, <3>1, BorrowExcludes
  <2>4. /\ s.form \in Strong => taken[r] = stale[r]
        /\ s.form \notin Strong => shared[r] = stale[r]
    BY <1>2, <2>3 DEF Spoil
  <2> HIDE DEF p, taken, shared, through
  <2>5. stale'[r] = stale[r] /\ target'[r] = target[r] /\ mode'[r] = mode[r]
    BY <1>1, <1>2, <1>3, <2>4
  <2> QED
    BY <2>1, <2>5, LeftAlone
<1>4. CASE r = d /\ s.form \in Strong
  <2> HIDE DEF taken
  <2>1. target'[r] = Nowhere /\ stale'[r] = "no"
    BY <1>1, <1>2, <1>4
  <2> QED
    BY <2>1 DEF Held, Caught
<1>5. CASE r = d /\ s.form \notin Strong
  <2>1. through \notin Caught
    <3>1. CASE HasDeref(s.src) /\ s.src.local \in Refs
      <4>1. s.src.local \in Reads(body, s)
        BY <1>1, PlacesAre
      <4> QED
        BY <3>1, <4>1, TrackedBefore
    <3>2. CASE ~ (HasDeref(s.src) /\ s.src.local \in Refs)
      BY <3>2 DEF Caught
    <3> QED
      BY <3>1, <3>2
  <2>2. ASSUME p # Nowhere PROVE Covered(Step(body, live_out, b, i, st).loans, r, p, s.form)
    <3> DEFINE e == Effect(body, st, <<b, i>>, s)
               loan == LoanOf(st, <<b, i>>, s)
    <3>1. e.loans = st.loans \cup {loan}
      <4>1. IsWalk(body, st)
        BY DEF AtPoint
      <4> QED
        BY <1>1, <1>5, <4>1, EffectLoans
    <3>2. loan.source = LoanSource(st, s) /\ loan.dest = d /\ loan.form = s.form
      BY DEF LoanOf
    <3>3. /\ LoanSource(st, s).local = p.local /\ p.proj \in Seq(0 .. 99)
          /\ LoanSource(st, s).proj \in Seq(0 .. 99) /\ Within(p.proj, LoanSource(st, s).proj)
      BY <1>1, <2>2, SourceLeads
    <3> HIDE DEF loan, p, e
    <3>4. Covered(e.loans, r, p, s.form)
      BY <1>5, <3>1, <3>2, <3>3 DEF Covered
    <3> QED
      BY <3>4, LoanMade DEF e
  <2> HIDE DEF through, shared, p
  <2>3. target'[r] = p /\ mode'[r] = s.form /\ stale'[r] = through
    BY <1>1, <1>2, <1>5
  <2> QED
    BY <2>1, <2>2, <2>3 DEF Held
<1> QED
  BY <1>3, <1>4, <1>5

\* Nothing is moved as a whole while a reference that is followed is read.
LEMMA MoveExcludes ==
  ASSUME NEW b, NEW i, NEW s, NEW st, AtPoint(b, i, s, st), s.op = "Assign", MovesWhole(body, s),
         NEW r, NEW form, target[r] # Nowhere => Covered(st.loans, r, target[r], form)
  PROVE  target[r] = Nowhere
<1> SUFFICES ASSUME target[r] # Nowhere PROVE FALSE
  OBVIOUS
<1> DEFINE at == <<b, i>>
<1>1. PICK m \in st.loans : m.source.proj \in Seq(0 .. 99)
  BY DEF Covered
<1>2. PlacesConflict(m.source, s.src, TRUE)
  <2>1. s.src.proj = <<>>
    BY DEF MovesWhole, IsFieldRead
  <2> QED
    BY <1>1, <2>1, WholeConflicts
<1>3. StmtErrors(body, live_out, st, at, s) = AssignErrors(body, st, s)
  <2>1. s.op \notin {"StorageDead", "Drop"} /\ s.op # "Borrow"
    OBVIOUS
  <2> HIDE DEF at
  <2> QED
    BY <2>1, Zenon DEF StmtErrors
<1>4. AssignErrors(body, st, s) = {}
  BY <1>3 DEF AtPoint
<1>5. When(MovesWhole(body, s) /\ \E k \in st.loans : PlacesConflict(k.source, s.src, TRUE), "E2440")
        \subseteq AssignErrors(body, st, s)
  BY DEF AssignErrors
<1> QED
  BY <1>2, <1>4, <1>5 DEF When

\* A copy of a reference has the loans of the reference.
LEMMA CopyCovered ==
  ASSUME NEW b, NEW i, NEW s, NEW st, AtPoint(b, i, s, st), s.op = "Assign", s.src.proj = <<>>,
         s.src.local \in Refs, NEW p, NEW form, Covered(st.loans, s.src.local, p, form)
  PROVE  Covered(Effect(body, st, <<b, i>>, s).loans, s.dest.local, p, form)
<1> DEFINE e == Effect(body, st, <<b, i>>, s)
           x == s.src.local
<1>1. PICK m \in st.loans : /\ m.dest = x /\ m.form = form /\ m.source.local = p.local
                            /\ p.proj \in Seq(0 .. 99) /\ m.source.proj \in Seq(0 .. 99)
                            /\ Within(p.proj, m.source.proj)
  BY DEF Covered
<1> DEFINE again == [source |-> m.source, dest |-> s.dest.local, form |-> m.form,
                     at |-> <<b, i>>, prop |-> TRUE]
<1>2. again \in Reissued(body, st, <<b, i>>, s)
  BY <1>1 DEF Reissued, LoansOf, IsFieldRead, Refs
<1>3. e.loans = st.loans \cup Reissued(body, st, <<b, i>>, s)
  BY EffectLoans DEF AtPoint
<1>4. again.source = m.source /\ again.dest = s.dest.local /\ again.form = m.form
  OBVIOUS
<1> HIDE DEF again, e
<1>5. again \in e.loans
  BY <1>2, <1>3
<1>6. Covered(e.loans, s.dest.local, p, form)
  BY <1>1, <1>4, <1>5 DEF Covered
<1> QED
  BY <1>6 DEF e

LEMMA AssignTracks ==
  ASSUME NEW b, NEW i, NEW s, NEW st, AtPoint(b, i, s, st), RunAssign,
         NEW r \in Refs, PathLiveAfter(body, live_out, b, i, r)
  PROVE  Held(b, i, st, r)
<1> DEFINE d == s.dest.local
           x == s.src.local
           copied == d \in Refs /\ x \in Refs /\ s.src.proj = <<>>
           left == [k \in Locals(body) |->
                     IF k = d /\ s.dest.proj = <<>> THEN "no"
                     ELSE IF stale[k] # "no" THEN stale[k]
                     ELSE IF MovesWhole(body, s)
                             /\ (Overlap(target[k], Whole(x)) \/ Overlap(target[k], s.dest))
                          THEN "moved"
                     ELSE IF MovesField(body, s) /\ Overlap(target[k], s.src) THEN "field"
                     ELSE "no"]
<1>1. /\ s.op = "Assign"
      /\ copied => /\ target' = [target EXCEPT ![d] = target[x]]
                   /\ mode' = [mode EXCEPT ![d] = mode[x]]
                   /\ stale' = [stale EXCEPT ![d] = stale[x]]
      /\ ~copied => /\ target' = IF s.dest.proj = <<>> THEN [target EXCEPT ![d] = Nowhere] ELSE target
                    /\ stale' = left /\ mode' = mode
  BY DEF RunAssign, AtPoint
<1>2. /\ r \in Locals(body) /\ body.ty[r] = "Ref"
      /\ r \in DOMAIN target /\ r \in DOMAIN mode /\ r \in DOMAIN stale
      /\ s.dest.proj # <<>> => body.ty[d] # "Ref"
      /\ x \in Reads(body, s)
  BY <1>1, PlacesAre DEF AtPoint, Refs
<1>3. CASE r # d
  <2>1. r \notin Writes(s)
    BY <1>1, <1>3 DEF Writes
  <2>2. target[r] # Nowhere => Covered(st.loans, r, target[r], mode[r])
    BY <2>1, TrackedBefore
  <2>3. target'[r] = target[r] /\ mode'[r] = mode[r]
    <3> HIDE DEF left
    <3> QED
      BY <1>1, <1>2, <1>3
  <2>4. stale'[r] = stale[r] \/ stale'[r] \notin Caught
    <3>1. CASE copied
      BY <1>1, <1>2, <1>3, <3>1
    <3>2. CASE ~copied
      <4>1. stale'[r] = left[r]
        BY <1>1, <3>2
      <4>2. MovesWhole(body, s) => target[r] = Nowhere
        BY <1>1, <2>2, MoveExcludes
      <4>3. ~ (MovesWhole(body, s) /\ (Overlap(target[r], Whole(x)) \/ Overlap(target[r], s.dest)))
        BY <4>2 DEF Overlap
      <4>4. left[r] = stale[r] \/ left[r] = "field" \/ left[r] = "no"
        BY <1>2, <4>3
      <4> QED
        BY <4>1, <4>4 DEF Caught
    <3> QED
      BY <3>1, <3>2
  <2> QED
    BY <2>1, <2>3, <2>4, LeftAlone
<1>4. CASE r = d /\ copied
  <2>1. stale[x] \notin Caught /\ (target[x] # Nowhere => Covered(st.loans, x, target[x], mode[x]))
    BY <1>2, <1>4, TrackedBefore
  <2>2. target[x] # Nowhere => Covered(Effect(body, st, <<b, i>>, s).loans, d, target[x], mode[x])
    BY <1>1, <1>4, <2>1, CopyCovered
  <2>3. target[x] # Nowhere => Covered(Step(body, live_out, b, i, st).loans, r, target[x], mode[x])
    BY <1>4, <2>2, LoanMade
  <2>4. target'[r] = target[x] /\ mode'[r] = mode[x] /\ stale'[r] = stale[x]
    BY <1>1, <1>2, <1>4
  <2> QED
    BY <2>1, <2>3, <2>4 DEF Held
<1>5. CASE r = d /\ ~copied
  <2>1. target'[r] = Nowhere
    BY <1>1, <1>2, <1>5
  <2>2. stale'[r] = "no"
    BY <1>1, <1>2, <1>5
  <2> QED
    BY <2>1, <2>2 DEF Held, Caught
<1> QED
  BY <1>3, <1>4, <1>5

\* One statement of the run, one statement of the walk: what is followed.
LEMMA StatementTracks ==
  ASSUME NEW b, NEW i, NEW s, NEW st, AtPoint(b, i, s, st), RunStmt
  PROVE  Tracked(body, live_out, b, i + 1, Step(body, live_out, b, i, st), target', mode', stale')
<1>1. ASSUME NEW r \in Refs, PathLiveAfter(body, live_out, b, i, r) PROVE Held(b, i, st, r)
  <2>1. CASE RunStorageLive
    BY <1>1, <2>1, StorageLiveTracks
  <2>2. CASE RunEnd
    BY <1>1, <2>2, EndTracks
  <2>3. CASE RunDeinit \/ RunNop
    BY <1>1, <2>3, DeinitTracks
  <2>4. CASE RunBorrow
    BY <1>1, <2>4, BorrowTracks
  <2>5. CASE RunAssign
    BY <1>1, <2>5, AssignTracks
  <2>6. CASE RunCompute
    BY <1>1, <2>6, ComputeTracks
  <2> QED
    BY <2>1, <2>2, <2>3, <2>4, <2>5, <2>6 DEF RunStmt
<1>2. (i + 1) - 1 = i
  BY PointIs
<1> QED
  BY <1>1, <1>2 DEF Tracked, Held, Refs

\* And the run still knows of every local.
LEMMA StatementKeepsDomains ==
  ASSUME RunStmt, DOMAIN target = Locals(body), DOMAIN mode = Locals(body), DOMAIN stale = Locals(body)
  PROVE  DOMAIN target' = Locals(body) /\ DOMAIN mode' = Locals(body) /\ DOMAIN stale' = Locals(body)
<1>1. CASE RunStorageLive \/ RunCompute \/ RunEnd \/ RunDeinit \/ RunNop
  BY <1>1 DEF RunStorageLive, RunCompute, RunEnd, RunDeinit, RunNop, Forgets, Spoil
<1>2. CASE RunBorrow
  <2> DEFINE s == Current
             d == s.dest.local
             p == TargetOf(s.src)
             others == IF s.form = "BorrowExclusiveMutable" THEN Refs
                       ELSE {r \in Refs : mode[r] = "BorrowExclusiveMutable"}
             through == IF HasDeref(s.src) /\ s.src.local \in Refs THEN stale[s.src.local] ELSE "no"
  <2>1. /\ s.form \in Strong => /\ target' = [target EXCEPT ![d] = Nowhere] /\ mode' = mode
                                /\ stale' = [Spoil(p, Refs, "moved") EXCEPT ![d] = "no"]
        /\ s.form \notin Strong => /\ target' = [target EXCEPT ![d] = p]
                                   /\ mode' = [mode EXCEPT ![d] = s.form]
                                   /\ stale' = [Spoil(p, others, "aliased") EXCEPT ![d] = through]
    BY <1>2 DEF RunBorrow
  <2> HIDE DEF s, d, p, others, through
  <2>2. DOMAIN Spoil(p, Refs, "moved") = Locals(body) /\ DOMAIN Spoil(p, others, "aliased") = Locals(body)
    BY DEF Spoil
  <2>3. CASE s.form \in Strong
    BY <2>1, <2>2, <2>3
  <2>4. CASE s.form \notin Strong
    BY <2>1, <2>2, <2>4
  <2> QED
    BY <2>3, <2>4
<1>3. CASE RunAssign
  <2>1. /\ target' = target \/ \E d, v : target' = [target EXCEPT ![d] = v]
        /\ mode' = mode \/ \E d, v : mode' = [mode EXCEPT ![d] = v]
        /\ DOMAIN stale' = Locals(body)
    <3> DEFINE s == Current
               copied == s.dest.local \in Refs /\ s.src.local \in Refs /\ s.src.proj = <<>>
    <3>1. CASE copied
      BY <1>3, <3>1 DEF RunAssign
    <3>2. CASE ~copied
      BY <1>3, <3>2 DEF RunAssign
    <3> QED
      BY <3>1, <3>2
  <2>2. DOMAIN target' = Locals(body)
    BY <2>1
  <2>3. DOMAIN mode' = Locals(body)
    BY <2>1
  <2> QED
    BY <2>1, <2>2, <2>3
<1> QED
  BY <1>1, <1>2, <1>3 DEF RunStmt

\* The verdict of a read of references to which nothing was done.
LEMMA VerdictOfWhatIsHeld ==
  ASSUME NEW places, \A p \in places : p.local \in Refs => stale[p.local] \notin Caught
  PROVE  Verdict(places) \notin Caught
<1> DEFINE stales == {p \in places : p.local \in Refs /\ stale[p.local] # "no"}
           q == CHOOSE p \in places : p.local \in Refs /\ stale[p.local] # "no"
<1>1. stales # {} => q \in places /\ q.local \in Refs
  OBVIOUS
<1>2. Verdict(places) = "gone" \/ Verdict(places) = "no" \/ (stales # {} /\ Verdict(places) = stale[q.local])
  BY DEF Verdict
<1> HIDE DEF q, stales
<1> QED
  BY <1>1, <1>2 DEF Caught

\* The checker at a terminator of the run, and what it knows of references.
AtLast(b, last) ==
  /\ Inductive /\ States /\ Accepted /\ Vetted /\ body \in Bodies
  /\ live_out = PathLiveOut(body)
  /\ b \in ReachableBlocks /\ b \in Blocks(body) /\ b \in walked /\ Ending = Term(body, b)
  /\ last = Seen(b, Len(Stmts(body, b)) + 1) /\ IsWalk(body, last)
  /\ IsCall(Term(body, b)) => CallTraced(last, Term(body, b))
  /\ DOMAIN target = Locals(body) /\ DOMAIN mode = Locals(body) /\ DOMAIN stale = Locals(body)
  /\ Tracked(body, live_out, b, Len(Stmts(body, b)) + 1, last, target, mode, stale)

Good(last, r) ==
  stale[r] \notin Caught /\ (target[r] # Nowhere => Covered(last.loans, r, target[r], mode[r]))

\* A reference the terminator reads, or that is live after it, is tracked.
LEMMA TrackedAtLast ==
  ASSUME NEW b, NEW last, AtLast(b, last), NEW r \in Refs, r \in TermReads(body, b) \/ r \in live_out[b]
  PROVE  Good(last, r)
<1> DEFINE n == Len(Stmts(body, b))
<1>1. n \in Nat /\ (n + 1) - 1 = n /\ n + 1 \in Positions(body, b) /\ body \in Bodies /\ b \in Blocks(body)
      /\ ReadsAt(body, b, n + 1) = TermReads(body, b)
  BY BodiesAssumption DEF AtLast, IsBody, Positions, ReadsAt
<1>2. PathLiveAfter(body, live_out, b, (n + 1) - 1, r)
  <2> HIDE DEF n
  <2>1. CASE r \in TermReads(body, b)
    BY <1>1, <2>1, ReadIsLive
  <2>2. CASE r \in live_out[b]
    BY <1>1, <2>2, LiveAtEnd DEF n
  <2> QED
    BY <2>1, <2>2
<1> QED
  BY <1>2 DEF AtLast, Tracked, Refs, Good

LEMMA LiveAcross ==
  ASSUME NEW b, NEW last, AtLast(b, last), NEW next \in Succs(body, b), NEW r \in Refs,
         PathLiveAfter(body, live_out, next, 0, r)
  PROVE  r \in live_out[b]
BY LiveOverEdges DEF AtLast, Refs

\* A loan of a reference that is live after the terminator reaches the successor.
LEMMA LoanCrosses ==
  ASSUME NEW b, NEW last, AtLast(b, last), NEW next \in Succs(body, b), NEW r, NEW p, NEW form,
         r \in live_out[b],
         \/ Covered(last.loans, r, p, form)
         \/ /\ IsCall(Term(body, b))
            /\ Covered(ResultLoans(last, <<b, Len(Stmts(body, b)) + 1>>, Term(body, b)), r, p, form)
  PROVE  Covered(Seen(next, 1).loans, r, p, form)
<1> DEFINE t == Term(body, b)
           n == Len(Stmts(body, b))
           more == ResultLoans(last, <<b, n + 1>>, t)
           x == Terminate(body, live_out, b, last)
           kept == IF IsCall(t) THEN last.loans \cup more ELSE last.loans
<1>1. x.loans = {m \in kept : IsLiveAfter(body, live_out, b, n + 1, m.dest)}
  <2>1. IsWalk(body, last)
    BY DEF AtLast
  <2>2. Lent(body, b, last).loans = last.loans \cup more
    BY <2>1, TerminateLoans
  <2>3. x.loans = LoansLeft(body, live_out, b, last)
    BY <2>1, TerminateLoans
  <2>4. LoansLeft(body, live_out, b, last)
          = {m \in IF IsCall(t) THEN Lent(body, b, last).loans ELSE last.loans :
               IsLiveAfter(body, live_out, b, n + 1, m.dest)}
    BY DEF LoansLeft
  <2> HIDE DEF x, more, n, t
  <2> QED
    BY <2>2, <2>3, <2>4
<1>2. IsLiveAfter(body, live_out, b, n + 1, r)
  BY DEF IsLiveAfter
<1>3. x.loans \subseteq Seen(next, 1).loans
  <2>1. last = Seen(b, n + 1)
    BY DEF AtLast
  <2> QED
    BY <2>1, SuccessorHasLoans DEF AtLast
<1>4. Covered(kept, r, p, form)
  <2>1. CASE Covered(last.loans, r, p, form)
    <3> HIDE DEF more, t
    <3> QED
      BY <2>1 DEF Covered
  <2>2. CASE IsCall(t) /\ Covered(more, r, p, form)
    <3> HIDE DEF more, t
    <3> QED
      BY <2>2 DEF Covered
  <2> QED
    BY <2>1, <2>2
<1> HIDE DEF kept, x, n
<1>5. PICK m \in kept : /\ m.dest = r /\ m.form = form /\ m.source.local = p.local
                        /\ p.proj \in Seq(0 .. 99) /\ m.source.proj \in Seq(0 .. 99)
                        /\ Within(p.proj, m.source.proj)
  BY <1>4 DEF Covered
<1>6. m \in Seen(next, 1).loans
  BY <1>1, <1>2, <1>3, <1>5
<1> QED
  BY <1>5, <1>6 DEF Covered

\* What a terminator reads was not spoiled.
LEMMA TerminatorVerdict ==
  ASSUME NEW b, NEW last, AtLast(b, last)
  PROVE  Verdict(ReadByTerm) \notin Caught
<1>1. ASSUME NEW p \in ReadByTerm, p.local \in Refs PROVE stale[p.local] \notin Caught
  <2>1. p.local \in TermReads(body, b)
    BY <1>1 DEF ReadByTerm, TermReads, AtLast, Whole
  <2> QED
    BY <1>1, <2>1, TrackedAtLast DEF Good
<1> QED
  BY <1>1, VerdictOfWhatIsHeld

\* A branch changes nothing.
LEMMA BranchTracks ==
  ASSUME NEW b, NEW last, AtLast(b, last), NEW next \in Succs(body, b)
  PROVE  Tracked(body, live_out, next, 1, Seen(next, 1), target, mode, stale)
<1>1. ASSUME NEW r \in Refs, PathLiveAfter(body, live_out, next, 0, r)
      PROVE  stale[r] \notin Caught
             /\ (target[r] # Nowhere => Covered(Seen(next, 1).loans, r, target[r], mode[r]))
  <2>1. r \in live_out[b]
    BY <1>1, LiveAcross
  <2>2. Good(last, r)
    BY <2>1, TrackedAtLast
  <2> QED
    BY <2>1, <2>2, LoanCrosses DEF Good
<1>2. 1 - 1 = 0
  OBVIOUS
<1> QED
  BY <1>1, <1>2 DEF Tracked, Refs

\* The loans a call adds are not direct ones.
LEMMA OriginStays ==
  ASSUME NEW b, NEW last, AtLast(b, last), NEW l
  PROVE  Origin(Lent(body, b, last), l) = Origin(last, l)
<1> DEFINE more == ResultLoans(last, <<b, Len(Stmts(body, b)) + 1>>, Term(body, b))
           lent == Lent(body, b, last)
<1>1. \A m \in more : m.prop
  BY DEF ResultLoans
<1>2. lent.loans = last.loans \cup more
  BY TerminateLoans DEF AtLast
<1> HIDE DEF more, lent
<1>3. {m \in LoansOf(lent, l) : ~m.prop} = {m \in LoansOf(last, l) : ~m.prop}
  BY <1>1, <1>2 DEF LoansOf
<1> QED
  BY <1>3 DEF Origin, lent

\* A shim does not change what a tracked reference points to.
LEMMA ShimExcludes ==
  ASSUME NEW b, NEW last, AtLast(b, last), NEW t, t = Term(body, b), IsCall(t), t.kind = "Builtin",
         NEW k \in (t.consumes \cup t.mutates) \cap DOMAIN t.reads,
         NEW r \in Refs, Good(last, r), r # ArgAt(t, k)
  PROVE  ~ Overlap(target[r], Object(ArgAt(t, k)))
<1> SUFFICES ASSUME Overlap(target[r], Object(ArgAt(t, k))) PROVE FALSE
  OBVIOUS
<1> DEFINE l == ArgAt(t, k)
           root == Origin(last, l)
           lent == Lent(body, b, last)
<1>1. target[r] # Nowhere /\ Object(l) # Nowhere
  BY DEF Overlap
<1>2. PICK m \in last.loans : /\ m.dest = r /\ m.source.local = target[r].local
                              /\ target[r].proj \in Seq(0 .. 99) /\ m.source.proj \in Seq(0 .. 99)
                              /\ Within(target[r].proj, m.source.proj)
  BY <1>1 DEF Good, Covered
<1>3. PlacesConflict(m.source, root, TRUE)
  <2>1. CASE root = Whole(l)
    BY <1>2, <2>1, WholeConflicts DEF Whole
  <2>2. CASE root # Whole(l)
    <3>1. l \in Refs /\ Lead(last, l, root)
      BY <2>2 DEF AtLast, CallTraced
    <3>2. l \in TermReads(body, b)
      BY DEF TermReads, ArgAt
    <3>3. Object(l) = target[l]
      BY <3>1 DEF Object
    <3>4. Covered(last.loans, l, target[l], mode[l])
      BY <1>1, <3>1, <3>2, <3>3, TrackedAtLast DEF Good
    <3>5. PICK o \in last.loans : /\ o.dest = l /\ o.source.local = target[l].local
                                  /\ target[l].proj \in Seq(0 .. 99) /\ o.source.proj \in Seq(0 .. 99)
                                  /\ Within(target[l].proj, o.source.proj)
      BY <3>4 DEF Covered
    <3>6. o.source = root
      BY <3>1, <3>5 DEF Lead, LoansOf
    <3> HIDE DEF root, l
    <3>7. Overlap(target[r], target[l])
      BY <3>3 DEF l
    <3> QED
      BY <1>2, <3>5, <3>6, <3>7, PlacesMeet
  <2> QED
    BY <2>1, <2>2
<1>4. MutationErrors(lent, t) = {}
  BY NothingMutated DEF AtLast
<1>5. m \in lent.loans /\ Origin(lent, l) = root
  <2>1. IsWalk(body, last)
    BY DEF AtLast
  <2>2. last.loans \subseteq lent.loans
    <3>1. lent.loans
            = last.loans \cup ResultLoans(last, <<b, Len(Stmts(body, b)) + 1>>, Term(body, b))
      BY <2>1, TerminateLoans
    <3> HIDE DEF lent
    <3> QED
      BY <3>1
  <2>3. Origin(lent, l) = root
    BY OriginStays
  <2> QED
    BY <2>2, <2>3
<1> HIDE DEF lent, root
<1> QED
  BY <1>2, <1>3, <1>4, <1>5 DEF MutationErrors, When

\* What a call does to the references it is not given.
Spoiled(t) ==
  [r \in Locals(body) |->
     IF r \notin Refs \/ stale[r] # "no" THEN stale[r]
     ELSE IF \E l \in (IF t.kind = "Jit" THEN {}
                       ELSE {ArgAt(t, i) : i \in (t.consumes \cup t.mutates) \cap DOMAIN t.reads}) :
               r # l /\ Overlap(target[r], Object(l)) THEN "mutated"
     ELSE IF \E l \in {ArgAt(t, i) : i \in Taken(body, t)} : Overlap(target[r], Whole(l))
     THEN "passed" ELSE "no"]

LEMMA CallKindIs ==
  ASSUME NEW b, NEW last, AtLast(b, last), IsCall(Term(body, b))
  PROVE  Term(body, b).kind \in {"Jit", "Builtin"} /\ Term(body, b).dest \in Seq(Locals(body))
BY StorageAssumption DEF AtLast, PlacesFit

LEMMA CallSpoilsNothing ==
  ASSUME NEW b, NEW last, AtLast(b, last), NEW t, t = Term(body, b), IsCall(t),
         NEW r \in Refs, Good(last, r)
  PROVE  Spoiled(t)[r] \notin Caught
<1> DEFINE changed == IF t.kind = "Jit" THEN {}
                      ELSE {ArgAt(t, i) : i \in (t.consumes \cup t.mutates) \cap DOMAIN t.reads}
           taken == {ArgAt(t, i) : i \in Taken(body, t)}
<1>1. Spoiled(t)[r] = IF stale[r] # "no" THEN stale[r]
                      ELSE IF \E l \in changed : r # l /\ Overlap(target[r], Object(l)) THEN "mutated"
                      ELSE IF \E l \in taken : Overlap(target[r], Whole(l)) THEN "passed" ELSE "no"
  <2>1. r \in Locals(body)
    BY DEF Refs
  <2> QED
    BY <2>1 DEF Spoiled
<1>2. ASSUME NEW l \in changed, r # l PROVE ~ Overlap(target[r], Object(l))
  <2>1. t.kind = "Builtin"
    BY <1>2, CallKindIs
  <2>2. PICK k \in (t.consumes \cup t.mutates) \cap DOMAIN t.reads : l = ArgAt(t, k)
    BY <2>1
  <2> QED
    BY <1>2, <2>1, <2>2, ShimExcludes
<1> HIDE DEF changed, taken
<1> QED
  BY <1>1, <1>2 DEF Good, Caught

\* The loan of a result: of what the reference it was made from borrows.
LEMMA ResultOfJit ==
  ASSUME NEW b, NEW last, AtLast(b, last), NEW t, t = Term(body, b), IsCall(t), t.kind = "Jit",
         t.dest # <<>>, NEW k \in t.borrows \cap DOMAIN t.reads, NEW p, NEW form,
         Covered(last.loans, ArgAt(t, k), p, form)
  PROVE  Covered(ResultLoans(last, <<b, Len(Stmts(body, b)) + 1>>, t), t.dest[1], p, form)
<1> DEFINE a == ArgAt(t, k)
           at == <<b, Len(Stmts(body, b)) + 1>>
           first == First(LoansOf(last, a))
           loan == [source |-> first.source, dest |-> t.dest[1], form |-> first.form,
                    at |-> at, prop |-> TRUE]
<1>1. PICK m \in last.loans : /\ m.dest = a /\ m.form = form /\ m.source.local = p.local
                              /\ p.proj \in Seq(0 .. 99) /\ m.source.proj \in Seq(0 .. 99)
                              /\ Within(p.proj, m.source.proj)
  BY DEF Covered
<1>2. m \in LoansOf(last, a)
  BY <1>1 DEF LoansOf
<1>3. m.source = first.source /\ m.form = first.form
  BY <1>2 DEF AtLast, CallTraced
<1>4. loan \in ResultLoans(last, at, t)
  <2>1. k \in {j \in t.borrows \cap DOMAIN t.reads : LoansOf(last, ArgAt(t, j)) # {}}
    BY <1>2
  <2> HIDE DEF at
  <2> QED
    BY <2>1 DEF ResultLoans
<1>5. loan.source = first.source /\ loan.dest = t.dest[1] /\ loan.form = first.form
  OBVIOUS
<1> HIDE DEF loan, first, at
<1>6. Covered(ResultLoans(last, at, t), t.dest[1], p, form)
  BY <1>1, <1>3, <1>4, <1>5 DEF Covered
<1> QED
  BY <1>6 DEF at

LEMMA ResultOfShim ==
  ASSUME NEW b, NEW last, AtLast(b, last), NEW t, t = Term(body, b), IsCall(t), t.kind = "Builtin",
         t.dest # <<>>, NEW k \in t.borrows \cap DOMAIN t.reads, Object(ArgAt(t, k)) # Nowhere
  PROVE  Covered(ResultLoans(last, <<b, Len(Stmts(body, b)) + 1>>, t), t.dest[1],
                 Object(ArgAt(t, k)), "BorrowReadOnly")
<1> DEFINE a == ArgAt(t, k)
           p == Object(a)
           at == <<b, Len(Stmts(body, b)) + 1>>
           root == Origin(last, a)
           loan == [source |-> root, dest |-> t.dest[1], form |-> "BorrowReadOnly",
                    at |-> at, prop |-> TRUE]
<1>1. /\ root.local = p.local /\ p.proj \in Seq(0 .. 99) /\ root.proj \in Seq(0 .. 99)
      /\ Within(p.proj, root.proj)
  <2>1. CASE a \in Refs
    <3>1. Lead(last, a, root)
      BY <2>1 DEF AtLast, CallTraced
    <3>2. a \in TermReads(body, b) /\ p = target[a]
      BY <2>1 DEF TermReads, ArgAt, Object
    <3>3. Covered(last.loans, a, target[a], mode[a])
      BY <2>1, <3>2, TrackedAtLast DEF Good
    <3>4. PICK m \in last.loans : /\ m.dest = a /\ m.source.local = target[a].local
                                  /\ target[a].proj \in Seq(0 .. 99) /\ m.source.proj \in Seq(0 .. 99)
                                  /\ Within(target[a].proj, m.source.proj)
      BY <3>3 DEF Covered
    <3>5. m.source = root
      BY <3>1, <3>4 DEF Lead, LoansOf
    <3> HIDE DEF root
    <3> QED
      BY <3>2, <3>4, <3>5
  <2>2. CASE a \notin Refs
    <3>1. root = Whole(a)
      BY <2>2 DEF AtLast, CallTraced
    <3>2. p = Whole(a)
      BY <2>2 DEF Object
    <3> QED
      BY <3>1, <3>2 DEF Whole, Within
  <2> QED
    BY <2>1, <2>2
<1>2. loan \in ResultLoans(last, at, t)
  <2>1. t.kind # "Jit"
    OBVIOUS
  <2> HIDE DEF at
  <2> QED
    BY <2>1 DEF ResultLoans
<1>3. loan.source = root /\ loan.dest = t.dest[1] /\ loan.form = "BorrowReadOnly"
  OBVIOUS
<1> HIDE DEF loan, root, at, p
<1>4. Covered(ResultLoans(last, at, t), t.dest[1], p, "BorrowReadOnly")
  BY <1>1, <1>2, <1>3 DEF Covered
<1> QED
  BY <1>4 DEF at, p

LEMMA CallTracks ==
  ASSUME NEW b, NEW last, AtLast(b, last), RunCall, NEW next \in Succs(body, b)
  PROVE  Tracked(body, live_out, next, 1, Seen(next, 1), target', mode', stale')
<1> DEFINE t == Term(body, b)
           lent == {ArgAt(t, k) : k \in t.borrows \cap DOMAIN t.reads}
           sources == IF t.dest = <<>> THEN {} ELSE IF t.kind = "Jit" THEN lent \cap Refs ELSE lent
           spoiled == Spoiled(t)
           Result(place, cause) ==
             /\ target' = [l \in Locals(body) |-> IF l \notin Elements(t.dest) THEN target[l]
                                                 ELSE IF l = t.dest[1] THEN place ELSE Nowhere]
             /\ stale' = [l \in Locals(body) |-> IF l \notin Elements(t.dest) THEN spoiled[l]
                                                ELSE IF l = t.dest[1] THEN cause ELSE "no"]
<1>1. Ending = t
  BY DEF AtLast
<1>2. /\ IsCall(t)
      /\ \/ \E a \in sources : /\ Result(Object(a), IF a \in Refs THEN spoiled[a] ELSE "no")
                               /\ mode' = [mode EXCEPT ![t.dest[1]] =
                                             IF t.kind = "Jit" THEN mode[a] ELSE "BorrowReadOnly"]
         \/ Result(Nowhere, "no") /\ mode' = mode
  BY <1>1 DEF RunCall, Spoiled
<1>3. ASSUME NEW r \in Refs, PathLiveAfter(body, live_out, next, 0, r)
      PROVE  stale'[r] \notin Caught
             /\ (target'[r] # Nowhere => Covered(Seen(next, 1).loans, r, target'[r], mode'[r]))
  <2>1. r \in live_out[b] /\ r \in Locals(body) /\ r \in DOMAIN mode
    BY <1>3, LiveAcross DEF AtLast, Refs
  <2>2. CASE r \notin Elements(t.dest)
    <3>1. Good(last, r)
      BY <2>1, TrackedAtLast
    <3>2. target'[r] = target[r] /\ stale'[r] = spoiled[r]
      BY <1>2, <2>1, <2>2
    <3>3. mode'[r] = mode[r] \/ t.dest = <<>>
      <4>1. t.dest # <<>> => t.dest[1] \in Elements(t.dest)
        <5>1. t.dest \in Seq(Locals(body))
          BY <1>2, CallKindIs
        <5> HIDE DEF t
        <5> QED
          BY <5>1 DEF Elements
      <4> HIDE DEF t, sources, spoiled, Result
      <4> QED
        BY <1>2, <2>1, <2>2, <4>1
    <3>4. t.dest = <<>> => mode' = mode
      <4>1. t.dest = <<>> => sources = {}
        OBVIOUS
      <4> HIDE DEF sources, t, spoiled, Result
      <4> QED
        BY <1>2, <4>1
    <3>5. spoiled[r] \notin Caught
      BY <1>2, <3>1, CallSpoilsNothing
    <3> HIDE DEF spoiled, t
    <3> QED
      BY <2>1, <3>1, <3>2, <3>3, <3>4, <3>5, LoanCrosses DEF Good
  <2>3. CASE r \in Elements(t.dest) /\ (Result(Nowhere, "no") \/ r # t.dest[1])
    <3>1. target'[r] = Nowhere /\ stale'[r] = "no"
      <4> HIDE DEF t, spoiled, sources
      <4> QED
        BY <1>2, <2>1, <2>3
    <3> QED
      BY <3>1 DEF Caught
  <2>4. CASE r \in Elements(t.dest) /\ r = t.dest[1] /\ ~ Result(Nowhere, "no")
    <3>1. PICK a \in sources : /\ Result(Object(a), IF a \in Refs THEN spoiled[a] ELSE "no")
                               /\ mode' = [mode EXCEPT ![t.dest[1]] =
                                             IF t.kind = "Jit" THEN mode[a] ELSE "BorrowReadOnly"]
      <4> HIDE DEF Result, sources, t, spoiled
      <4> QED
        BY <1>2, <2>4
    <3>2. t.dest # <<>> /\ (t.kind = "Jit" => a \in Refs)
      BY <2>4 DEF Elements
    <3>3. PICK k \in t.borrows \cap DOMAIN t.reads : a = ArgAt(t, k)
      BY <3>2
    <3>4. /\ target'[r] = Object(a)
          /\ stale'[r] = IF a \in Refs THEN spoiled[a] ELSE "no"
          /\ mode'[r] = IF t.kind = "Jit" THEN mode[a] ELSE "BorrowReadOnly"
      <4> HIDE DEF spoiled, t, sources
      <4> QED
        BY <2>1, <2>4, <3>1
    <3>5. a \in TermReads(body, b)
      BY <3>3 DEF TermReads, ArgAt
    <3>6. stale'[r] \notin Caught
      <4>1. CASE a \in Refs
        <5>1. Good(last, a)
          BY <3>5, <4>1, TrackedAtLast
        <5>2. spoiled[a] \notin Caught
          BY <1>2, <4>1, <5>1, CallSpoilsNothing
        <5> HIDE DEF spoiled
        <5> QED
          BY <3>4, <4>1, <5>2
      <4>2. CASE a \notin Refs
        <5> HIDE DEF spoiled
        <5> QED
          BY <3>4, <4>2 DEF Caught
      <4> QED
        BY <4>1, <4>2
    <3>7. ASSUME target'[r] # Nowhere
          PROVE  Covered(ResultLoans(last, <<b, Len(Stmts(body, b)) + 1>>, t), r, target'[r], mode'[r])
      <4>1. CASE t.kind = "Jit"
        <5>1. a \in Refs /\ target'[r] = target[a] /\ mode'[r] = mode[a]
          BY <3>2, <3>4, <4>1 DEF Object
        <5>2. Covered(last.loans, a, target[a], mode[a])
          BY <3>5, <3>7, <5>1, TrackedAtLast DEF Good
        <5> HIDE DEF t
        <5> QED
          BY <1>2, <2>4, <3>2, <3>3, <4>1, <5>1, <5>2, ResultOfJit DEF t
      <4>2. CASE t.kind = "Builtin"
        <5>1. mode'[r] = "BorrowReadOnly" /\ Object(ArgAt(t, k)) # Nowhere
          BY <3>3, <3>4, <3>7, <4>2
        <5> QED
          BY <1>2, <2>4, <3>2, <3>3, <3>4, <4>2, <5>1, ResultOfShim
      <4> QED
        BY <1>2, <4>1, <4>2, CallKindIs
    <3> QED
      BY <1>2, <2>1, <3>6, <3>7, LoanCrosses
  <2> QED
    BY <2>2, <2>3, <2>4
<1>4. 1 - 1 = 0
  OBVIOUS
<1> QED
  BY <1>3, <1>4 DEF Tracked, Refs

LEMMA CallKeepsDomains ==
  ASSUME RunCall, DOMAIN mode = Locals(body)
  PROVE  DOMAIN target' = Locals(body) /\ DOMAIN mode' = Locals(body) /\ DOMAIN stale' = Locals(body)
<1>1. mode' = mode \/ \E x, v : mode' = [mode EXCEPT ![x] = v]
  BY DEF RunCall
<1>2. DOMAIN target' = Locals(body) /\ DOMAIN stale' = Locals(body)
  BY DEF RunCall
<1> QED
  BY <1>1, <1>2

-----------------------------------------------------------------------------
(***************************************************************************)
(* The invariant: in a run of a body whose references the checker follows, *)
(* every reference that is still read is tracked at the place of the run.  *)
(***************************************************************************)
Followable == Vetted /\ Traceable /\ RefsKept

RefsFollowed ==
  /\ live_out = PathLiveOut(body)
  /\ DOMAIN target = Locals(body) /\ DOMAIN mode = Locals(body) /\ DOMAIN stale = Locals(body)
  /\ pc # Stopped /\ Followable =>
       /\ bad \notin Caught
       /\ bad = "no" /\ pc[2] <= Len(Stmts(body, pc[1])) + 1
            => Tracked(body, live_out, pc[1], pc[2], Seen(pc[1], pc[2]), target, mode, stale)

LEMMA FollowableStays ==
  ASSUME UNCHANGED checker
  PROVE  /\ body' = body /\ live_out' = live_out /\ (Followable' <=> Followable)
         /\ \A b, i : Seen(b, i)' = Seen(b, i)
<1>1. /\ body' = body /\ live_out' = live_out /\ entry' = entry /\ walked' = walked
      /\ (Vetted' <=> Vetted)
  BY CheckerStays DEF checker
<1>2. \A b, i : Seen(b, i)' = Seen(b, i)
  BY <1>1 DEF Seen
<1>3. RefsKept' <=> RefsKept
  BY <1>1 DEF RefsKept, Refs
<1>4. Refs' = Refs
  BY <1>1 DEF Refs
<1>5. Traceable' <=> Traceable
  BY <1>1, <1>2, <1>4 DEF Traceable, BorrowTraced, CallTraced
<1> QED
  BY <1>1, <1>2, <1>3, <1>5 DEF Followable

LEMMA RefsAtFirst ==
  ASSUME RunInit
  PROVE  RefsFollowed
BY DEF RunInit, Init, Idle, RefsFollowed

\* The run has not begun while the checker moves.
LEMMA CheckKeepsRefs ==
  ASSUME RunInv, RefsFollowed, Check
  PROVE  RefsFollowed'
<1>1. CheckNext /\ UNCHANGED machine
  BY DEF Check
<1>2. body' = body /\ live_out' = live_out
  BY <1>1 DEF CheckNext, QueueSuccessor, WalkEntry, SkipBlock, WalkBlock
<1>3. pc = Stopped
  <2>1. ~ Accepted
    BY <1>1 DEF CheckNext, QueueSuccessor, WalkEntry, SkipBlock, WalkBlock, Popping, Accepted, Checked
  <2> QED
    BY <2>1 DEF RunInv, Placed
<1>4. pc' = Stopped /\ target' = target /\ mode' = mode /\ stale' = stale
  BY <1>1, <1>3 DEF machine
<1> QED
  BY <1>2, <1>4 DEF RefsFollowed

\* At first no reference points anywhere.
LEMMA BeginKeepsRefs ==
  ASSUME RunInv, RefsFollowed, Begin
  PROVE  RefsFollowed'
<1>1. /\ pc = Stopped /\ UNCHANGED checker /\ bad' = bad
      /\ target' = target /\ mode' = mode /\ stale' = stale
  BY DEF Begin
<1>2. body' = body /\ live_out' = live_out
  BY <1>1, FollowableStays
<1>3. /\ \A l \in Locals(body) : target[l] = Nowhere /\ stale[l] = "no"
      /\ bad = "no"
  BY <1>1 DEF RunInv, Idle
<1>4. bad' \notin Caught
  BY <1>1, <1>3 DEF Caught
<1>5. Tracked(body, live_out, pc[1], pc[2], Seen(pc[1], pc[2]), target, mode, stale)'
  <2> DEFINE b == pc'[1]
             i == pc'[2]
             st == Seen(pc[1], pc[2])'
  <2> HIDE DEF b, i, st
  <2>1. Tracked(body, live_out, b, i, st, target, mode, stale)
    BY <1>3 DEF Tracked, Caught
  <2>2. Tracked(body', live_out', b, i, st, target', mode', stale')
    BY <1>1, <1>2, <2>1
  <2> QED
    BY <2>2 DEF b, i, st
<1> QED
  BY <1>1, <1>2, <1>4, <1>5 DEF RefsFollowed

\* Where a run is, as the checker sees it.
LEMMA RunIsAt ==
  ASSUME RunInv, pc # Stopped, Followable, pc[2] <= Len(Stmts(body, pc[1])) + 1
  PROVE  /\ Inductive /\ States /\ Accepted /\ body \in Bodies
         /\ pc[1] \in ReachableBlocks /\ pc[1] \in Blocks(body) /\ pc[1] \in walked
         /\ Len(Stmts(body, pc[1])) \in Nat /\ pc[2] \in Nat \ {0}
         /\ IsWalk(body, Seen(pc[1], pc[2]))
         /\ Seen(pc[1], pc[2] + 1) = Step(body, live_out, pc[1], pc[2], Seen(pc[1], pc[2]))
<1> DEFINE b == pc[1]
           i == pc[2]
           k == i - 1
<1>1. /\ Inductive /\ States /\ Accepted /\ body \in Bodies
      /\ b \in ReachableBlocks /\ b \in Blocks(body) /\ b \in walked
      /\ Len(Stmts(body, b)) \in Nat /\ i \in Nat \ {0}
  BY BodiesAssumption DEF RunInv, Placed, Followed, Followable, Vetted, Inductive, Shape, IsBody
<1>2. k \in Nat /\ k + 1 = i /\ (i + 1) - 1 = k + 1
  BY <1>1
<1>3. IsKnown(body, entry[b])
  BY <1>1 DEF States
<1>4. /\ Seen(b, i) = StateAt(body, live_out, b, entry[b], k)
      /\ Seen(b, i + 1) = StateAt(body, live_out, b, entry[b], k + 1)
  BY <1>2 DEF Seen
<1> HIDE DEF k, b, i
<1>5. IsWalk(body, Seen(b, i))
  BY <1>2, <1>3, <1>4, WalkKeepsForm
<1>6. StateAt(body, live_out, b, entry[b], k + 1)
        = Step(body, live_out, b, k + 1, StateAt(body, live_out, b, entry[b], k))
  BY <1>2, StateAtIs
<1>7. Seen(b, i + 1) = Step(body, live_out, b, i, Seen(b, i))
  BY <1>2, <1>4, <1>6
<1> QED
  BY <1>1, <1>5, <1>7 DEF b, i

LEMMA StatementKeepsRefs ==
  ASSUME RunInv, RefsFollowed, RunStmt
  PROVE  RefsFollowed'
<1> DEFINE b == pc[1]
           i == pc[2]
           s == Stmts(body, b)[i]
           st == Seen(b, i)
<1>1. pc # Stopped
  BY DEF RunStmt, RunStorageLive, RunEnd, RunDeinit, RunBorrow, RunAssign, RunCompute, RunNop, AtStmt, Running
<1>2. /\ i \in 1 .. Len(Stmts(body, b)) /\ bad = "no" /\ RunsAs(Current) /\ Current = s
      /\ Len(Stmts(body, b)) \in Nat
  <2>1. Placed /\ body \in Bodies /\ MachineFits
    BY <1>1 DEF RunInv, Inductive, Shape
  <2> QED
    BY <2>1, StatementsRun, BodiesAssumption DEF Placed, Current, IsBody
<1>3. /\ pc' = <<b, i + 1>> /\ UNCHANGED checker /\ (bad' = bad \/ bad' = Verdict(UsedPlaces(s)))
  BY <1>2 DEF RunsAs
<1>4. /\ body' = body /\ live_out' = live_out /\ (Followable' <=> Followable)
      /\ \A c, k : Seen(c, k)' = Seen(c, k)
  BY <1>3, FollowableStays
<1>5. DOMAIN target' = Locals(body) /\ DOMAIN mode' = Locals(body) /\ DOMAIN stale' = Locals(body)
  BY StatementKeepsDomains DEF RefsFollowed
<1>6. ASSUME Followable
      PROVE  /\ bad' \notin Caught
             /\ Tracked(body, live_out, b, i + 1, Seen(b, i + 1), target', mode', stale')
  <2>1. i <= Len(Stmts(body, b)) + 1
    BY <1>2
  <2>2. /\ Inductive /\ States /\ Accepted /\ body \in Bodies
        /\ b \in Blocks(body) /\ b \in walked /\ IsWalk(body, st)
        /\ Seen(b, i + 1) = Step(body, live_out, b, i, st)
    BY <1>1, <1>6, <2>1, RunIsAt
  <2>3. AtPoint(b, i, s, st)
    <3>1. StmtErrors(body, live_out, st, <<b, i>>, s) = {}
      BY <1>2, <2>2, FinalStates
    <3>2. s.op = "Drop" /\ s.local \in Refs => ~ PathLiveAfter(body, live_out, b, i, s.local)
      BY <1>2, <1>6, <2>2 DEF Followable, RefsKept
    <3>3. BorrowTraced(st, s)
      BY <1>2, <1>6, <2>2 DEF Followable, Traceable
    <3>4. Tracked(body, live_out, b, i, st, target, mode, stale)
      BY <1>1, <1>2, <1>6, <2>1 DEF RefsFollowed
    <3> HIDE DEF b, i, st
    <3> QED
      BY <1>2, <2>2, <3>1, <3>2, <3>3, <3>4 DEF AtPoint, RefsFollowed
  <2> HIDE DEF b, i, s, st
  <2>4. Tracked(body, live_out, b, i + 1, Seen(b, i + 1), target', mode', stale')
    BY <2>2, <2>3, StatementTracks
  <2>5. \A p \in UsedPlaces(s) : p.local \in Refs => stale[p.local] \notin Caught
    BY <2>3, PlacesAre, TrackedBefore
  <2>6. bad' \notin Caught
    BY <1>2, <1>3, <2>5, VerdictOfWhatIsHeld DEF Caught
  <2> QED
    BY <2>4, <2>6
<1>7. pc'[1] = b /\ pc'[2] = i + 1
  BY <1>3
<1>8. ASSUME Followable
      PROVE  Tracked(body, live_out, pc[1], pc[2], Seen(pc[1], pc[2]), target, mode, stale)'
  <2>1. Seen(pc[1], pc[2])' = Seen(b, i + 1)
    BY <1>4, <1>7 DEF Seen
  <2> HIDE DEF b, i
  <2> QED
    BY <1>4, <1>6, <1>7, <1>8, <2>1
<1> HIDE DEF b, i, s, st
<1> QED
  BY <1>4, <1>5, <1>6, <1>8 DEF RefsFollowed

\* At a terminator.
LEMMA RunIsAtLast ==
  ASSUME RunInv, RefsFollowed, AtTerm, Followable
  PROVE  AtLast(pc[1], Seen(pc[1], Len(Stmts(body, pc[1])) + 1))
<1> DEFINE b == pc[1]
           n == Len(Stmts(body, b))
           last == Seen(b, n + 1)
<1>1. pc # Stopped /\ bad = "no" /\ pc[2] = n + 1
  BY DEF AtTerm, Running
<1>2. pc[2] <= n + 1
  <2>1. body \in Bodies /\ b \in Blocks(body)
    BY <1>1 DEF RunInv, Placed, Inductive, Shape
  <2>2. n \in Nat
    BY <2>1, BodiesAssumption DEF IsBody
  <2> QED
    BY <1>1, <2>2
<1>3. /\ Inductive /\ States /\ Accepted /\ body \in Bodies
      /\ b \in ReachableBlocks /\ b \in Blocks(body) /\ b \in walked /\ IsWalk(body, last)
  BY <1>1, <1>2, RunIsAt
<1>4. Tracked(body, live_out, b, n + 1, last, target, mode, stale)
  BY <1>1, <1>2 DEF RefsFollowed
<1>5. IsCall(Term(body, b)) => CallTraced(last, Term(body, b))
  BY <1>3 DEF Followable, Traceable
<1>6. Ending = Term(body, b)
  BY DEF Ending
<1> HIDE DEF b, n
<1> QED
  BY <1>3, <1>4, <1>5, <1>6 DEF AtLast, RefsFollowed, Followable, b, n

\* The start of the next block.
LEMMA EdgeKeepsRefs ==
  ASSUME RunInv, RefsFollowed, AtTerm, UNCHANGED checker, NEW next \in Succs(body, pc[1]), pc' = <<next, 1>>,
         bad' = Verdict(ReadByTerm),
         DOMAIN target' = Locals(body), DOMAIN mode' = Locals(body), DOMAIN stale' = Locals(body),
         Followable => Tracked(body, live_out, next, 1, Seen(next, 1), target', mode', stale')
  PROVE  RefsFollowed'
<1>1. /\ body' = body /\ live_out' = live_out /\ (Followable' <=> Followable)
      /\ \A c, k : Seen(c, k)' = Seen(c, k)
  BY FollowableStays
<1>2. pc'[1] = next /\ pc'[2] = 1
  OBVIOUS
<1>3. ASSUME Followable
      PROVE  Tracked(body, live_out, pc[1], pc[2], Seen(pc[1], pc[2]), target, mode, stale)'
  <2>1. Seen(pc[1], pc[2])' = Seen(next, 1)
    BY <1>1, <1>2 DEF Seen
  <2> QED
    BY <1>1, <1>2, <1>3, <2>1
<1>4. ASSUME Followable PROVE bad' \notin Caught
  BY <1>4, RunIsAtLast, TerminatorVerdict
<1> QED
  BY <1>1, <1>3, <1>4 DEF RefsFollowed

LEMMA BranchKeepsRefs ==
  ASSUME RunInv, RefsFollowed, RunBranch
  PROVE  RefsFollowed'
<1> DEFINE b == pc[1]
<1>1. /\ AtTerm /\ bad' = Verdict(ReadByTerm) /\ UNCHANGED checker
      /\ \/ \E next \in Succs(body, b) : pc' = <<next, 1>>
         \/ pc' = <<b, pc[2] + 1>>
      /\ target' = target /\ mode' = mode /\ stale' = stale
  BY DEF RunBranch
<1>2. CASE \E next \in Succs(body, b) : pc' = <<next, 1>>
  <2>1. PICK next \in Succs(body, b) : pc' = <<next, 1>>
    BY <1>2
  <2>2. ASSUME Followable
        PROVE  Tracked(body, live_out, next, 1, Seen(next, 1), target', mode', stale')
    <3>1. Tracked(body, live_out, next, 1, Seen(next, 1), target, mode, stale)
      BY <1>1, <2>2, RunIsAtLast, BranchTracks
    <3> QED
      BY <1>1, <3>1
  <2>3. DOMAIN target' = Locals(body) /\ DOMAIN mode' = Locals(body) /\ DOMAIN stale' = Locals(body)
    BY <1>1 DEF RefsFollowed
  <2> HIDE DEF b
  <2> QED
    BY <1>1, <2>1, <2>2, <2>3, EdgeKeepsRefs DEF b
<1>3. CASE pc' = <<b, pc[2] + 1>>
  <2>1. body' = body /\ live_out' = live_out /\ (Followable' <=> Followable)
    BY <1>1, FollowableStays
  <2>2. ASSUME Followable PROVE bad' \notin Caught
    BY <1>1, <2>2, RunIsAtLast, TerminatorVerdict
  <2>3. ~ (pc'[2] <= Len(Stmts(body', pc'[1])) + 1)
    <3>1. pc[2] = Len(Stmts(body, b)) + 1 /\ pc'[1] = b /\ pc'[2] = pc[2] + 1
      BY <1>1, <1>3 DEF AtTerm
    <3>2. body \in Bodies /\ b \in Blocks(body)
      BY <1>1 DEF RunInv, Placed, Inductive, Shape, AtTerm, Running
    <3>3. Len(Stmts(body, b)) \in Nat
      BY <3>2, BodiesAssumption DEF IsBody
    <3> QED
      BY <2>1, <3>1, <3>3
  <2> QED
    BY <1>1, <2>1, <2>2, <2>3 DEF RefsFollowed
<1> QED
  BY <1>1, <1>2, <1>3

LEMMA CallKeepsRefs ==
  ASSUME RunInv, RefsFollowed, RunCall
  PROVE  RefsFollowed'
<1> DEFINE b == pc[1]
           next == Ending.succ[1]
<1>1. /\ AtTerm /\ IsCall(Ending) /\ bad' = Verdict(ReadByTerm) /\ UNCHANGED checker
      /\ pc' = <<next, 1>>
  BY DEF RunCall
<1>2. next \in Succs(body, b)
  <2>1. b \in Blocks(body) /\ body \in Bodies
    BY <1>1 DEF RunInv, Placed, Inductive, Shape, AtTerm, Running
  <2>2. Len(Succ(body, b)) = 1 /\ Succ(body, b) \in Seq(Blocks(body))
    BY <1>1, <2>1, StorageAssumption, BodiesAssumption DEF PlacesFit, IsBody, Ending
  <2>3. 1 \in DOMAIN Succ(body, b) /\ next = Succ(body, b)[1]
    BY <2>2 DEF Succ, Ending
  <2> QED
    BY <2>3 DEF Succs
<1>3. DOMAIN target' = Locals(body) /\ DOMAIN mode' = Locals(body) /\ DOMAIN stale' = Locals(body)
  BY CallKeepsDomains DEF RefsFollowed
<1>4. ASSUME Followable
      PROVE  Tracked(body, live_out, next, 1, Seen(next, 1), target', mode', stale')
  BY <1>1, <1>2, <1>4, RunIsAtLast, CallTracks
<1> HIDE DEF next
<1> QED
  BY <1>1, <1>2, <1>3, <1>4, EdgeKeepsRefs

\* In a run of an accepted body whose references the checker follows, nothing
\* read so far dangled or was an alias, and what a path still reads a reference
\* for has a loan: of the place the reference points to or of one around it.
THEOREM ReferencesAreFollowed == RunSpec => []RefsFollowed
<1>1. RunInit => RefsFollowed
  BY RefsAtFirst
<1>2. RunInv /\ RefsFollowed /\ [Check \/ Run]_vars => RefsFollowed'
  <2> SUFFICES ASSUME RunInv, RefsFollowed, [Check \/ Run]_vars PROVE RefsFollowed'
    OBVIOUS
  <2>1. CASE Check
    BY <2>1, CheckKeepsRefs
  <2>2. CASE Begin
    BY <2>2, BeginKeepsRefs
  <2>3. CASE RunStmt
    BY <2>3, StatementKeepsRefs
  <2>4. CASE RunBranch
    BY <2>4, BranchKeepsRefs
  <2>5. CASE RunCall
    BY <2>5, CallKeepsRefs
  <2>6. CASE UNCHANGED vars
    <3>1. UNCHANGED checker /\ UNCHANGED machine
      BY <2>6 DEF vars
    <3>2. /\ body' = body /\ live_out' = live_out /\ (Followable' <=> Followable)
          /\ \A b, i : Seen(b, i)' = Seen(b, i)
      BY <3>1, FollowableStays
    <3>3. pc' = pc /\ target' = target /\ mode' = mode /\ stale' = stale /\ bad' = bad
      BY <3>1 DEF machine
    <3> QED
      BY <3>2, <3>3 DEF RefsFollowed
  <2> QED
    BY <2>1, <2>2, <2>3, <2>4, <2>5, <2>6 DEF Run, RunStmt
<1> QED
  BY <1>1, <1>2, RunsAreFollowed, PTL DEF RunSpec

LEMMA NothingCaught ==
  ASSUME RunInv, RefsFollowed, Traceable, RefsKept
  PROVE  Vetted => bad \notin Caught
<1>1. CASE pc = Stopped
  BY <1>1 DEF RunInv, Idle, Caught
<1>2. CASE pc # Stopped
  BY <1>2 DEF RefsFollowed, Followable
<1> QED
  BY <1>1, <1>2

\* A body whose references the checker follows, and that drops none which is
\* still read, never reads a reference whose target has ended, been moved by
\* an assignment, or been changed in place by a shim: on any path, round any
\* loop, through any chain of references, and across any calls.
THEOREM FollowedReferencesNeverDangle ==
  RunSpec => [](Traceable /\ RefsKept => NoDanglingRead)
<1>1. RunInv /\ RefsFollowed => (Traceable /\ RefsKept => NoDanglingRead)
  BY NothingCaught DEF NoDanglingRead, Caught
<1> QED
  BY <1>1, RunsAreFollowed, ReferencesAreFollowed, PTL

\* Nor one that another reference to the place has made an alias of: of two
\* references to a place, one of them mutable, only the younger is read.
THEOREM MutableReferencesAreExclusive ==
  RunSpec => [](Traceable /\ RefsKept => NoAliasedRead)
<1>1. RunInv /\ RefsFollowed => (Traceable /\ RefsKept => NoAliasedRead)
  BY NothingCaught DEF NoAliasedRead, Caught
<1> QED
  BY <1>1, RunsAreFollowed, ReferencesAreFollowed, PTL
=============================================================================
