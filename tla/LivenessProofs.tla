---------------------------- MODULE LivenessProofs ----------------------------
(***************************************************************************)
(* Theorems about the liveness analysis, for every set of bodies: the sets *)
(* only grow, the sets it returns are the least solution of the dataflow   *)
(* equations, and that solution is liveness as the paths define it.        *)
(*                                                                         *)
(* Up to the least solution, what a block uses and defines is never looked *)
(* into: that part needs only that a block's equations are monotone.  The  *)
(* last part relates the equations to the first event of a local in a      *)
(* block, and goes round by round through the definition of LiveAtStart.   *)
(***************************************************************************)
EXTENDS Liveness, FiniteSetTheorems, WellFoundedInduction, TLAPS

-----------------------------------------------------------------------------
(* The equations *)

\* Blocks are numbered from the entry block on, and edges lead to blocks.
LEMMA GraphOf ==
  ASSUME NEW bd \in Bodies
  PROVE  /\ Len(bd.blocks) \in Nat
         /\ Blocks(bd) = 1 .. Len(bd.blocks)
         /\ \A b \in Blocks(bd) : Succs(bd, b) \subseteq Blocks(bd)
<1>1. IsBody(bd)
  BY BodiesAssumption
<1>2. \A b \in Blocks(bd) : Succs(bd, b) \subseteq Blocks(bd)
  <2> SUFFICES ASSUME NEW b \in Blocks(bd) PROVE Succs(bd, b) \subseteq Blocks(bd)
    OBVIOUS
  <2>1. Succ(bd, b) \in Seq(Blocks(bd))
    BY <1>1 DEF IsBody
  <2>2. \A i \in DOMAIN Succ(bd, b) : Succ(bd, b)[i] \in Blocks(bd)
    BY <2>1
  <2> QED
    BY <2>2 DEF Succs
<1> QED
  BY <1>1, <1>2 DEF IsBody

\* The equations yield sets of locals.
LEMMA EquationsTyped ==
  ASSUME NEW bd \in Bodies, NEW b \in Blocks(bd),
         NEW in \in [Blocks(bd) -> SUBSET Locals(bd)], NEW out \in SUBSET Locals(bd)
  PROVE  Out(bd, in, b) \subseteq Locals(bd) /\ In(bd, out, b) \subseteq Locals(bd)
<1>1. Out(bd, in, b) \subseteq Locals(bd)
  BY GraphOf DEF Out
<1>2. Used(bd, b) \subseteq Locals(bd)
  BY DEF Used
<1> QED
  BY <1>1, <1>2 DEF In

\* The equations are monotone.
LEMMA OutMonotone ==
  ASSUME NEW bd \in Bodies, NEW b \in Blocks(bd), NEW before, NEW after,
         \A s \in Blocks(bd) : before[s] \subseteq after[s]
  PROVE  Out(bd, before, b) \subseteq Out(bd, after, b)
BY GraphOf DEF Out

\* The same of the equation for the live-in set.
LEMMA InMonotone ==
  ASSUME NEW bd, NEW b, NEW before, NEW after, before \subseteq after
  PROVE  In(bd, before, b) \subseteq In(bd, after, b)
BY DEF In

-----------------------------------------------------------------------------
(***************************************************************************)
(* The inductive invariant.  Each stored set is at most what its equation  *)
(* gives now; a sweep that has changed nothing has found every block it    *)
(* visited to satisfy its equations; and nothing is stored that some       *)
(* solution lacks.                                                         *)
(***************************************************************************)
Shape == body \in Bodies /\ TypeOK

AtMost ==
  \A b \in Blocks(body) : /\ live_out[b] \subseteq Out(body, live_in, b)
                          /\ live_in[b] \subseteq In(body, live_out[b], b)

Solved(b) == live_out[b] = Out(body, live_in, b) /\ live_in[b] = In(body, live_out[b], b)

SolvedSoFar == ~changed => \A b \in Blocks(body) : b < next => Solved(b)

EndedSolved == done => ~changed /\ next \notin Blocks(body)

\* A choice of live_in that loses nothing when the equations are applied.
Closed(in) == \A b \in Blocks(body) : In(body, Out(body, in, b), b) \subseteq in[b]

Least ==
  \A in \in [Blocks(body) -> SUBSET Locals(body)] :
    Closed(in) => \A b \in Blocks(body) : /\ live_in[b] \subseteq in[b]
                                          /\ live_out[b] \subseteq Out(body, in, b)

Inductive == Shape /\ AtMost /\ SolvedSoFar /\ EndedSolved /\ Least

\* What Liveness promises the checker about its result.
LeastSolution == done => (\A b \in Blocks(body) : Solved(b)) /\ Least

\* The invariant holds of the empty sets.
LEMMA InductiveAtFirst ==
  ASSUME Init
  PROVE  Inductive
<1>1. body \in Bodies
  BY DEF Init
<1>2. TypeOK
  <2>1. next \in 1 .. Len(body.blocks) + 1
    BY <1>1, GraphOf DEF Init
  <2>2. /\ live_in \in [Blocks(body) -> SUBSET Locals(body)]
        /\ live_out \in [Blocks(body) -> SUBSET Locals(body)]
    BY DEF Init
  <2> QED
    BY <2>1, <2>2 DEF Init, TypeOK
<1>3. \A b \in Blocks(body) : live_in[b] = {} /\ live_out[b] = {}
  BY DEF Init
<1>4. SolvedSoFar
  BY <1>1, GraphOf DEF Init, SolvedSoFar
<1> QED
  BY <1>1, <1>2, <1>3, <1>4 DEF Init, Inductive, Shape, AtMost, EndedSolved, Least

\* A visit takes nothing out of the sets of its block.
LEMMA VisitGrows ==
  ASSUME Inductive, SweepBlock
  PROVE  /\ body' = body /\ next \in Blocks(body)
         /\ live_out' \in [Blocks(body) -> SUBSET Locals(body)]
         /\ live_in' \in [Blocks(body) -> SUBSET Locals(body)]
         /\ live_out'[next] = Out(body, live_in, next)
         /\ live_in'[next] = In(body, live_out'[next], next)
         /\ \A b \in Blocks(body) \ {next} : live_out'[b] = live_out[b] /\ live_in'[b] = live_in[b]
         /\ \A b \in Blocks(body) : live_in[b] \subseteq live_in'[b] /\ live_out[b] \subseteq live_out'[b]
<1> DEFINE out == Out(body, live_in, next)
           in  == In(body, out, next)
<1>1. /\ live_out' = [live_out EXCEPT ![next] = out]
      /\ live_in' = [live_in EXCEPT ![next] = in]
      /\ body' = body /\ next \in Blocks(body)
  BY DEF SweepBlock
<1>2. /\ body \in Bodies
      /\ live_in \in [Blocks(body) -> SUBSET Locals(body)]
      /\ live_out \in [Blocks(body) -> SUBSET Locals(body)]
  BY DEF Inductive, Shape, TypeOK
<1>3. out \subseteq Locals(body)
  BY <1>1, <1>2, EquationsTyped
<1>4. in \subseteq Locals(body)
  BY <1>1, <1>2, <1>3, EquationsTyped
<1> HIDE DEF out, in
<1>5. /\ live_out' \in [Blocks(body) -> SUBSET Locals(body)]
      /\ live_in' \in [Blocks(body) -> SUBSET Locals(body)]
      /\ live_out'[next] = out /\ live_in'[next] = in
      /\ \A b \in Blocks(body) \ {next} : live_out'[b] = live_out[b] /\ live_in'[b] = live_in[b]
  BY <1>1, <1>2, <1>3, <1>4
<1>6. live_out[next] \subseteq out /\ live_in[next] \subseteq In(body, live_out[next], next)
  BY <1>1 DEF Inductive, AtMost, out
<1>7. live_in[next] \subseteq in
  BY <1>6, InMonotone DEF in
<1> QED
  BY <1>1, <1>5, <1>6, <1>7 DEF out, in

\* Visiting a block keeps the invariant: the block is solved until a later one
\* changes, and then the flag is up.
LEMMA KeptBySweeping ==
  ASSUME Inductive, SweepBlock
  PROVE  Inductive'
<1>0. body \in Bodies /\ body' = body
  BY VisitGrows DEF Inductive, Shape
<1>1. Shape'
  <2>1. /\ next' = next + 1 /\ done' = done /\ next \in 1 .. Len(body.blocks)
        /\ changed' = (changed \/ Out(body, live_in, next) # live_out[next]
                               \/ In(body, Out(body, live_in, next), next) # live_in[next])
    BY <1>0, VisitGrows, GraphOf DEF SweepBlock
  <2>2. next' \in 1 .. Len(body.blocks) + 1
    BY <1>0, <2>1, GraphOf
  <2>3. changed' \in BOOLEAN
    BY <2>1 DEF Inductive, Shape, TypeOK
  <2> QED
    BY <1>0, <2>1, <2>2, <2>3, VisitGrows DEF Inductive, Shape, TypeOK
<1>2. AtMost'
  <2> SUFFICES ASSUME NEW b \in Blocks(body)
               PROVE  /\ live_out'[b] \subseteq Out(body, live_in', b)
                      /\ live_in'[b] \subseteq In(body, live_out'[b], b)
    BY <1>0 DEF AtMost
  <2>1. Out(body, live_in, b) \subseteq Out(body, live_in', b)
    BY <1>0, VisitGrows, OutMonotone
  <2>2. CASE b = next
    BY <2>1, <2>2, VisitGrows
  <2>3. CASE b # next
    BY <2>1, <2>3, VisitGrows DEF Inductive, AtMost
  <2> QED
    BY <2>2, <2>3
<1>3. SolvedSoFar'
  <2> SUFFICES ASSUME ~changed', NEW b \in Blocks(body), b < next'
               PROVE  /\ live_out'[b] = Out(body, live_in', b)
                      /\ live_in'[b] = In(body, live_out'[b], b)
    BY <1>0 DEF SolvedSoFar, Solved
  <2>1. /\ ~changed /\ next' = next + 1
        /\ Out(body, live_in, next) = live_out[next]
        /\ In(body, Out(body, live_in, next), next) = live_in[next]
    BY DEF SweepBlock
  <2>2. live_in' = live_in /\ live_out' = live_out
    BY <2>1 DEF SweepBlock, Inductive, Shape, TypeOK
  <2>3. b = next \/ b < next
    BY <1>0, <2>1, VisitGrows, GraphOf
  <2> QED
    BY <2>1, <2>2, <2>3 DEF Inductive, SolvedSoFar, Solved
<1>4. EndedSolved'
  BY DEF SweepBlock, EndedSolved
<1>5. Least'
  <2> SUFFICES ASSUME NEW in \in [Blocks(body) -> SUBSET Locals(body)], Closed(in),
                      NEW b \in Blocks(body)
               PROVE  live_in'[b] \subseteq in[b] /\ live_out'[b] \subseteq Out(body, in, b)
    BY <1>0 DEF Least, Closed
  <2>1. \A c \in Blocks(body) : live_in[c] \subseteq in[c] /\ live_out[c] \subseteq Out(body, in, c)
    BY DEF Inductive, Least
  <2>2. Out(body, live_in, b) \subseteq Out(body, in, b)
    BY <1>0, <2>1, OutMonotone
  <2>3. CASE b = next
    <3>1. live_out'[b] \subseteq Out(body, in, b)
      BY <2>2, <2>3, VisitGrows
    <3>2. live_in'[b] \subseteq In(body, Out(body, in, b), b)
      BY <2>3, <3>1, VisitGrows, InMonotone
    <3> QED
      BY <3>1, <3>2 DEF Closed
  <2>4. CASE b # next
    BY <2>1, <2>4, VisitGrows
  <2> QED
    BY <2>3, <2>4
<1> QED
  BY <1>1, <1>2, <1>3, <1>4, <1>5 DEF Inductive

\* A sweep that changed nothing has left every block solved.
LEMMA KeptByEnding ==
  ASSUME Inductive, EndSweep
  PROVE  Inductive'
<1>1. /\ body \in Bodies /\ next \notin Blocks(body)
      /\ UNCHANGED <<body, live_in, live_out>>
  BY DEF EndSweep, Inductive, Shape
<1>2. CASE changed
  <2>1. next' = 1 /\ changed' = FALSE /\ done' = FALSE
    BY <1>2 DEF EndSweep, Inductive, Shape, TypeOK
  <2>2. SolvedSoFar'
    BY <1>1, <2>1, GraphOf DEF SolvedSoFar
  <2>3. 1 \in 1 .. Len(body.blocks) + 1
    BY <1>1, GraphOf
  <2>4. Shape'
    BY <1>1, <2>1, <2>3 DEF Inductive, Shape, TypeOK
  <2> QED
    BY <1>1, <2>1, <2>2, <2>4 DEF Inductive, AtMost, EndedSolved, Least, Closed
<1>3. CASE ~changed
  <2>1. done' = TRUE /\ UNCHANGED <<next, changed>>
    BY <1>3 DEF EndSweep
  <2>2. Shape'
    BY <1>1, <2>1 DEF Inductive, Shape, TypeOK
  <2> QED
    BY <1>1, <1>3, <2>1, <2>2
    DEF Inductive, AtMost, SolvedSoFar, Solved, EndedSolved, Least, Closed
<1> QED
  BY <1>2, <1>3

\* The sets stay below every solution, and what a sweep without changes has
\* passed is solved.
THEOREM InductiveHolds == Spec => []Inductive
<1>1. Init => Inductive
  BY InductiveAtFirst
<1>2. Inductive /\ [Next]_vars => Inductive'
  <2>1. ASSUME Inductive, UNCHANGED vars PROVE Inductive'
    BY <2>1 DEF vars, Inductive, Shape, TypeOK, AtMost, SolvedSoFar, Solved, EndedSolved, Least, Closed
  <2> QED
    BY <2>1, KeptBySweeping, KeptByEnding DEF Next
<1> QED
  BY <1>1, <1>2, PTL DEF Spec

-----------------------------------------------------------------------------
(* Theorems *)

\* The variables of compute keep their types: the sets hold locals of the
\* body and the sweep never leaves its blocks.
THEOREM TypeCorrect == Spec => []TypeOK
<1>1. Inductive => TypeOK
  BY DEF Inductive, Shape
<1> QED
  BY <1>1, InductiveHolds, PTL

\* A sweep never forgets a local it found live, although every visit
\* recomputes its block from scratch.
THEOREM SetsOnlyGrow == Spec => OnlyGrows
<1>1. ASSUME Inductive, [Next]_vars, NEW b \in Blocks(body)
      PROVE  live_in[b] \subseteq live_in'[b] /\ live_out[b] \subseteq live_out'[b]
  <2>1. CASE SweepBlock
    BY <1>1, <2>1, VisitGrows
  <2>2. CASE EndSweep \/ UNCHANGED vars
    BY <2>2 DEF EndSweep, vars
  <2> QED
    BY <1>1, <2>1, <2>2 DEF Next
<1>2. Inductive /\ [Next]_vars
        => [\A b \in Blocks(body) : /\ live_in[b] \subseteq live_in'[b]
                                    /\ live_out[b] \subseteq live_out'[b]]_vars
  BY <1>1
<1> QED
  BY <1>2, InductiveHolds, PTL DEF Spec, OnlyGrows

\* When compute returns, its sets solve the dataflow equations, and no
\* solution is smaller: no block was missed by the last sweep, and nothing
\* is live that the equations do not force.
THEOREM ReturnsLeastSolution == Spec => []LeastSolution
<1>1. Inductive => LeastSolution
  <2> SUFFICES ASSUME Inductive, done PROVE (\A b \in Blocks(body) : Solved(b)) /\ Least
    BY DEF LeastSolution
  <2>1. body \in Bodies /\ next \in 1 .. Len(body.blocks) + 1 /\ next \notin Blocks(body) /\ ~changed
    BY DEF Inductive, Shape, TypeOK, EndedSolved
  <2>2. \A b \in Blocks(body) : b < next
    BY <2>1, GraphOf
  <2> QED
    BY <2>1, <2>2 DEF Inductive, SolvedSoFar
<1> QED
  BY <1>1, InductiveHolds, PTL

-----------------------------------------------------------------------------
(* Induction *)

\* Induction over the natural numbers, for a set of them.
LEMMA SetInduction ==
  ASSUME NEW S, 0 \in S, \A n \in Nat : n \in S => n + 1 \in S
  PROVE  Nat \subseteq S
<1> DEFINE missing == Nat \ S
<1>1. SUFFICES ASSUME missing # {} PROVE FALSE
  OBVIOUS
<1>2. \E i \in missing : \A j \in missing : ~ (<<j, i>> \in OpToRel(<, Nat))
  <2>1. missing \subseteq Nat /\ missing # {}
    BY <1>1
  <2> HIDE DEF missing
  <2> QED
    BY <2>1, NatLessThanWellFounded, WFMin
<1>3. PICK i \in missing : \A j \in missing : ~ (j < i)
  BY <1>2 DEF OpToRel
<1>4. i # 0
  OBVIOUS
<1>5. i - 1 \in Nat /\ i - 1 < i /\ i = (i - 1) + 1
  BY <1>4
<1>6. i - 1 \in S
  BY <1>3, <1>5
<1> QED
  BY <1>5, <1>6

\* A nonempty set of natural numbers has a least element.
LEMMA LeastElement ==
  ASSUME NEW S, S \subseteq Nat, S # {}
  PROVE  \E i \in S : \A j \in S : i <= j
<1>1. \E i \in S : \A j \in S : ~ (<<j, i>> \in OpToRel(<, Nat))
  BY NatLessThanWellFounded, WFMin
<1>2. \E i \in S : \A j \in S : ~ (j < i)
  BY <1>1 DEF OpToRel
<1> QED
  BY <1>2

\* A function defined by recursion up to n exists.
LEMMA RecursionDefines ==
  ASSUME NEW T, NEW base \in T, NEW step \in [T -> T], NEW n \in Nat
  PROVE  \E g \in [0 .. n -> T] :
           g = [k \in 0 .. n |-> IF k = 0 THEN base ELSE step[g[k - 1]]]
<1> DEFINE Unfolds(m, g) == \A k \in 0 .. m : g[k] = IF k = 0 THEN base ELSE step[g[k - 1]]
           stages == {m \in Nat : \E g \in [0 .. m -> T] : Unfolds(m, g)}
<1>1. 0 \in stages
  <2> DEFINE g == [k \in 0 .. 0 |-> base]
  <2>1. g \in [0 .. 0 -> T] /\ Unfolds(0, g)
    OBVIOUS
  <2> QED
    BY <2>1
<1>2. ASSUME NEW m \in Nat, m \in stages PROVE m + 1 \in stages
  <2>1. PICK g \in [0 .. m -> T] : Unfolds(m, g)
    BY <1>2
  <2> DEFINE h == [k \in 0 .. m + 1 |-> IF k <= m THEN g[k] ELSE step[g[m]]]
  <2>2. h \in [0 .. m + 1 -> T]
    <3> SUFFICES ASSUME NEW k \in 0 .. m + 1 PROVE (IF k <= m THEN g[k] ELSE step[g[m]]) \in T
      OBVIOUS
    <3>1. m \in 0 .. m /\ g[m] \in T
      BY <2>1
    <3>2. k <= m => k \in 0 .. m /\ g[k] \in T
      BY <2>1
    <3> QED
      BY <3>1, <3>2
  <2>3. \A k \in 0 .. m : h[k] = g[k]
    OBVIOUS
  <2>4. h[m + 1] = step[h[m]]
    OBVIOUS
  <2>5. Unfolds(m + 1, h)
    <3> SUFFICES ASSUME NEW k \in 0 .. m + 1
                 PROVE  h[k] = IF k = 0 THEN base ELSE step[h[k - 1]]
      OBVIOUS
    <3>1. CASE k = m + 1
      <4>1. k # 0 /\ k - 1 = m
        BY <3>1
      <4> HIDE DEF h
      <4> QED
        BY <2>4, <3>1, <4>1
    <3>2. CASE k # m + 1
      <4>1. k \in 0 .. m /\ (k # 0 => k - 1 \in 0 .. m)
        BY <3>2
      <4> HIDE DEF h
      <4> QED
        BY <2>1, <2>3, <4>1
    <3> QED
      BY <3>1, <3>2
  <2>6. \E f \in [0 .. m + 1 -> T] : Unfolds(m + 1, f)
    <3> HIDE DEF h, Unfolds
    <3> QED
      BY <2>2, <2>5
  <2> QED
    BY <2>6
<1>3. n \in stages
  <2> HIDE DEF stages
  <2> QED
    BY <1>1, <1>2, SetInduction
<1>4. PICK g \in [0 .. n -> T] : Unfolds(n, g)
  BY <1>3
<1>5. g = [k \in 0 .. n |-> IF k = 0 THEN base ELSE step[g[k - 1]]]
  BY <1>4
<1> QED
  BY <1>5

-----------------------------------------------------------------------------
(***************************************************************************)
(* Path liveness.  A block's equation is about the first event of a local  *)
(* in it; the pairs that LiveAtStart collects in as many rounds as there   *)
(* are blocks are closed under one more, because a round that adds a block *)
(* to a local adds one that was not there.                                 *)
(***************************************************************************)
Pairs(bd) == Blocks(bd) \X Locals(bd)
ReadFirst(bd) == {p \in Pairs(bd) : FirstEvent(bd, p[1], 0, p[2]) = "read"}
Untouched(bd) == {p \in Pairs(bd) : FirstEvent(bd, p[1], 0, p[2]) = "none"}
Round(bd, near) ==
  near \cup {p \in Untouched(bd) : \E b \in Succs(bd, p[1]) : <<b, p[2]>> \in near}

\* The positions of a block at which l is read or written, after i.
Touching(bd, b, i, l) ==
  {j \in Positions(bd, b) : j > i /\ l \in ReadsAt(bd, b, j) \cup WritesAt(bd, b, j)}

\* The first event is none, or that of the first position that touches l.
LEMMA FirstEventIs ==
  ASSUME NEW bd \in Bodies, NEW b \in Blocks(bd), NEW i, NEW l
  PROVE  \/ Touching(bd, b, i, l) = {} /\ FirstEvent(bd, b, i, l) = "none"
         \/ \E j \in Touching(bd, b, i, l) :
              /\ \A k \in Touching(bd, b, i, l) : j <= k
              /\ FirstEvent(bd, b, i, l) = IF l \in ReadsAt(bd, b, j) THEN "read" ELSE "write"
<1> DEFINE at == Touching(bd, b, i, l)
           First(j) == \A k \in at : j <= k
<1>1. at = {} => FirstEvent(bd, b, i, l) = "none"
  BY DEF FirstEvent, Touching
<1>2. ASSUME at # {} PROVE \E j \in at : First(j)
  <2>1. Len(Stmts(bd, b)) \in Nat
    BY BodiesAssumption DEF IsBody
  <2>2. at \subseteq Nat
    BY <2>1 DEF Positions, Touching
  <2> HIDE DEF at
  <2> QED
    BY <1>2, <2>2, LeastElement
<1>3. ASSUME at # {}
      PROVE  FirstEvent(bd, b, i, l) =
               IF l \in ReadsAt(bd, b, CHOOSE j \in at : First(j)) THEN "read" ELSE "write"
  BY <1>3 DEF FirstEvent, Touching
<1>4. ASSUME at # {}
      PROVE  (CHOOSE j \in at : First(j)) \in at /\ First(CHOOSE j \in at : First(j))
  <2> HIDE DEF First
  <2> QED
    BY <1>2, <1>4
<1> QED
  BY <1>1, <1>3, <1>4

\* A block uses what is read in it first, and defines what is written first.
LEMMA UsedAndDefined ==
  ASSUME NEW bd \in Bodies, NEW b \in Blocks(bd), NEW l \in Locals(bd)
  PROVE  /\ l \in Used(bd, b) <=> FirstEvent(bd, b, 0, l) = "read"
         /\ l \in Defined(bd, b) <=> FirstEvent(bd, b, 0, l) = "write"
         /\ FirstEvent(bd, b, 0, l) \in {"read", "write", "none"}
<1> DEFINE at == Touching(bd, b, 0, l)
<1>1. Positions(bd, b) \subseteq Nat \ {0} /\ Len(Stmts(bd, b)) \in Nat
  BY BodiesAssumption DEF IsBody, Positions
<1>2. /\ at \subseteq Positions(bd, b)
      /\ \A j \in Positions(bd, b) :
           j \in at <=> l \in ReadsAt(bd, b, j) \/ l \in WritesAt(bd, b, j)
  BY <1>1 DEF Touching
<1>3. CASE at = {} /\ FirstEvent(bd, b, 0, l) = "none"
  BY <1>2, <1>3 DEF Used, Defined
<1>4. CASE \E j \in at : /\ \A k \in at : j <= k
                         /\ FirstEvent(bd, b, 0, l) =
                              IF l \in ReadsAt(bd, b, j) THEN "read" ELSE "write"
  <2>1. PICK j \in at : /\ \A k \in at : j <= k
                        /\ FirstEvent(bd, b, 0, l) =
                             IF l \in ReadsAt(bd, b, j) THEN "read" ELSE "write"
    BY <1>4
  <2>2. \A k \in 1 .. (j - 1) : k \in Positions(bd, b) /\ k \notin at
    BY <1>1, <1>2, <2>1 DEF Positions
  <2>3. CASE l \in ReadsAt(bd, b, j)
    <3>1. l \in Used(bd, b)
      BY <1>2, <2>1, <2>2, <2>3 DEF Used
    <3>2. l \notin Defined(bd, b)
      <4> SUFFICES ASSUME NEW k \in Positions(bd, b), l \in WritesAt(bd, b, k)
                   PROVE  \E m \in 1 .. k : l \in ReadsAt(bd, b, m)
        BY DEF Defined
      <4>1. j <= k /\ j \in 1 .. k
        BY <1>1, <1>2, <2>1
      <4> QED
        BY <2>3, <4>1
    <3> QED
      BY <2>1, <2>3, <3>1, <3>2
  <2>4. CASE l \notin ReadsAt(bd, b, j)
    <3>1. l \in WritesAt(bd, b, j)
      BY <1>2, <2>1, <2>4
    <3>2. \A k \in 1 .. j : l \notin ReadsAt(bd, b, k)
      <4> SUFFICES ASSUME NEW k \in 1 .. j, k # j PROVE l \notin ReadsAt(bd, b, k)
        BY <2>4
      <4>1. k \in 1 .. (j - 1)
        BY <1>1, <1>2, <2>1
      <4> QED
        BY <1>2, <2>2, <4>1
    <3>3. l \in Defined(bd, b)
      BY <1>2, <2>1, <3>1, <3>2 DEF Defined
    <3>4. l \notin Used(bd, b)
      <4> SUFFICES ASSUME NEW k \in Positions(bd, b), l \in ReadsAt(bd, b, k)
                   PROVE  \E m \in 1 .. (k - 1) : l \in WritesAt(bd, b, m)
        BY DEF Used
      <4>1. j <= k /\ j # k
        BY <1>2, <2>1, <2>4
      <4>2. j \in 1 .. (k - 1)
        BY <1>1, <1>2, <4>1
      <4> QED
        BY <3>1, <4>2
    <3> QED
      BY <2>1, <2>4, <3>3, <3>4
  <2> QED
    BY <2>3, <2>4
<1> QED
  BY <1>3, <1>4, FirstEventIs

\* So its equation keeps of what is live at its end what it does not touch.
LEMMA EquationAsEvents ==
  ASSUME NEW bd \in Bodies, NEW b \in Blocks(bd), NEW out \in SUBSET Locals(bd), NEW l \in Locals(bd)
  PROVE  l \in In(bd, out, b) <=> \/ <<b, l>> \in ReadFirst(bd)
                                  \/ <<b, l>> \in Untouched(bd) /\ l \in out
<1>1. <<b, l>> \in Pairs(bd) /\ <<b, l>>[1] = b /\ <<b, l>>[2] = l
  BY DEF Pairs
<1>2. /\ <<b, l>> \in ReadFirst(bd) <=> FirstEvent(bd, b, 0, l) = "read"
      /\ <<b, l>> \in Untouched(bd) <=> FirstEvent(bd, b, 0, l) = "none"
  BY <1>1 DEF ReadFirst, Untouched
<1> QED
  BY <1>2, UsedAndDefined DEF In

\* The rounds of LiveAtStart.
LEMMA RoundsOf ==
  ASSUME NEW bd \in Bodies
  PROVE  /\ Cardinality(Blocks(bd)) \in Nat /\ IsFiniteSet(Blocks(bd))
         /\ \E within \in [0 .. Cardinality(Blocks(bd)) -> SUBSET Pairs(bd)] :
              /\ within[0] = ReadFirst(bd)
              /\ \A k \in 1 .. Cardinality(Blocks(bd)) : within[k] = Round(bd, within[k - 1])
              /\ LiveAtStart(bd) = within[Cardinality(Blocks(bd))]
<1> DEFINE n == Cardinality(Blocks(bd))
           T == SUBSET Pairs(bd)
           step == [near \in T |-> Round(bd, near)]
           Unfolds(g) == g = [k \in 0 .. n |->
             IF k = 0 THEN ReadFirst(bd)
             ELSE LET near == g[k - 1]
                  IN  near \cup {p \in Untouched(bd) : \E b \in Succs(bd, p[1]) : <<b, p[2]>> \in near}]
<1>1. n \in Nat /\ IsFiniteSet(Blocks(bd))
  <2>1. Len(bd.blocks) \in Nat /\ Blocks(bd) = 1 .. Len(bd.blocks)
    BY GraphOf
  <2>2. IsFiniteSet(1 .. Len(bd.blocks))
    BY <2>1, FS_Interval
  <2> QED
    BY <2>1, <2>2, FS_CardinalityType
<1>2. step \in [T -> T] /\ ReadFirst(bd) \in T
  BY DEF Round, ReadFirst, Untouched
<1>3. PICK g \in [0 .. n -> T] :
        g = [k \in 0 .. n |-> IF k = 0 THEN ReadFirst(bd) ELSE step[g[k - 1]]]
  <2> HIDE DEF n, step, T
  <2> QED
    BY <1>1, <1>2, RecursionDefines
<1>4. Unfolds(g)
  <2>1. ASSUME NEW k \in 0 .. n, k # 0 PROVE step[g[k - 1]] = Round(bd, g[k - 1])
    <3>1. k - 1 \in 0 .. n
      BY <1>1, <2>1
    <3>2. g[k - 1] \in T
      BY <1>3, <3>1
    <3> QED
      BY <3>2
  <2>2. g = [k \in 0 .. n |-> IF k = 0 THEN ReadFirst(bd) ELSE Round(bd, g[k - 1])]
    <3> HIDE DEF n, step, T
    <3> QED
      BY <1>3, <2>1
  <2> QED
    BY <2>2 DEF Round
<1> DEFINE within == CHOOSE f : Unfolds(f)
<1>5. Unfolds(within)
  <2> HIDE DEF Unfolds
  <2> QED
    BY <1>4
<1>6. LiveAtStart(bd) = within[n]
  BY DEF LiveAtStart, ReadFirst, Untouched, Pairs
<1>7. /\ within = [k \in 0 .. n |-> IF k = 0 THEN ReadFirst(bd) ELSE Round(bd, within[k - 1])]
  BY <1>5 DEF Round
<1> HIDE DEF within, Unfolds
<1>8. \A k \in 0 .. n : within[k] \in T
  <2> DEFINE good == {k \in Nat : k \in 0 .. n => within[k] \in T}
  <2>1. 0 \in good
    BY <1>1, <1>2, <1>7
  <2>2. ASSUME NEW k \in Nat, k \in good PROVE k + 1 \in good
    <3> SUFFICES ASSUME k + 1 \in 0 .. n PROVE within[k + 1] \in T
      OBVIOUS
    <3>1. k \in 0 .. n /\ k + 1 # 0 /\ (k + 1) - 1 = k
      BY <1>1
    <3>2. within[k] \in T
      BY <2>2, <3>1
    <3>3. within[k + 1] = Round(bd, within[k])
      BY <1>7, <3>1
    <3> QED
      BY <1>2, <3>2, <3>3
  <2>3. Nat \subseteq good
    <3> HIDE DEF good
    <3> QED
      BY <2>1, <2>2, SetInduction
  <2> QED
    BY <1>1, <2>3
<1>9. /\ within[0] = ReadFirst(bd)
      /\ \A k \in 1 .. n : within[k] = Round(bd, within[k - 1])
  <2> HIDE DEF n
  <2> QED
    BY <1>1, <1>7
<1>10. within \in [0 .. n -> T]
  <2> HIDE DEF n, T
  <2> QED
    BY <1>7, <1>8
<1> QED
  BY <1>1, <1>6, <1>9, <1>10

\* The blocks at whose start l is live, for a set of pairs.
BlocksFor(bd, pairs, l) == {b \in Blocks(bd) : <<b, l>> \in pairs}

\* After the last round nothing is missing: each round that is not closed for
\* l adds a block, and there are no more blocks than rounds.
LEMMA RoundsSuffice ==
  ASSUME NEW bd \in Bodies
  PROVE  Round(bd, LiveAtStart(bd)) = LiveAtStart(bd)
<1> DEFINE n == Cardinality(Blocks(bd))
<1>0. n \in Nat /\ IsFiniteSet(Blocks(bd))
  BY RoundsOf
<1>1. PICK within \in [0 .. n -> SUBSET Pairs(bd)] :
        /\ within[0] = ReadFirst(bd)
        /\ \A k \in 1 .. n : within[k] = Round(bd, within[k - 1])
        /\ LiveAtStart(bd) = within[n]
  BY RoundsOf
<1> HIDE DEF n
<1> SUFFICES ASSUME NEW l \in Locals(bd)
             PROVE  BlocksFor(bd, Round(bd, within[n]), l) \subseteq BlocksFor(bd, within[n], l)
  <2>1. ASSUME NEW p \in Round(bd, within[n]) PROVE p \in within[n]
    <3>1. p \in Pairs(bd)
      BY <1>0, <1>1, <2>1 DEF Round, Untouched
    <3>2. PICK b \in Blocks(bd), l \in Locals(bd) : p = <<b, l>>
      BY <3>1 DEF Pairs
    <3>3. BlocksFor(bd, Round(bd, within[n]), l) \subseteq BlocksFor(bd, within[n], l)
      OBVIOUS
    <3> QED
      BY <2>1, <3>2, <3>3 DEF BlocksFor
  <2>2. Round(bd, within[n]) = within[n]
    BY <2>1 DEF Round
  <2> QED
    BY <1>1, <2>2
<1> DEFINE at(k) == BlocksFor(bd, within[k], l)
           Stable(k) == BlocksFor(bd, Round(bd, within[k]), l) \subseteq at(k)
           good == {k \in Nat : k \in 0 .. n => Stable(k) \/ Cardinality(at(k)) >= k}
<1>2. \A pairs : IsFiniteSet(BlocksFor(bd, pairs, l))
                 /\ Cardinality(BlocksFor(bd, pairs, l)) \in Nat
                 /\ Cardinality(BlocksFor(bd, pairs, l)) <= n
  <2> SUFFICES ASSUME NEW pairs
               PROVE  IsFiniteSet(BlocksFor(bd, pairs, l))
                      /\ Cardinality(BlocksFor(bd, pairs, l)) \in Nat
                      /\ Cardinality(BlocksFor(bd, pairs, l)) <= n
    OBVIOUS
  <2>1. BlocksFor(bd, pairs, l) \subseteq Blocks(bd)
    BY DEF BlocksFor
  <2> QED
    BY <1>0, <2>1, FS_Subset, FS_CardinalityType DEF n
<1>3. 0 \in good
  BY <1>2
<1>4. ASSUME NEW k \in Nat, k \in good PROVE k + 1 \in good
  <2> SUFFICES ASSUME k + 1 \in 0 .. n PROVE Stable(k + 1) \/ Cardinality(at(k + 1)) >= k + 1
    OBVIOUS
  <2>1. k \in 0 .. n /\ k + 1 \in 1 .. n /\ (k + 1) - 1 = k
    BY <1>0
  <2>2. within[k + 1] = Round(bd, within[k])
    BY <1>1, <2>1
  <2>3. at(k) \subseteq at(k + 1)
    BY <2>2 DEF Round, BlocksFor
  <2>4. CASE Stable(k)
    <3>1. at(k + 1) = at(k)
      BY <2>2, <2>3, <2>4
    <3>2. BlocksFor(bd, Round(bd, within[k + 1]), l) = BlocksFor(bd, Round(bd, within[k]), l)
      <4> SUFFICES ASSUME NEW b \in Blocks(bd)
                   PROVE  <<b, l>> \in Round(bd, within[k + 1]) <=> <<b, l>> \in Round(bd, within[k])
        BY DEF BlocksFor
      <4>1. \A c \in Blocks(bd) : <<c, l>> \in within[k + 1] <=> <<c, l>> \in within[k]
        BY <3>1 DEF BlocksFor
      <4>2. <<b, l>>[1] = b /\ <<b, l>>[2] = l /\ Succs(bd, b) \subseteq Blocks(bd)
        BY GraphOf
      <4> QED
        BY <4>1, <4>2 DEF Round
    <3> QED
      BY <2>4, <3>1, <3>2
  <2>5. CASE ~ Stable(k)
    <3>1. at(k) # at(k + 1)
      BY <2>2, <2>5
    <3>2. Cardinality(at(k)) >= k
      BY <1>4, <2>1, <2>5
    <3>3. /\ IsFiniteSet(at(k + 1)) /\ at(k) \in SUBSET at(k + 1)
          /\ Cardinality(at(k)) \in Nat /\ Cardinality(at(k + 1)) \in Nat
      BY <1>2, <2>3
    <3> HIDE DEF at
    <3>4. Cardinality(at(k)) <= Cardinality(at(k + 1)) /\ Cardinality(at(k)) # Cardinality(at(k + 1))
      BY <3>1, <3>3, FS_Subset
    <3> QED
      BY <3>2, <3>3, <3>4
  <2> QED
    BY <2>4, <2>5
<1>5. n \in good
  <2> HIDE DEF good
  <2> QED
    BY <1>0, <1>3, <1>4, SetInduction
<1>6. CASE Cardinality(at(n)) >= n
  <2>1. at(n) \subseteq Blocks(bd)
    BY DEF BlocksFor
  <2>2. Cardinality(at(n)) = n
    BY <1>0, <1>2, <1>6
  <2>3. at(n) = Blocks(bd)
    <3> HIDE DEF at
    <3> QED
      BY <1>0, <2>1, <2>2, FS_Subset DEF n
  <2> QED
    BY <2>3 DEF BlocksFor
<1> QED
  BY <1>0, <1>5, <1>6

\* LiveAtStart holds the pairs its comment says it does.
LEMMA StartsAre ==
  ASSUME NEW bd \in Bodies, NEW b \in Blocks(bd), NEW l \in Locals(bd)
  PROVE  <<b, l>> \in LiveAtStart(bd) <=>
           \/ <<b, l>> \in ReadFirst(bd)
           \/ <<b, l>> \in Untouched(bd) /\ \E s \in Succs(bd, b) : <<s, l>> \in LiveAtStart(bd)
<1> DEFINE n == Cardinality(Blocks(bd))
<1>0. n \in Nat
  BY RoundsOf
<1>1. PICK within \in [0 .. n -> SUBSET Pairs(bd)] :
        /\ within[0] = ReadFirst(bd)
        /\ \A k \in 1 .. n : within[k] = Round(bd, within[k - 1])
        /\ LiveAtStart(bd) = within[n]
  BY RoundsOf
<1> HIDE DEF n
<1> DEFINE From(k) == ReadFirst(bd) \subseteq within[k]
           Earlier(k) == \A p \in within[k] \ ReadFirst(bd) :
                           p \in Untouched(bd) /\ \E s \in Succs(bd, p[1]) : <<s, p[2]>> \in within[k]
           good == {k \in Nat : k \in 0 .. n => From(k) /\ Earlier(k)}
<1>2. 0 \in good
  BY <1>1
<1>3. ASSUME NEW k \in Nat, k \in good PROVE k + 1 \in good
  <2> SUFFICES ASSUME k + 1 \in 0 .. n PROVE From(k + 1) /\ Earlier(k + 1)
    OBVIOUS
  <2>1. k \in 0 .. n /\ k + 1 \in 1 .. n /\ (k + 1) - 1 = k
    BY <1>0
  <2>2. within[k + 1] = Round(bd, within[k]) /\ From(k) /\ Earlier(k)
    BY <1>1, <1>3, <2>1
  <2> QED
    BY <2>2 DEF Round
<1>4. n \in good
  <2> HIDE DEF good
  <2> QED
    BY <1>0, <1>2, <1>3, SetInduction
<1>5. <<b, l>>[1] = b /\ <<b, l>>[2] = l
  OBVIOUS
<1>6. Round(bd, LiveAtStart(bd)) = LiveAtStart(bd)
  BY RoundsSuffice
<1>7. From(n) /\ Earlier(n)
  BY <1>0, <1>4
<1> HIDE DEF From, Earlier
<1>8. /\ ReadFirst(bd) \subseteq LiveAtStart(bd)
      /\ \A p \in LiveAtStart(bd) \ ReadFirst(bd) :
           p \in Untouched(bd) /\ \E s \in Succs(bd, p[1]) : <<s, p[2]>> \in LiveAtStart(bd)
  BY <1>1, <1>7 DEF From, Earlier
<1>9. \A p \in Untouched(bd) :
        (\E s \in Succs(bd, p[1]) : <<s, p[2]>> \in LiveAtStart(bd)) => p \in LiveAtStart(bd)
  BY <1>6 DEF Round
<1> QED
  BY <1>5, <1>8, <1>9

\* Live at the start of a block is what is read there first, and what is not
\* touched there and live at the start of a successor.
LEMMA LiveAtStartIs ==
  ASSUME NEW bd \in Bodies
  PROVE  /\ PathLiveIn(bd) \in [Blocks(bd) -> SUBSET Locals(bd)]
         /\ \A b \in Blocks(bd) : PathLiveIn(bd)[b] = In(bd, Out(bd, PathLiveIn(bd), b), b)
<1> DEFINE in == PathLiveIn(bd)
<1>1. /\ in \in [Blocks(bd) -> SUBSET Locals(bd)]
      /\ \A b \in Blocks(bd) : \A l \in Locals(bd) : l \in in[b] <=> <<b, l>> \in LiveAtStart(bd)
  BY DEF PathLiveIn
<1> HIDE DEF in
<1>2. ASSUME NEW b \in Blocks(bd), NEW l \in Locals(bd)
      PROVE  l \in in[b] <=> l \in In(bd, Out(bd, in, b), b)
  <2>1. Out(bd, in, b) \in SUBSET Locals(bd)
    BY <1>1, EquationsTyped
  <2>2. l \in Out(bd, in, b) <=> \E s \in Succs(bd, b) : <<s, l>> \in LiveAtStart(bd)
    BY <1>1, GraphOf DEF Out
  <2>3. <<b, l>> \in LiveAtStart(bd) <=>
          \/ <<b, l>> \in ReadFirst(bd)
          \/ <<b, l>> \in Untouched(bd) /\ \E s \in Succs(bd, b) : <<s, l>> \in LiveAtStart(bd)
    BY StartsAre
  <2> QED
    BY <1>1, <2>1, <2>2, <2>3, EquationAsEvents
<1>3. \A b \in Blocks(bd) : in[b] = In(bd, Out(bd, in, b), b)
  <2> SUFFICES ASSUME NEW b \in Blocks(bd) PROVE in[b] = In(bd, Out(bd, in, b), b)
    OBVIOUS
  <2>1. in[b] \subseteq Locals(bd) /\ In(bd, Out(bd, in, b), b) \subseteq Locals(bd)
    BY <1>1, EquationsTyped
  <2> QED
    BY <1>2, <2>1
<1> QED
  BY <1>1, <1>3 DEF in

\* What any solution of the equations says of a local at least.
LEMMA StartsAreLeast ==
  ASSUME NEW bd \in Bodies, NEW in \in [Blocks(bd) -> SUBSET Locals(bd)],
         \A b \in Blocks(bd) : In(bd, Out(bd, in, b), b) \subseteq in[b]
  PROVE  \A b \in Blocks(bd) : PathLiveIn(bd)[b] \subseteq in[b]
<1> DEFINE n == Cardinality(Blocks(bd))
<1>0. n \in Nat
  BY RoundsOf
<1>1. PICK within \in [0 .. n -> SUBSET Pairs(bd)] :
        /\ within[0] = ReadFirst(bd)
        /\ \A k \in 1 .. n : within[k] = Round(bd, within[k - 1])
        /\ LiveAtStart(bd) = within[n]
  BY RoundsOf
<1> HIDE DEF n
<1> DEFINE Below(pairs) == \A b \in Blocks(bd) : \A l \in Locals(bd) : <<b, l>> \in pairs => l \in in[b]
           good == {k \in Nat : k \in 0 .. n => Below(within[k])}
<1>2. ASSUME NEW b \in Blocks(bd), NEW l \in Locals(bd),
             \/ <<b, l>> \in ReadFirst(bd)
             \/ <<b, l>> \in Untouched(bd) /\ \E s \in Succs(bd, b) : l \in in[s]
      PROVE  l \in in[b]
  <2>1. Out(bd, in, b) \in SUBSET Locals(bd)
    BY EquationsTyped
  <2>2. (\E s \in Succs(bd, b) : l \in in[s]) => l \in Out(bd, in, b)
    BY DEF Out
  <2> QED
    BY <1>2, <2>1, <2>2, EquationAsEvents
<1>3. 0 \in good
  BY <1>1, <1>2
<1>4. ASSUME NEW k \in Nat, k \in good PROVE k + 1 \in good
  <2> SUFFICES ASSUME k + 1 \in 0 .. n PROVE Below(within[k + 1])
    OBVIOUS
  <2>1. k \in 0 .. n /\ k + 1 \in 1 .. n /\ (k + 1) - 1 = k
    BY <1>0
  <2>2. within[k + 1] = Round(bd, within[k]) /\ Below(within[k])
    BY <1>1, <1>4, <2>1
  <2> SUFFICES ASSUME NEW b \in Blocks(bd), NEW l \in Locals(bd), <<b, l>> \in Round(bd, within[k])
               PROVE  l \in in[b]
    BY <2>2
  <2>3. <<b, l>>[1] = b /\ <<b, l>>[2] = l /\ Succs(bd, b) \subseteq Blocks(bd)
    BY GraphOf
  <2> QED
    BY <1>2, <2>2, <2>3 DEF Round
<1>5. n \in good
  <2> HIDE DEF good
  <2> QED
    BY <1>0, <1>3, <1>4, SetInduction
<1> QED
  BY <1>0, <1>1, <1>5 DEF PathLiveIn

\* When compute returns, live_in and live_out are path liveness.
LEMMA SolvedIsPathLiveness ==
  ASSUME Inductive, \A b \in Blocks(body) : Solved(b)
  PROVE  live_in = PathLiveIn(body) /\ live_out = PathLiveOut(body)
<1>1. /\ body \in Bodies
      /\ live_in \in [Blocks(body) -> SUBSET Locals(body)]
      /\ live_out \in [Blocks(body) -> SUBSET Locals(body)]
  BY DEF Inductive, Shape, TypeOK
<1>2. \A b \in Blocks(body) : /\ live_in[b] = In(body, Out(body, live_in, b), b)
                              /\ live_out[b] = Out(body, live_in, b)
  BY DEF Solved
<1>3. /\ PathLiveIn(body) \in [Blocks(body) -> SUBSET Locals(body)]
      /\ Closed(PathLiveIn(body))
  BY <1>1, LiveAtStartIs DEF Closed
<1>4. \A b \in Blocks(body) : live_in[b] \subseteq PathLiveIn(body)[b]
  BY <1>3 DEF Inductive, Least
<1>5. \A b \in Blocks(body) : PathLiveIn(body)[b] \subseteq live_in[b]
  BY <1>1, <1>2, StartsAreLeast
<1>6. live_in = PathLiveIn(body)
  <2>1. \A b \in Blocks(body) : live_in[b] = PathLiveIn(body)[b]
    BY <1>4, <1>5
  <2> QED
    BY <1>1, <1>3, <2>1
<1>7. live_out = PathLiveOut(body)
  <2>1. PathLiveOut(body) = [b \in Blocks(body) |-> Out(body, live_in, b)]
    BY <1>6 DEF PathLiveOut
  <2> QED
    BY <1>1, <1>2, <2>1
<1> QED
  BY <1>6, <1>7

\* A use that some path makes after a position is one the query sees.
LEMMA QuerySeesPaths ==
  ASSUME NEW bd \in Bodies, NEW b \in Blocks(bd), NEW i, NEW l, NEW out,
         PathLiveAfter(bd, out, b, i, l)
  PROVE  IsLiveAfter(bd, out, b, i, l)
<1>1. CASE FirstEvent(bd, b, i, l) = "read"
  BY <1>1, FirstEventIs DEF Touching, IsLiveAfter
<1> QED
  BY <1>1 DEF PathLiveAfter, IsLiveAfter

\* When compute returns, its sets are exactly path liveness, and the query the
\* borrow checker makes misses no position at which some path still reads the
\* local.
THEOREM ExactLiveness == Spec => []ExactWhenDone
<1>1. Inductive /\ LeastSolution => ExactWhenDone
  <2> SUFFICES ASSUME Inductive, LeastSolution, done
               PROVE  LET out == PathLiveOut(body) IN
                      /\ live_in = PathLiveIn(body)
                      /\ live_out = out
                      /\ \A b \in Blocks(body) : \A i \in Positions(body, b) : \A l \in Locals(body) :
                           PathLiveAfter(body, out, b, i, l) => IsLiveAfter(body, live_out, b, i, l)
    BY DEF ExactWhenDone
  <2>1. live_in = PathLiveIn(body) /\ live_out = PathLiveOut(body)
    BY SolvedIsPathLiveness DEF LeastSolution
  <2>2. body \in Bodies
    BY DEF Inductive, Shape
  <2> QED
    BY <2>1, <2>2, QuerySeesPaths
<1> QED
  BY <1>1, InductiveHolds, ReturnsLeastSolution, PTL
=============================================================================
