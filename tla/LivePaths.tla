------------------------------ MODULE LivePaths ------------------------------
(***************************************************************************)
(* Liveness of the locals of a body as a statement about the paths of its  *)
(* graph, and the query the borrow checker asks: is_live_after of          *)
(* triet-borrowck/src/liveness.rs.  Liveness.tla models how the code       *)
(* computes the sets and compares them with these.                         *)
(***************************************************************************)
EXTENDS Mir

\* What is live at the end of b: what is live at the start of a successor.
Out(bd, in, b) == UNION {in[s] : s \in Succs(bd, b)}

\* Is l live after position i of block b, given the computed exit sets?
IsLiveAfter(bd, out, b, i, l) ==
  \/ \E j \in Positions(bd, b) : j > i /\ l \in ReadsAt(bd, b, j)
  \/ l \in out[b]

(***************************************************************************)
(* The reference: liveness as a statement about paths.  Position i of      *)
(* block b is followed by the rest of b and then by any path; l is live    *)
(* there iff some path reads l before writing it.                          *)
(***************************************************************************)
FirstEvent(bd, b, i, l) ==
  LET at == {j \in Positions(bd, b) : j > i /\ l \in ReadsAt(bd, b, j) \cup WritesAt(bd, b, j)}
  IN IF at = {} THEN "none"
     ELSE LET j == CHOOSE j \in at : \A k \in at : j <= k
          IN IF l \in ReadsAt(bd, b, j) THEN "read" ELSE "write"

\* The pairs <<b, l>> such that l is live at the start of b: l is read there
\* first, or nothing touches it and it is live at the start of a successor.
LiveAtStart(bd) ==
  LET all     == Blocks(bd) \X Locals(bd)
      read    == {p \in all : FirstEvent(bd, p[1], 0, p[2]) = "read"}
      through == {p \in all : FirstEvent(bd, p[1], 0, p[2]) = "none"}
      within[k \in 0 .. Cardinality(Blocks(bd))] ==
        IF k = 0 THEN read
        ELSE LET near == within[k-1]
             IN near \cup {p \in through : \E b \in Succs(bd, p[1]) : <<b, p[2]>> \in near}
  IN within[Cardinality(Blocks(bd))]

PathLiveIn(bd) ==
  LET live == LiveAtStart(bd)
  IN [b \in Blocks(bd) |-> {l \in Locals(bd) : <<b, l>> \in live}]
PathLiveOut(bd) ==
  LET in == PathLiveIn(bd) IN [b \in Blocks(bd) |-> Out(bd, in, b)]

PathLiveAfter(bd, out, b, i, l) ==
  \/ FirstEvent(bd, b, i, l) = "read"
  \/ (FirstEvent(bd, b, i, l) = "none" /\ l \in out[b])
=============================================================================
