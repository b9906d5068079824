------------------------------- MODULE Liveness -------------------------------
(***************************************************************************)
(* Backward liveness of the locals of a body: LivenessResult::compute and  *)
(* is_live_after of triet-borrowck/src/liveness.rs.  The computation       *)
(* sweeps the blocks in order, recomputing live_out and then live_in of    *)
(* each in place, and sweeps again until one whole sweep changes nothing.  *)
(***************************************************************************)
EXTENDS LivePaths

VARIABLES
  body,       \* the body under analysis, fixed by Init
  live_in,    \* block -> locals live at its entry
  live_out,   \* block -> locals live at its exit
  next,       \* the block the sweep visits next
  changed,    \* has this sweep changed any set?
  done

vars == <<body, live_in, live_out, next, changed, done>>

(***************************************************************************)
(* used: read before written in the block.  defined: written before read.  *)
(* The reads of a statement come before its writes.                        *)
(***************************************************************************)
Used(bd, b) ==
  {l \in Locals(bd) :
     \E i \in Positions(bd, b) :
       /\ l \in ReadsAt(bd, b, i)
       /\ \A j \in 1 .. (i - 1) : l \notin WritesAt(bd, b, j)}

Defined(bd, b) ==
  {l \in Locals(bd) :
     \E i \in Positions(bd, b) :
       /\ l \in WritesAt(bd, b, i)
       /\ \A j \in 1 .. i : l \notin ReadsAt(bd, b, j)}

In(bd, out, b) == Used(bd, b) \cup (out \ Defined(bd, b))

-----------------------------------------------------------------------------
Init ==
  /\ body \in Bodies
  /\ live_in  = [b \in Blocks(body) |-> {}]
  /\ live_out = [b \in Blocks(body) |-> {}]
  /\ next = 1
  /\ changed = FALSE
  /\ done = FALSE

\* One turn of the for loop over the blocks.
SweepBlock ==
  /\ ~done
  /\ next \in Blocks(body)
  /\ LET out == Out(body, live_in, next)
         in  == In(body, out, next)
     IN /\ live_out' = [live_out EXCEPT ![next] = out]
        /\ live_in'  = [live_in EXCEPT ![next] = in]
        /\ changed'  = (changed \/ out # live_out[next] \/ in # live_in[next])
  /\ next' = next + 1
  /\ UNCHANGED <<body, done>>

\* Seeded defect: one sweep is taken to be enough.
EndFirstSweep ==
  /\ ~done
  /\ next \notin Blocks(body)
  /\ done' = TRUE
  /\ UNCHANGED <<body, live_in, live_out, next, changed>>

\* Seeded defect: changed is not reset between sweeps.
EndSweepStillChanged ==
  /\ ~done
  /\ next \notin Blocks(body)
  /\ IF changed THEN next' = 1 /\ UNCHANGED done ELSE done' = TRUE /\ UNCHANGED next
  /\ UNCHANGED <<body, live_in, live_out, changed>>

\* The sweep is over: stop if it changed nothing, otherwise sweep again.
EndSweep ==
  /\ ~done
  /\ next \notin Blocks(body)
  /\ IF changed THEN next' = 1 /\ changed' = FALSE /\ UNCHANGED done
                ELSE done' = TRUE /\ UNCHANGED <<next, changed>>
  /\ UNCHANGED <<body, live_in, live_out>>

Next == SweepBlock \/ EndSweep

Spec == Init /\ [][Next]_vars

\* compute is one thread running a loop: a step that can be taken is taken.
FairSpec == Spec /\ WF_vars(Next)

-----------------------------------------------------------------------------
(* Properties *)

\* Types of the variables.
TypeOK ==
  /\ live_in \in [Blocks(body) -> SUBSET Locals(body)]
  /\ live_out \in [Blocks(body) -> SUBSET Locals(body)]
  /\ next \in 1 .. Len(body.blocks) + 1
  /\ changed \in BOOLEAN
  /\ done \in BOOLEAN

\* When compute returns, live_in and live_out are exactly path liveness: no
\* local that some path still reads is missing (a loan would end too early)
\* and none is kept that every path overwrites or ignores.  What a loan relies
\* on follows: is_live_after answers yes for every statement index at which
\* some path still reads the local, in the middle of a block as at its end.
ExactWhenDone ==
  done => LET out == PathLiveOut(body) IN
          /\ live_in = PathLiveIn(body)
          /\ live_out = out
          /\ \A b \in Blocks(body) : \A i \in Positions(body, b) : \A l \in Locals(body) :
               PathLiveAfter(body, out, b, i, l) => IsLiveAfter(body, live_out, b, i, l)

\* The sets only grow: a sweep never forgets a local, although a block is
\* recomputed from scratch on every visit.
OnlyGrows ==
  [][\A b \in Blocks(body) : /\ live_in[b] \subseteq live_in'[b]
                             /\ live_out[b] \subseteq live_out'[b]]_vars

\* compute returns: the sweeps reach one that changes nothing.
Converges == <>done
=============================================================================
