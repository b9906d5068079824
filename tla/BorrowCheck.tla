------------------------------ MODULE BorrowCheck ------------------------------
(***************************************************************************)
(* The forward dataflow of the borrow checker: check_body_with of          *)
(* triet-borrowck/src/checker.rs.  The successors of the entry block are   *)
(* queued and the entry block is walked; then the queue is drained, each   *)
(* block merging the exit states of its predecessors, and a block whose    *)
(* exit state changes queues its successors.                               *)
(***************************************************************************)
EXTENDS Ownership

\* The lowering never emits an edge back to the entry block.
ASSUME EntryAssumption == \A bd \in Bodies : \A b \in Blocks(bd) : Entry \notin Succs(bd, b)

VARIABLES
  body,       \* the body under check, fixed by Init
  live_out,   \* its liveness, computed first (Liveness.tla)
  entry,      \* block -> entry state
  exit,       \* block -> exit state
  worklist,   \* the queue of blocks
  pushing,    \* successors still to be queued by the loop that queues them
  started,    \* has the entry block been walked?
  errors,     \* the codes reported so far
  walked      \* history: the blocks that have been walked

checker == <<body, live_out, entry, exit, worklist, pushing, started, errors, walked>>

Elements(seq) == {seq[i] : i \in DOMAIN seq}

\* What merging the predecessors gives as the entry state of b now.
Merged(b) == Merge(body, InEdges(body, b), exit)

-----------------------------------------------------------------------------
Init ==
  /\ body \in Bodies
  /\ live_out = PathLiveOut(body)
  /\ entry = [b \in Blocks(body) |-> IF b = Entry THEN Initial(body) ELSE Nothing(body)]
  /\ exit  = [b \in Blocks(body) |-> Nothing(body)]
  /\ worklist = <<>>
  /\ pushing = Succ(body, Entry)
  /\ started = FALSE
  /\ errors = {}
  /\ walked = {}

\* One turn of the loop over the successors: a block is queued once.
QueueSuccessor ==
  /\ pushing # <<>>
  /\ worklist' = IF Head(pushing) \in Elements(worklist) THEN worklist
                 ELSE Append(worklist, Head(pushing))
  /\ pushing' = Tail(pushing)
  /\ UNCHANGED <<body, live_out, entry, exit, started, errors, walked>>

\* The entry block is walked once; its exit state is stored as it is.
WalkEntry ==
  /\ pushing = <<>> /\ ~started
  /\ started' = TRUE
  /\ \E st \in {ProcessBlock(body, live_out, Entry, entry[Entry])} :
        /\ exit' = [exit EXCEPT ![Entry] = Known(st)]
        /\ errors' = errors \cup st.errs
  /\ walked' = walked \cup {Entry}
  /\ UNCHANGED <<body, live_out, entry, worklist, pushing>>

Popping == pushing = <<>> /\ started /\ worklist # <<>>

\* The merged entry state is the one already stored: nothing to do.
SkipBlock ==
  /\ Popping
  /\ Merged(Head(worklist)) = entry[Head(worklist)]
  /\ worklist' = Tail(worklist)
  /\ UNCHANGED <<body, live_out, entry, exit, pushing, started, errors, walked>>

\* Seeded defect: a change of the moved-out paths alone is not a change.
WalkBlockIgnoringPaths ==
  /\ Popping
  /\ LET b == Head(worklist) IN
     \E st \in {ProcessBlock(body, live_out, b, Merged(b))} :
        /\ Merged(b) # entry[b]
        /\ entry' = [entry EXCEPT ![b] = Merged(b)]
        /\ errors' = errors \cup st.errs
        /\ walked' = walked \cup {b}
        /\ IF st.vs = exit[b].vs /\ st.loans = exit[b].loans THEN UNCHANGED <<exit, pushing>>
           ELSE /\ exit' = [exit EXCEPT ![b] = Known(st)]
                /\ pushing' = Succ(body, b)
  /\ worklist' = Tail(worklist)
  /\ UNCHANGED <<body, live_out, started>>

\* Seeded defect: neither the entry nor the exit state is compared.
WalkBlockAlways ==
  /\ Popping
  /\ LET b == Head(worklist) IN
     \E st \in {ProcessBlock(body, live_out, b, Merged(b))} :
        /\ entry' = [entry EXCEPT ![b] = Merged(b)]
        /\ errors' = errors \cup st.errs
        /\ walked' = walked \cup {b}
        /\ exit' = [exit EXCEPT ![b] = Known(st)]
        /\ pushing' = Succ(body, b)
  /\ worklist' = Tail(worklist)
  /\ UNCHANGED <<body, live_out, started>>

\* Seeded defect: what a walk reports is kept only if the exit state changed.
WalkBlockReportingChanges ==
  /\ Popping
  /\ LET b == Head(worklist) IN
     \E st \in {ProcessBlock(body, live_out, b, Merged(b))} :
        /\ Merged(b) # entry[b]
        /\ entry' = [entry EXCEPT ![b] = Merged(b)]
        /\ walked' = walked \cup {b}
        /\ IF Known(st) = exit[b] THEN UNCHANGED <<exit, pushing, errors>>
           ELSE /\ exit' = [exit EXCEPT ![b] = Known(st)]
                /\ pushing' = Succ(body, b)
                /\ errors' = errors \cup st.errs
  /\ worklist' = Tail(worklist)
  /\ UNCHANGED <<body, live_out, started>>

\* A new entry state: walk the block; if its exit state changed, store it
\* and queue the successors.
WalkBlock ==
  /\ Popping
  /\ LET b == Head(worklist) IN
     \E st \in {ProcessBlock(body, live_out, b, Merged(b))} :
        /\ Merged(b) # entry[b]
        /\ entry' = [entry EXCEPT ![b] = Merged(b)]
        /\ errors' = errors \cup st.errs
        /\ walked' = walked \cup {b}
        /\ IF Known(st) = exit[b] THEN UNCHANGED <<exit, pushing>>
           ELSE /\ exit' = [exit EXCEPT ![b] = Known(st)]
                /\ pushing' = Succ(body, b)
  /\ worklist' = Tail(worklist)
  /\ UNCHANGED <<body, live_out, started>>

CheckNext == QueueSuccessor \/ WalkEntry \/ SkipBlock \/ WalkBlock

Checked  == started /\ pushing = <<>> /\ worklist = <<>>
Accepted == Checked /\ errors = {}

Spec == Init /\ [][CheckNext]_checker

\* check_body is one thread running a loop.
FairSpec == Spec /\ WF_checker(CheckNext)

-----------------------------------------------------------------------------
(* Properties *)

IsLoan(m) ==
  /\ m.source.local \in Locals(body) /\ m.dest \in Locals(body)
  /\ m.form \in Forms /\ m.prop \in BOOLEAN /\ m.at[1] \in Blocks(body)

IsState(st) ==
  /\ st.vs \in [Locals(body) -> VarStates]
  /\ \A m \in st.loans : IsLoan(m)
  /\ DOMAIN st.pm = Locals(body)

\* Types of the variables.
TypeOK ==
  /\ live_out \in [Blocks(body) -> SUBSET Locals(body)]
  /\ DOMAIN entry = Blocks(body) /\ \A b \in Blocks(body) : IsState(entry[b])
  /\ DOMAIN exit = Blocks(body) /\ \A b \in Blocks(body) : IsState(exit[b])
  /\ Elements(worklist) \subseteq Blocks(body)
  /\ Elements(pushing) \subseteq Blocks(body)
  /\ started \in BOOLEAN
  /\ errors \subseteq Codes
  /\ walked \subseteq Blocks(body)

\* When the queue is empty the states are a solution of the dataflow
\* equations: every entry state is the merge of the predecessors' exit
\* states, and every walked block was last walked from its entry state.
\* A block left out of the queue after a late change would break it.
AtFixpoint ==
  Checked => \A b \in Blocks(body) :
               /\ b # Entry => entry[b] = Merged(b)
               /\ b \in walked => exit[b] = Known(ProcessBlock(body, live_out, b, entry[b]))

\* The queue holds a block at most once (in_worklist), however many
\* predecessors change while it waits.
QueuedOnce == \A i, j \in DOMAIN worklist : worklist[i] = worklist[j] => i = j

\* No error of a final state is lost: what walking a block from its final
\* entry state reports has been reported, although the block may have been
\* walked from other states before and its last walk changed nothing.
NoErrorLost ==
  Checked => \A b \in walked : ProcessBlock(body, live_out, b, entry[b]).errs \subseteq errors

\* The verdict is that of the final states: a body is rejected only if a
\* walk from a final entry state still reports something, so the order in
\* which blocks were visited before the states settled does not decide.
\* (Not so where a reference that is borrowed through gets its first loan late.)
VerdictIsFinal ==
  Checked /\ errors # {} =>
    \E b \in walked : ProcessBlock(body, live_out, b, entry[b]).errs # {}

\* check_body returns although blocks of a loop are walked again and again.
Converges == <>Checked

\* "This guarantees we never miss an error" (the comment of merge): every
\* block the entry reaches has been walked when the checker returns.
ReachableBlocks ==
  LET closed == {some \in SUBSET Blocks(body) :
                   Entry \in some /\ \A b \in some : Succs(body, b) \subseteq some}
  IN  {b \in Blocks(body) : \A some \in closed : b \in some}

EveryReachableBlockWalked == Checked => ReachableBlocks \subseteq walked
=============================================================================
