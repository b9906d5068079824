------------------------------- MODULE BorrowRun -------------------------------
(***************************************************************************)
(* What the borrow checker promises.  Once a body has been checked and     *)
(* accepted it is run, along every path of its graph: the run keeps, for   *)
(* each local, whether its value is still here, which of its fields are    *)
(* gone and, for a reference, the place it points to and what became of    *)
(* it.  The run stops at the first read of something that is gone.         *)
(*                                                                         *)
(* The run stands for the compiled program (triet-jit); it knows nothing   *)
(* of loans, liveness or merges.                                           *)
(***************************************************************************)
EXTENDS BorrowCheck

VARIABLES
  pc,       \* <<block, position>>; <<0, 0>> until the body is accepted
  here,     \* local -> is its value here (not moved away)?
  holes,    \* local -> field paths moved out of it
  target,   \* reference -> the place it points to; Nowhere if it tracks none
  mode,     \* reference -> the form it was made with
  stale,    \* reference -> what became of its target: "no" if nothing
  bad       \* the first bad read: "no", "gone", or the staleness it met

machine == <<pc, here, holes, target, mode, stale, bad>>
vars == <<checker, machine>>

Nowhere == [nowhere |-> TRUE]
Stopped == <<0, 0>>
Causes == {"ended", "moved", "mutated", "aliased", "passed", "field"}

Refs == {l \in Locals(body) : body.ty[l] = "Ref"}
Owner(l) == l \in Locals(body) /\ body.ty[l] # "Ref"

-----------------------------------------------------------------------------
(* What the run does to references *)

\* One path leads to a part of what the other leads to.
Within(p, q) == Len(q) <= Len(p) /\ \A k \in DOMAIN q : p[k] = q[k]
Comparable(p, q) == Within(p, q) \/ Within(q, p)

\* Two places share storage: one path leads into the other.
Overlap(p, q) == Nowhere \notin {p, q} /\ p.local = q.local /\ Comparable(p.proj, q.proj)

\* The references in rs that point at p go stale for the given cause.
Spoil(p, rs, cause) ==
  [r \in Locals(body) |->
     IF r \in rs /\ stale[r] = "no" /\ Overlap(target[r], p) THEN cause ELSE stale[r]]

\* The place a borrow points to: through a reference, into its target.  A
\* reference kept in a field is not followed.
TargetOf(p) ==
  IF ~HasDeref(p) THEN p
  ELSE IF p.local \notin Refs \/ target[p.local] = Nowhere THEN Nowhere
  ELSE [local |-> target[p.local].local, proj |-> target[p.local].proj \o Tail(p.proj)]

\* A local that is written as a whole forgets the place it pointed to.
Forgets(l) == target' = [target EXCEPT ![l] = Nowhere] /\ stale' = [stale EXCEPT ![l] = "no"]

\* Reading p is bad if it, a part of it or the whole of it is gone, or if
\* it is or goes through a stale reference.
ReadsGone(p) ==
  \/ ~here[p.local]
  \/ \E h \in holes[p.local] : Comparable(IF IsFieldPath(p.proj) THEN p.proj ELSE <<>>, h)

Verdict(places) ==
  IF \E p \in places : ReadsGone(p) THEN "gone"
  ELSE IF \E p \in places : p.local \in Refs /\ stale[p.local] # "no"
       THEN stale[(CHOOSE p \in places : p.local \in Refs /\ stale[p.local] # "no").local]
       ELSE "no"

UsedPlaces(s) ==
  CASE s.op \in {"Assign", "Borrow"} -> {s.src}
    [] s.op \in {"BinaryOp", "GetDiscriminant"} -> s.srcs
    [] OTHER -> {}

-----------------------------------------------------------------------------
(***************************************************************************)
(* What the lowering guarantees of the bodies it emits, and the run relies *)
(* on.  Places name locals (the verifier's check_local).  A part of a      *)
(* value is filled only while the rest is there: only names can be         *)
(* assigned to, so the lowering fills fields of a value it has just laid   *)
(* out (parse_assignment, StructLiteral), and a reference has no parts to  *)
(* fill or lay out.  And no local is read whose storage has ended.         *)
(***************************************************************************)
IsPlace(bd, p) == p.local \in Locals(bd) /\ p.proj \in Seq(0 .. 99)

PlacesFit(bd) ==
  \A b \in Blocks(bd) :
    /\ TermReads(bd, b) \subseteq Locals(bd)
    /\ IsCall(Term(bd, b)) => /\ Len(Succ(bd, b)) = 1 /\ Term(bd, b).kind \in {"Jit", "Builtin"}
                              /\ Term(bd, b).dest \in Seq(Locals(bd))
    /\ \A i \in 1 .. Len(Stmts(bd, b)) :
         LET s == Stmts(bd, b)[i]
         IN  /\ s.op \in {"StorageLive", "StorageDead", "Drop", "Deinit"} => s.local \in Locals(bd)
             /\ s.op \in {"Assign", "Borrow", "Const", "BinaryOp", "GetDiscriminant"}
                  => IsPlace(bd, s.dest)
             /\ s.op = "Alloc" \/ (s.op = "Assign" /\ s.dest.proj # <<>>)
                  => bd.ty[s.dest.local] # "Ref"
             /\ \A p \in UsedPlaces(s) : IsPlace(bd, p)

\* The positions of b that take l away, end its storage, or renew it.
Takes(bd, b, l) ==
  {i \in 1 .. Len(Stmts(bd, b)) :
     LET s == Stmts(bd, b)[i]
     IN  \/ s.op = "Deinit" /\ s.local = l
         \/ s.op = "Borrow" /\ s.form \in Strong /\ s.src.local = l
         \/ s.op = "Assign" /\ MovesWhole(bd, s) /\ s.src.local = l}
  \cup {i \in {Len(Stmts(bd, b)) + 1} :
          /\ IsCall(Term(bd, b))
          /\ \E k \in Taken(bd, Term(bd, b)) : ArgAt(Term(bd, b), k) = l}

Ends(bd, b, l) ==
  {i \in 1 .. Len(Stmts(bd, b)) : Stmts(bd, b)[i].op = "StorageDead" /\ Stmts(bd, b)[i].local = l}

Renews(bd, b, l) ==
  {i \in 1 .. Len(Stmts(bd, b)) :
     LET s == Stmts(bd, b)[i]
     IN  \/ s.op = "StorageLive" /\ s.local = l
         \/ s.op = "Assign" /\ s.dest.local = l /\ s.dest.proj = <<>>
         \/ s.op \in {"Borrow", "Const", "BinaryOp", "GetDiscriminant"} /\ s.dest.local = l}
  \cup {i \in {Len(Stmts(bd, b)) + 1} : IsCall(Term(bd, b)) /\ l \in Elements(Term(bd, b).dest)}

FillsPart(s, l) == s.op = "Assign" /\ s.dest.local = l /\ s.dest.proj # <<>>

\* Has one of the given positions of a block come before i and no renewal
\* since?  Or no renewal at all, if it had at the start of the block?
Since(positions, renewals, i, before) ==
  \/ \E j \in positions : j < i /\ \A k \in renewals : k < i => k < j
  \/ before /\ \A k \in renewals : ~ (k < i)

\* at holds the blocks at whose start it may have.
Spreads(bd, positions, renewals, at) ==
  \A b \in Blocks(bd) : \A next \in Succs(bd, b) :
    Since(positions[b], renewals[b], Len(Stmts(bd, b)) + 2, b \in at) => next \in at

TakenIn(bd, l)   == [b \in Blocks(bd) |-> Takes(bd, b, l)]
EndedIn(bd, l)   == [b \in Blocks(bd) |-> Ends(bd, b, l)]
RenewedIn(bd, l) == [b \in Blocks(bd) |-> Renews(bd, b, l)]

FilledWhileThere(bd, l, at) ==
  /\ Spreads(bd, TakenIn(bd, l), RenewedIn(bd, l), at)
  /\ \A b \in Blocks(bd) : \A i \in 1 .. Len(Stmts(bd, b)) :
       FillsPart(Stmts(bd, b)[i], l)
         => ~ Since(Takes(bd, b, l), Renews(bd, b, l), i + 1, b \in at)

ReadWhileStored(bd, l, at) ==
  /\ Spreads(bd, EndedIn(bd, l), RenewedIn(bd, l), at)
  /\ \A b \in Blocks(bd) : \A i \in Positions(bd, b) :
       l \in ReadsAt(bd, b, i) => ~ Since(Ends(bd, b, l), Renews(bd, b, l), i, b \in at)

ASSUME StorageAssumption ==
  \A bd \in Bodies :
    /\ PlacesFit(bd)
    /\ \A l \in Locals(bd) : \E at \in SUBSET Blocks(bd) : FilledWhileThere(bd, l, at)
    /\ \A l \in Locals(bd) : \E at \in SUBSET Blocks(bd) : ReadWhileStored(bd, l, at)

-----------------------------------------------------------------------------
(***************************************************************************)
(* Where the checker follows references to the places behind them.  It     *)
(* goes through a reference by way of one of its loans, the first that     *)
(* fits; so it follows those whose loans agree.  And a drop of a reference *)
(* lets go of its loan, so nothing must read the reference after that.     *)
(***************************************************************************)

\* What the checker knows before position i of b, once it is done with b.
Seen(b, i) == StateAt(body, live_out, b, entry[b], i - 1)

\* The loans of l, if any, are all of one place.
Lead(st, l, place) == \A m \in LoansOf(st, l) : m.source = place

\* A borrow through a reference.
BorrowTraced(st, s) ==
  s.op = "Borrow" /\ HasDeref(s.src) /\ s.src.local \in Refs => Lead(st, s.src.local, LoanSource(st, s))

\* A call: the arguments its result borrows from, and those a shim changes.
CallTraced(st, t) ==
  /\ t.kind = "Jit" /\ t.dest # <<>> =>
       \A k \in t.borrows \cap DOMAIN t.reads :
         \A m \in LoansOf(st, ArgAt(t, k)) :
           /\ m.source = First(LoansOf(st, ArgAt(t, k))).source
           /\ m.form = First(LoansOf(st, ArgAt(t, k))).form
  /\ t.kind = "Builtin" /\ t.dest # <<>> =>
       \A k \in t.borrows \cap DOMAIN t.reads :
         IF ArgAt(t, k) \in Refs THEN Lead(st, ArgAt(t, k), Origin(st, ArgAt(t, k)))
         ELSE Origin(st, ArgAt(t, k)) = Whole(ArgAt(t, k))
  /\ t.kind = "Builtin" =>
       \A k \in (t.consumes \cup t.mutates) \cap DOMAIN t.reads :
         \/ Origin(st, ArgAt(t, k)) = Whole(ArgAt(t, k))
         \/ ArgAt(t, k) \in Refs /\ Lead(st, ArgAt(t, k), Origin(st, ArgAt(t, k)))

Traceable ==
  \A b \in walked :
    /\ \A i \in 1 .. Len(Stmts(body, b)) : BorrowTraced(Seen(b, i), Stmts(body, b)[i])
    /\ IsCall(Term(body, b)) => CallTraced(Seen(b, Len(Stmts(body, b)) + 1), Term(body, b))

\* No reference is dropped while a path still reads it.
RefsKept ==
  \A b \in Blocks(body) : \A i \in 1 .. Len(Stmts(body, b)) :
    Stmts(body, b)[i].op = "Drop" /\ Stmts(body, b)[i].local \in Refs
      => ~ PathLiveAfter(body, live_out, b, i, Stmts(body, b)[i].local)

-----------------------------------------------------------------------------
Idle ==
  /\ pc = Stopped
  /\ here = [l \in Locals(body) |-> TRUE]
  /\ holes = [l \in Locals(body) |-> {}]
  /\ target = [l \in Locals(body) |-> Nowhere]
  /\ mode = [l \in Locals(body) |-> "BorrowReadOnly"]
  /\ stale = [l \in Locals(body) |-> "no"]
  /\ bad = "no"

RunInit == Init /\ Idle

Check == CheckNext /\ UNCHANGED machine

Begin ==
  /\ Accepted /\ pc = Stopped
  /\ pc' = <<Entry, 1>>
  /\ UNCHANGED <<checker, here, holes, target, mode, stale, bad>>

Running == pc # Stopped /\ bad = "no"
AtStmt  == Running /\ pc[2] <= Len(Stmts(body, pc[1]))
Current == Stmts(body, pc[1])[pc[2]]
Advance == pc' = <<pc[1], pc[2] + 1>> /\ UNCHANGED checker

\* A local written as a whole holds a value again.
Refill(l) == here' = [here EXCEPT ![l] = TRUE] /\ holes' = [holes EXCEPT ![l] = {}]

RunStorageLive ==
  /\ AtStmt /\ Current.op = "StorageLive"
  /\ Refill(Current.local) /\ Forgets(Current.local)
  /\ Advance /\ UNCHANGED <<mode, bad>>

\* The end of an owner, by drop or by the end of its storage.
RunEnd ==
  /\ AtStmt /\ Current.op \in {"StorageDead", "Drop"}
  /\ stale' = IF Owner(Current.local) THEN Spoil(Whole(Current.local), Refs, "ended") ELSE stale
  /\ Advance /\ UNCHANGED <<here, holes, target, mode, bad>>

\* The tombstone the compiler writes after a move.
RunDeinit ==
  /\ AtStmt /\ Current.op = "Deinit"
  /\ here' = [here EXCEPT ![Current.local] = FALSE]
  /\ Advance /\ UNCHANGED <<holes, target, mode, stale, bad>>

\* A reference is made.  A mutable one spoils every other reference to the
\* place, any other one the mutable references to it.  A strong one takes
\* the place with it and owns it: it is not followed.
RunBorrow ==
  /\ AtStmt /\ Current.op = "Borrow"
  /\ LET s == Current
         p == TargetOf(s.src)
         others == IF s.form = "BorrowExclusiveMutable" THEN Refs
                   ELSE {r \in Refs : mode[r] = "BorrowExclusiveMutable"}
         left == IF s.form \in Strong THEN [here EXCEPT ![s.src.local] = FALSE] ELSE here
     IN /\ bad' = Verdict({s.src})
        /\ here' = [left EXCEPT ![s.dest.local] = TRUE]
        /\ holes' = [holes EXCEPT ![s.dest.local] = {}]
        /\ IF s.form \in Strong
           THEN /\ target' = [target EXCEPT ![s.dest.local] = Nowhere]
                /\ stale' = [Spoil(p, Refs, "moved") EXCEPT ![s.dest.local] = "no"]
                /\ UNCHANGED mode
           ELSE /\ target' = [target EXCEPT ![s.dest.local] = p]
                /\ mode' = [mode EXCEPT ![s.dest.local] = s.form]
                /\ stale' = [Spoil(p, others, "aliased") EXCEPT
                               ![s.dest.local] = IF HasDeref(s.src) /\ s.src.local \in Refs
                                                 THEN stale[s.src.local] ELSE "no"]
  /\ Advance

\* A value is copied, moved, or moved out of a field.
RunAssign ==
  /\ AtStmt /\ Current.op = "Assign"
  /\ LET s == Current
         d == s.dest.local
         away == [here EXCEPT ![s.src.local] = IF MovesWhole(body, s) THEN FALSE ELSE @]
         open == [holes EXCEPT ![s.src.local] =
                    IF MovesField(body, s) THEN @ \cup {s.src.proj} ELSE @]
         copied == d \in Refs /\ s.src.local \in Refs /\ s.src.proj = <<>>
     IN /\ bad' = Verdict({s.src})
        /\ here' = IF s.dest.proj = <<>> THEN [away EXCEPT ![d] = TRUE] ELSE away
        /\ holes' = [open EXCEPT ![d] = IF s.dest.proj = <<>> THEN {} ELSE @ \ {s.dest.proj}]
        /\ IF copied
           THEN /\ target' = [target EXCEPT ![d] = target[s.src.local]]
                /\ mode' = [mode EXCEPT ![d] = mode[s.src.local]]
                /\ stale' = [stale EXCEPT ![d] = stale[s.src.local]]
           ELSE /\ target' = IF s.dest.proj = <<>> THEN [target EXCEPT ![d] = Nowhere] ELSE target
                /\ stale' = [r \in Locals(body) |->
                     IF r = d /\ s.dest.proj = <<>> THEN "no"
                     ELSE IF stale[r] # "no" THEN stale[r]
                     ELSE IF MovesWhole(body, s)
                             /\ (Overlap(target[r], Whole(s.src.local)) \/ Overlap(target[r], s.dest))
                          THEN "moved"
                     ELSE IF MovesField(body, s) /\ Overlap(target[r], s.src) THEN "field"
                     ELSE "no"]
                /\ UNCHANGED mode
  /\ Advance

RunCompute ==
  /\ AtStmt /\ Current.op \in {"Const", "BinaryOp", "GetDiscriminant"}
  /\ bad' = Verdict(UsedPlaces(Current))
  /\ Refill(Current.dest.local) /\ Forgets(Current.dest.local)
  /\ Advance /\ UNCHANGED mode

\* The statements that only lay out or gate: no value moves.
RunNop ==
  /\ AtStmt /\ Current.op \in {"Alloc", "Nop"}
  /\ Advance /\ UNCHANGED <<here, holes, target, mode, stale, bad>>

AtTerm == Running /\ pc[2] = Len(Stmts(body, pc[1])) + 1
Ending == Term(body, pc[1])
ReadByTerm == {Whole(Ending.reads[i]) : i \in DOMAIN Ending.reads}

\* A branch, a jump or a return: any successor may be next.
RunBranch ==
  /\ AtTerm /\ ~IsCall(Ending)
  /\ bad' = Verdict(ReadByTerm)
  /\ \/ \E b \in Succs(body, pc[1]) : pc' = <<b, 1>>
     \/ Succs(body, pc[1]) = {} /\ pc' = <<pc[1], pc[2] + 1>>
  /\ UNCHANGED <<checker, here, holes, target, mode, stale>>

\* What the references to p become once argument i has been passed: a
\* function of the program takes the value away, a shim takes or changes it.
\* The argument itself, if it is a reference, stays good.
Object(l) == IF l \in Refs THEN target[l] ELSE Whole(l)

RunCall ==
  /\ AtTerm /\ IsCall(Ending)
  /\ LET t == Ending
         taken == {ArgAt(t, i) : i \in Taken(body, t)}
         changed == IF t.kind = "Jit" THEN {}
                    ELSE {ArgAt(t, i) : i \in (t.consumes \cup t.mutates) \cap DOMAIN t.reads}
         spoiled == [r \in Locals(body) |->
           IF r \notin Refs \/ stale[r] # "no" THEN stale[r]
           ELSE IF \E l \in changed : r # l /\ Overlap(target[r], Object(l)) THEN "mutated"
           ELSE IF \E l \in taken : Overlap(target[r], Whole(l)) THEN "passed" ELSE "no"]
         lent == {ArgAt(t, i) : i \in t.borrows \cap DOMAIN t.reads}
         sources == IF t.dest = <<>> THEN {} ELSE IF t.kind = "Jit" THEN lent \cap Refs ELSE lent
         Result(place, cause) ==
           /\ target' = [l \in Locals(body) |-> IF l \notin Elements(t.dest) THEN target[l]
                                               ELSE IF l = t.dest[1] THEN place ELSE Nowhere]
           /\ stale' = [l \in Locals(body) |-> IF l \notin Elements(t.dest) THEN spoiled[l]
                                              ELSE IF l = t.dest[1] THEN cause ELSE "no"]
     IN /\ bad' = Verdict(ReadByTerm)
        /\ here' = [l \in Locals(body) |-> IF l \in Elements(t.dest) THEN TRUE
                                           ELSE here[l] /\ l \notin taken]
        /\ holes' = [l \in Locals(body) |-> IF l \in Elements(t.dest) THEN {} ELSE holes[l]]
        /\ \/ \E a \in sources :
                /\ Result(Object(a), IF a \in Refs THEN spoiled[a] ELSE "no")
                /\ mode' = [mode EXCEPT ![t.dest[1]] =
                              IF t.kind = "Jit" THEN mode[a] ELSE "BorrowReadOnly"]
           \/ sources = {} /\ Result(Nowhere, "no") /\ UNCHANGED mode
        /\ pc' = <<t.succ[1], 1>>
  /\ UNCHANGED checker

Run == \/ Begin \/ RunStorageLive \/ RunEnd \/ RunDeinit \/ RunBorrow \/ RunAssign
       \/ RunCompute \/ RunNop \/ RunBranch \/ RunCall

\* The checker is one thread running a loop; nothing is asked of the run.
RunSpec == RunInit /\ [][Check \/ Run]_vars /\ WF_vars(Check)

-----------------------------------------------------------------------------
(* Properties *)

\* Every reachable block was walked: the case EveryReachableBlockWalked of
\* BorrowCheck is about is set aside here.
Vetted == ReachableBlocks \subseteq walked

\* An accepted body never reads a local, a field or a part of a field that
\* an earlier step of the same run moved away, on any path, round any loop.
NoUseAfterMove == Vetted => bad # "gone"

\* An accepted body never reads a reference whose target has been dropped,
\* moved by an assignment, overwritten, or changed in place by a shim since
\* the reference was made.
NoDanglingRead == Vetted => bad \notin {"ended", "moved", "mutated"}

\* A mutable reference is exclusive: an accepted body never reads it after
\* another reference to the place was made, nor any reference to a place
\* after a mutable one to it was made.
NoAliasedRead == Vetted => bad # "aliased"

\* "Moving m while r is still live must be rejected": an accepted body never
\* reads a reference after its target was passed away to a function.
NoReadAfterPass == Vetted => bad # "passed"

\* Nor after the field it points to was moved out.
NoReadAfterFieldMove == Vetted => bad # "field"
===============================================================================
