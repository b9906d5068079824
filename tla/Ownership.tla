------------------------------ MODULE Ownership ------------------------------
(***************************************************************************)
(* What the borrow checker knows at a program point and how a statement, a *)
(* terminator and a join change it: the pure part of                       *)
(* triet-borrowck/src/checker.rs.                                          *)
(*                                                                         *)
(* A block state is [vs, loans, pm]                                        *)
(*   vs    : local -> "None" (not in the map), "Owned", "Moved", "Ended"   *)
(*   loans : the active loans [source, dest, form, at, prop]               *)
(*   pm    : local -> the field paths moved out of it                      *)
(* While a block is walked the record also has errs, the codes reported.   *)
(* Which local a diagnostic names is left out.                             *)
(***************************************************************************)
EXTENDS LivePaths

Forms  == {"BorrowReadOnly", "BorrowExclusiveMutable", "WeakObserver"}
Strong == {"StrongFrozen", "StrongMutable"}
VarStates == {"None", "Owned", "Moved", "Ended"}
Codes == {"E2420", "E2421", "E2423", "E2424", "E2440", "E2450"}

When(cond, code) == IF cond THEN {code} ELSE {}

-----------------------------------------------------------------------------
(* Places and paths *)

Prefix(p, n) == SubSeq(p, 1, n)
Shorter(p, q) == IF Len(p) < Len(q) THEN Len(p) ELSE Len(q)

\* One path is a prefix of the other (equality included).
PrefixConflict(p, m) == Prefix(p, Shorter(p, m)) = Prefix(m, Shorter(p, m))

IsFieldPath(proj) == \A i \in DOMAIN proj : proj[i] \in Fields

(***************************************************************************)
(* May two borrowed places overlap?  Places of different locals do iff the *)
(* caller asks for a conservative answer.  Projections of one local are    *)
(* compared step by step: two distinct fields part them, a mismatch of     *)
(* kinds is taken for an overlap.                                          *)
(***************************************************************************)
SameKind(x, y) == (x \in Fields /\ y \in Fields) \/ (x = y /\ x \in {Deref, Index})

PlacesConflict(a, b, conservative) ==
  IF a.local # b.local THEN conservative
  ELSE ~ \E i \in 1 .. Shorter(a.proj, b.proj) :
           /\ a.proj[i] \in Fields /\ b.proj[i] \in Fields /\ a.proj[i] # b.proj[i]
           /\ \A j \in 1 .. (i - 1) : SameKind(a.proj[j], b.proj[j])

\* Seeded defect: only two mutable references exclude each other.
ConflictsWithMutable(loan, form) ==
  form = "BorrowExclusiveMutable" /\ loan.form = "BorrowExclusiveMutable"

\* Does an active loan refuse a new loan of this form?
ConflictsWith(loan, form) ==
  form \in {"BorrowReadOnly", "WeakObserver"} => loan.form = "BorrowExclusiveMutable"

(***************************************************************************)
(* Active loans live in an ordered set; find takes the first that fits,    *)
(* which is the least by source, then by form.                             *)
(***************************************************************************)
FormRank == [f \in Forms |-> CASE f = "BorrowReadOnly" -> 1
                               [] f = "BorrowExclusiveMutable" -> 2
                               [] f = "WeakObserver" -> 3]

ProjBefore(p, q) ==
  LET differ == {i \in 1 .. Shorter(p, q) : p[i] # q[i]}
  IN IF differ = {} THEN Len(p) < Len(q)
     ELSE LET i == CHOOSE i \in differ : \A j \in differ : i <= j IN p[i] < q[i]

LoanBefore(m, n) ==
  \/ m.source.local < n.source.local
  \/ m.source.local = n.source.local /\ ProjBefore(m.source.proj, n.source.proj)
  \/ m.source = n.source /\ FormRank[m.form] < FormRank[n.form]

First(loans) == CHOOSE m \in loans : \A n \in loans : ~LoanBefore(n, m)

-----------------------------------------------------------------------------
(* Block states *)

Nothing(bd) ==
  [vs |-> [l \in Locals(bd) |-> "None"], loans |-> {}, pm |-> [l \in Locals(bd) |-> {}]]

\* The function is entered with its parameters owned.
Initial(bd) ==
  [Nothing(bd) EXCEPT !.vs = [l \in Locals(bd) |-> IF l < bd.params THEN "Owned" ELSE "None"]]

(***************************************************************************)
(* The entry state of a block with the given incoming edges.  One edge     *)
(* hands its state over as it is; at a join a local is moved if it is      *)
(* moved on any edge and owned if any edge knows it (ended counts as       *)
(* owned), and loans and moved-out paths are united.                       *)
(***************************************************************************)
MergeVsAll(vs) ==   \* Seeded defect: moved only if every known edge moved it.
  IF vs \ {"None"} = {"Moved"} THEN "Moved" ELSE IF vs = {"None"} THEN "None" ELSE "Owned"

MergeVs(vs) ==
  IF "Moved" \in vs THEN "Moved" ELSE IF vs = {"None"} THEN "None" ELSE "Owned"

\* Seeded defect: a path counts as moved out only if every edge moved it.
MergeIntersect(bd, edges, exit) ==
  IF edges = {} THEN Nothing(bd)
  ELSE IF Cardinality(edges) = 1 THEN exit[(CHOOSE e \in edges : TRUE)[1]]
  ELSE [vs    |-> [l \in Locals(bd) |-> MergeVs({exit[e[1]].vs[l] : e \in edges})],
        loans |-> UNION {exit[e[1]].loans : e \in edges},
        pm    |-> [l \in Locals(bd) |->
                     {p \in UNION {exit[e[1]].pm[l] : e \in edges} :
                        \A e \in edges : p \in exit[e[1]].pm[l]}]]

Merge(bd, edges, exit) ==
  IF edges = {} THEN Nothing(bd)
  ELSE IF Cardinality(edges) = 1 THEN exit[(CHOOSE e \in edges : TRUE)[1]]
  ELSE [vs    |-> [l \in Locals(bd) |-> MergeVs({exit[e[1]].vs[l] : e \in edges})],
        loans |-> UNION {exit[e[1]].loans : e \in edges},
        pm    |-> [l \in Locals(bd) |-> UNION {exit[e[1]].pm[l] : e \in edges}]]

\* Does using p touch a path already moved out?  Anything but a field path
\* counts as a use of the whole.
PartialMoveInvalidates(st, p) ==
  \E m \in st.pm[p.local] : PrefixConflict(IF IsFieldPath(p.proj) THEN p.proj ELSE <<>>, m)

UseAfterMove(st, p) == st.vs[p.local] = "Moved" \/ PartialMoveInvalidates(st, p)
UseAfterEnd(bd, st, l) == st.vs[l] = "Ended" /\ ~IsCopy(bd.ty[l])

UseErrors(bd, st, p) ==
  When(UseAfterMove(st, p), "E2420") \cup When(UseAfterEnd(bd, st, p.local), "E2421")

-----------------------------------------------------------------------------
(* Statements: what each reports, and the state after it *)

Own(st, l) == [st EXCEPT !.vs[l] = "Owned"]

\* A live reference still points into l when its storage dies here.
Dangles(bd, out, st, at, l) ==
  \E m \in st.loans : m.source.local = l /\ IsLiveAfter(bd, out, at[1], at[2], m.dest)

(***************************************************************************)
(* A borrow through a dereference is anchored on what the reference itself *)
(* borrows: the source of a loan it is the destination of, or the          *)
(* reference when it has none (a parameter).  The path is not kept.        *)
(***************************************************************************)
LoansOf(st, r) == {m \in st.loans : m.dest = r}

LoanSource(st, s) ==
  IF ~HasDeref(s.src) THEN s.src
  ELSE IF LoansOf(st, s.src.local) = {} THEN Whole(s.src.local)
  ELSE First(LoansOf(st, s.src.local)).source

BorrowErrors(bd, st, s) ==
  LET mayAlias == s.form \in {"BorrowReadOnly", "WeakObserver"}
  IN When(\E m \in st.loans : /\ PlacesConflict(m.source, LoanSource(st, s), mayAlias)
                              /\ ConflictsWith(m, s.form), "E2440")
     \cup UseErrors(bd, st, s.src)

AfterBorrow(st, at, s) ==
  LET loan == [source |-> LoanSource(st, s), dest |-> s.dest.local, form |-> s.form,
               at |-> at, prop |-> FALSE]
      lent == IF s.form \in Strong THEN [st EXCEPT !.vs[s.src.local] = "Moved"]
                                   ELSE [st EXCEPT !.loans = @ \cup {loan}]
  IN Own(lent, s.dest.local)

(***************************************************************************)
(* An assignment whose source is a projection copies a field, or moves it  *)
(* out and records its path; a plain source of a Move type is moved.  A    *)
(* plain reference is copied, and its loans are issued again for the copy. *)
(***************************************************************************)
IsFieldRead(s) == s.src.proj # <<>>
MovesField(bd, s) == IsFieldRead(s) /\ ~IsCopy(PlaceType(bd, s.src))
CanMoveOut(bd, s) ==
  IsFieldPath(s.src.proj) /\ PlaceType(bd, s.src) \in {"Heap", "Struct", "Enum"}
MovesWhole(bd, s) == ~IsFieldRead(s) /\ ~IsCopy(bd.ty[s.src.local])

\* The moved-out paths after the source has been read.
PathsMoved(bd, st, s) ==
  IF MovesField(bd, s) /\ CanMoveOut(bd, s)
  THEN [st.pm EXCEPT ![s.src.local] = @ \cup {s.src.proj}] ELSE st.pm

AssignErrors(bd, st, s) ==
  UseErrors(bd, st, s.src)
  \cup When(MovesField(bd, s) /\ ~CanMoveOut(bd, s), "E2423")
  \cup When(MovesWhole(bd, s) /\ \E m \in st.loans : PlacesConflict(m.source, s.src, TRUE), "E2440")
  \cup When(/\ s.dest.proj # <<>> /\ IsFieldPath(s.dest.proj)
            /\ \E m \in PathsMoved(bd, st, s)[s.dest.local] :
                 m # s.dest.proj /\ PrefixConflict(s.dest.proj, m), "E2424")

\* Seeded defect: a copied reference borrows nothing.
ReissuedNone(bd, st, at, s) == {}

\* The loans of a copied reference, issued again for the copy.
Reissued(bd, st, at, s) ==
  IF IsFieldRead(s) \/ bd.ty[s.src.local] # "Ref" THEN {}
  ELSE {[source |-> m.source, dest |-> s.dest.local, form |-> m.form, at |-> at, prop |-> TRUE]
          : m \in LoansOf(st, s.src.local)}

AfterAssign(bd, st, at, s) ==
  LET read == [st EXCEPT !.loans = @ \cup Reissued(bd, st, at, s),
                         !.pm = PathsMoved(bd, st, s),
                         !.vs[s.src.local] = IF MovesWhole(bd, s) THEN "Moved" ELSE @]
      d == s.dest.local
      paths == IF s.dest.proj = <<>> THEN {}
               ELSE IF IsFieldPath(s.dest.proj) THEN read.pm[d] \ {s.dest.proj} ELSE read.pm[d]
  IN Own([read EXCEPT !.pm[d] = paths], d)

\* Dropping a moved local leaves it moved; a reference that dies lets go of
\* its loan.
AfterDrop(st, l) ==
  [st EXCEPT !.vs[l] = IF @ = "Moved" THEN @ ELSE "Ended",
             !.loans = {m \in @ : m.source.local # l /\ m.dest # l}]

StmtErrors(bd, out, st, at, s) ==
  CASE s.op \in {"StorageDead", "Drop"} -> When(Dangles(bd, out, st, at, s.local), "E2450")
    [] s.op = "Borrow" -> BorrowErrors(bd, st, s)
    [] s.op = "Assign" -> AssignErrors(bd, st, s)
    [] s.op \in {"BinaryOp", "GetDiscriminant"} -> UNION {UseErrors(bd, st, p) : p \in s.srcs}
    [] OTHER -> {}

Effect(bd, st, at, s) ==
  CASE s.op = "StorageLive" -> [Own(st, s.local) EXCEPT !.pm[s.local] = {}]
    [] s.op = "StorageDead" -> [st EXCEPT !.vs[s.local] = "None",
                                          !.loans = {m \in @ : m.source.local # s.local}]
    [] s.op = "Deinit" -> [st EXCEPT !.vs[s.local] = "Moved"]
    [] s.op = "Borrow" -> AfterBorrow(st, at, s)
    [] s.op = "Assign" -> AfterAssign(bd, st, at, s)
    [] s.op \in {"Const", "BinaryOp", "GetDiscriminant"} -> Own(st, s.dest.local)
    [] s.op = "Drop" -> AfterDrop(st, s.local)
    [] OTHER -> st

\* Loans whose reference is no longer live end here.
EndLoans(bd, out, at, st) ==
  [st EXCEPT !.loans = {m \in @ : IsLiveAfter(bd, out, at[1], at[2], m.dest)}]

Step(bd, out, b, i, st) ==
  LET s == Stmts(bd, b)[i]
      after == Effect(bd, st, <<b, i>>, s)
  IN EndLoans(bd, out, <<b, i>>, [after EXCEPT !.errs = @ \cup StmtErrors(bd, out, st, <<b, i>>, s)])

-----------------------------------------------------------------------------
(***************************************************************************)
(* Terminators.  A call is [op, kind, reads (the arguments), dest, borrows, *)
(* consumes, mutates, sret, succ]: kind says whether the target is a       *)
(* function of the program ("Jit") or a runtime shim ("Builtin"), dest     *)
(* holds the result local if there is one, borrows the argument positions  *)
(* the result borrows from (return_borrow_map of the signature, or         *)
(* returns_borrow_of of the shim), consumes and mutates the positions the  *)
(* shim takes over or changes in place, and sret whether the first         *)
(* argument is the hidden return slot.                                     *)
(***************************************************************************)
IsCall(t) == t.op = "Call"
ArgAt(t, i) == t.reads[i]

TermReadErrors(bd, st, t) ==
  UNION {When(st.vs[l] = "Moved" \/ st.pm[l] # {}, "E2420")
           \cup When(t.op # "Return" /\ UseAfterEnd(bd, st, l), "E2421")
           \cup When(t.op = "Return" /\ \E m \in st.loans : m.source.local = l, "E2450")
           : l \in {t.reads[i] : i \in DOMAIN t.reads}}

\* The loans a call issues for its result.  A program function: the first
\* loan of each borrowed argument, again.  A shim: a read-only loan of what
\* the argument directly borrows, or of the argument itself.
Origin(st, l) ==
  LET direct == {m \in LoansOf(st, l) : ~m.prop}
  IN IF direct = {} THEN Whole(l) ELSE First(direct).source

ResultLoans(st, at, t) ==
  LET positions == IF t.dest = <<>> THEN {} ELSE t.borrows \cap DOMAIN t.reads
      Loan(source, form) == [source |-> source, dest |-> t.dest[1], form |-> form,
                             at |-> at, prop |-> TRUE]
  IN IF t.kind = "Jit"
     THEN {Loan(First(LoansOf(st, ArgAt(t, i))).source, First(LoansOf(st, ArgAt(t, i))).form)
             : i \in {j \in positions : LoansOf(st, ArgAt(t, j)) # {}}}
     ELSE {Loan(Origin(st, ArgAt(t, i)), "BorrowReadOnly") : i \in positions}

\* A shim may not consume or change what another reference still borrows;
\* the loan that made the argument does not count against it.
MutationErrors(st, t) ==
  When(/\ t.kind = "Builtin"
       /\ \E i \in (t.consumes \cup t.mutates) \cap DOMAIN t.reads : \E m \in st.loans :
             /\ m.dest # ArgAt(t, i)
             /\ PlacesConflict(m.source, Origin(st, ArgAt(t, i)), TRUE), "E2440")

(***************************************************************************)
(* The arguments a call takes over: those the shim consumes, or every      *)
(* argument of a Move type of a program function, which are marked one by  *)
(* one so that passing a local twice is a use after move.  No loan is      *)
(* consulted here.                                                         *)
(***************************************************************************)
Taken(bd, t) ==
  {i \in DOMAIN t.reads :
     /\ ~IsCopy(bd.ty[ArgAt(t, i)])
     /\ IF t.kind = "Jit" THEN ~(t.sret /\ i = 1) ELSE i \in t.consumes}

PassErrors(bd, st, t) ==
  LET taken == Taken(bd, t)
  IN IF t.kind # "Jit" THEN {}
     ELSE When(\E i \in taken : \/ st.vs[ArgAt(t, i)] = "Moved"
                                \/ /\ st.vs[ArgAt(t, i)] # "Ended"
                                   /\ \E j \in taken : j < i /\ ArgAt(t, j) = ArgAt(t, i), "E2420")
          \cup When(\E i \in taken : st.vs[ArgAt(t, i)] = "Ended", "E2421")

AfterPass(bd, st, t) ==
  LET gone == {ArgAt(t, i) : i \in Taken(bd, t)}
      Mark(l) == IF l \in gone /\ ~(t.kind = "Jit" /\ st.vs[l] = "Ended") THEN "Moved" ELSE st.vs[l]
  IN [st EXCEPT !.vs = [l \in Locals(bd) |-> Mark(l)]]

Terminate(bd, out, b, st) ==
  LET t == Term(bd, b)
      at == <<b, Len(Stmts(bd, b)) + 1>>
      lent == [st EXCEPT !.loans = @ \cup ResultLoans(st, at, t)]
      after == IF IsCall(t) THEN AfterPass(bd, lent, t) ELSE st
      errs == TermReadErrors(bd, st, t)
              \cup (IF IsCall(t) THEN MutationErrors(lent, t) \cup PassErrors(bd, lent, t) ELSE {})
  IN EndLoans(bd, out, at, [after EXCEPT !.errs = @ \cup errs])

-----------------------------------------------------------------------------
(* A whole block, from its entry state: process_block *)

Walking(st) == [vs |-> st.vs, loans |-> st.loans, pm |-> st.pm, errs |-> {}]
Known(st)   == [vs |-> st.vs, loans |-> st.loans, pm |-> st.pm]

\* The state after the first i statements of b.  (Each state is bound as
\* the one member of a set, so that TLC computes it once.)
The(set) == CHOOSE x \in set : TRUE

StateAt(bd, out, b, entry, i) ==
  LET after[k \in 0 .. i] ==
        IF k = 0 THEN Walking(entry)
        ELSE The({Step(bd, out, b, k, st) : st \in {after[k-1]}})
  IN after[i]

ProcessBlock(bd, out, b, entry) ==
  Terminate(bd, out, b, StateAt(bd, out, b, entry, Len(Stmts(bd, b))))
=============================================================================
