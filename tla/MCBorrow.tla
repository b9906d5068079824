------------------------------- MODULE MCBorrow -------------------------------
(***************************************************************************)
(* Small bodies for the borrow checker, in the shapes triet-lower emits.   *)
(* The locals: a struct s with two heap fields (a parameter unless said    *)
(* otherwise), a struct t it may be moved to, a string w of an inner       *)
(* scope, a string u for a moved-out field, references r and q, a scalar c. *)
(***************************************************************************)
EXTENDS BorrowRun

s == 0
t == 1
w == 2
u == 3
r == 4
q == 5
c == 6

MCFieldType == [f \in {1, 2} |-> "Heap"]
MCTypes == [l \in s .. c |-> CASE l \in {s, t} -> "Struct" [] l \in {w, u} -> "Heap"
                               [] l \in {r, q} -> "Ref" [] l = c -> "Int"]

At(l, f) == [local |-> l, proj |-> f]
Live(l) == [op |-> "StorageLive", local |-> l]
Drop(l) == [op |-> "Drop", local |-> l]
Dead(l) == [op |-> "StorageDead", local |-> l]
Deinit(l) == [op |-> "Deinit", local |-> l]
Const(l) == [op |-> "Const", dest |-> Whole(l)]
Share(l, p) == [op |-> "Borrow", dest |-> Whole(l), src |-> p, form |-> "BorrowReadOnly"]
Mutate(l, p) == [op |-> "Borrow", dest |-> Whole(l), src |-> p, form |-> "BorrowExclusiveMutable"]
Read(p) == [op |-> "BinaryOp", dest |-> Whole(c), srcs |-> {Whole(c), p}]
Copy(d, l) == [op |-> "Assign", dest |-> Whole(d), src |-> Whole(l)]
MoveOut(d, p) == [op |-> "Assign", dest |-> Whole(d), src |-> p]

\* let d = l and d = l: the source is left with a tombstone.
Move(d, l) == <<Copy(d, l), Deinit(l)>>

\* A scope of its own for w, in which r is made to point at it.
Scope(body_of_scope) == <<Live(w), Const(w), Share(r, Whole(w))>> \o body_of_scope \o <<Drop(w)>>

\* t = { u, .. }: a struct is built around a moved string.
Build == <<Live(t), [op |-> "Alloc", dest |-> Whole(t)],
           [op |-> "Assign", dest |-> At(t, <<1>>), src |-> Whole(u)], Deinit(u)>>

Strongly == [op |-> "Borrow", dest |-> Whole(q), src |-> Whole(s), form |-> "StrongFrozen"]

Openers ==
  {<<Share(r, Whole(s))>>, <<Share(r, At(s, <<1>>))>>, <<Mutate(r, At(s, <<1>>))>>,
   <<MoveOut(u, At(s, <<1>>))>>, Move(t, s)}

Few == {<<>>, Move(t, s), <<MoveOut(u, At(s, <<1>>))>>, <<Copy(q, r)>>}

Middles == Few \cup
  {Move(s, t), Build, <<MoveOut(u, At(s, <<2>>))>>, <<Strongly>>, <<Share(q, At(s, <<2>>))>>, <<Mutate(q, Whole(s))>>,
   <<Share(q, At(r, <<Deref, 1>>))>>, Scope(<<Read(Whole(r))>>), Scope(<<Copy(q, r)>>)}

Endings ==
  {<<Read(Whole(r)), Drop(r), Drop(s)>>, <<Read(Whole(q)), Drop(s), Drop(t)>>,
   <<Read(At(s, <<1>>)), Dead(s)>>, <<Read(Whole(s)), Drop(t), Drop(s)>>}

Goto(b) == [op |-> "Goto", reads |-> <<>>, succ |-> <<b>>]
If(a, b) == [op |-> "If", reads |-> <<c>>, succ |-> <<a, b>>]
Ret(values) == [op |-> "Return", reads |-> values, succ |-> <<>>]

Call(kind, args, dest, borrows, mutates, consumes, next) ==
  [op |-> "Call", kind |-> kind, reads |-> args, dest |-> dest, borrows |-> borrows,
   mutates |-> mutates, consumes |-> consumes, sret |-> FALSE, succ |-> <<next>>]

\* q = get_ref(r), remove(r), q = id(r), consume(s), push(t)
GetRef(next)  == Call("Builtin", <<r>>, <<q>>, {1}, {}, {}, next)
Remove(next)  == Call("Builtin", <<r>>, <<c>>, {}, {1}, {}, next)
Id(next)      == Call("Jit", <<r>>, <<q>>, {1}, {}, {}, next)
Consume(next) == Call("Jit", <<s>>, <<c>>, {}, {}, {}, next)
Push(next)    == Call("Builtin", <<s>>, <<c>>, {}, {}, {1}, next)

Diamond == <<If(2, 3), Goto(4), Goto(4), Ret(<<c>>)>>
Loop    == <<Goto(2), If(3, 4), Goto(2), Ret(<<c>>)>>
CallChain(call) == <<Goto(2), call, Goto(4), Ret(<<c>>)>>
CallLoop(call)  == <<Goto(2), If(3, 4), call, Ret(<<c>>)>>

Body(params, g, b1, b2, b3, b4) ==
  LET st == <<b1, b2, b3, b4>>
  IN [params |-> params, ty |-> MCTypes, blocks |-> [b \in 1 .. 4 |-> [stmts |-> st[b], term |-> g[b]]]]

\* Two arms that join; a loop with code in its header and in its body; a
\* call in a straight line, and one inside a loop.
MCBodies ==
  {Body(1, g, b1, b2, b3, b4) :
     g \in {Diamond, Loop}, b1 \in Openers, b2 \in Few, b3 \in Middles, b4 \in Endings}
  \cup
  {Body(1, CallChain(k), b1, b2, <<>>, b4) :
     k \in {GetRef(3), Remove(3), Id(3), Consume(3), Push(3)},
     b1 \in Openers, b2 \in Few, b4 \in Endings}
  \cup
  {Body(1, CallLoop(k), b1, <<>>, b3, b4) :
     k \in {Consume(2), Push(2)}, b1 \in Openers, b3 \in Few, b4 \in Endings}

\* A function without parameters that starts with a loop: the lowering of
\* `while` and `loop` leaves an empty entry block that jumps to the header.
LoopFirstBodies ==
  {Body(0, Loop, <<>>, b2, b3, b4) : b2 \in Few, b3 \in Middles, b4 \in Endings}

\* let q = { let w = ..; let x = if c { &0 s } else { &0 w }; f(x) }: a
\* reference that may point to an outer or an inner owner, passed on or
\* borrowed through before the inner owner is dropped.
JoinBodies ==
  {[params |-> 1, ty |-> MCTypes,
    blocks |-> <<[stmts |-> <<Live(w), Const(w)>>, term |-> If(2, 3)],
                 [stmts |-> <<Share(r, Whole(s))>>, term |-> Goto(4)],
                 [stmts |-> <<Share(r, Whole(w))>>, term |-> Goto(4)],
                 [stmts |-> sub, term |-> k],
                 [stmts |-> <<Drop(w), Read(Whole(q)), Drop(s)>>, term |-> Ret(<<c>>)]>>]
     : sub \in {<<>>, <<Share(q, At(r, <<Deref, 1>>))>>},
       k \in {Goto(5), GetRef(5), Id(5)}}

\* let q = { let w = ..; let r = &0 w; r }: the tail of a block is copied out
\* before the scope drops the reference and then what it points to.
TailBodies ==
  {Body(1, Diamond, b1, b2, b3, b4) :
     b1 \in {<<Live(w), Const(w), Share(r, Whole(w)), Drop(r), Drop(w)>>, <<Share(r, Whole(s)), Drop(r)>>},
     b2 \in Few, b3 \in Few, b4 \in Endings}

\* t = &0 w; r = t; q = get_ref(r), and w is dropped: the shim is given a
\* reference that was itself copied.
CopyBodies ==
  {[params |-> 1, ty |-> [MCTypes EXCEPT ![t] = "Ref"],
    blocks |-> <<[stmts |-> <<Live(w), Const(w), Share(t, Whole(w)), Copy(r, t)>>, term |-> k],
                 [stmts |-> <<Drop(w), Read(Whole(q)), Drop(s)>>, term |-> Ret(<<c>>)]>>]
     : k \in {GetRef(2), Id(2)}}

\* What TLC says of the theorems about references: of all these bodies those
\* that are followed read nothing that dangles, and the accepted ones of
\* MCBodies are followed.
FollowedReadNothingBad == Traceable /\ RefsKept => NoDanglingRead /\ NoAliasedRead
AcceptedAreFollowed == Accepted /\ body \in MCBodies => Traceable /\ RefsKept

AllBodies == MCBodies \cup JoinBodies \cup TailBodies \cup CopyBodies
===============================================================================
