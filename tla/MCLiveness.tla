------------------------------ MODULE MCLiveness ------------------------------
(***************************************************************************)
(* Small bodies for Liveness: five graphs (straight line, diamond, loop,   *)
(* nested loop with a shared header, and one with an unreachable block),   *)
(* each block filled from a few statement sequences that read, write, or   *)
(* overwrite one owner x, one reference r and one scalar c.                *)
(***************************************************************************)
EXTENDS Liveness

x == 0
r == 1
c == 2

MCFieldType == [f \in {1} |-> "Heap"]

MCTypes == [l \in {x, r, c} |-> CASE l = x -> "Heap" [] l = r -> "Ref" [] l = c -> "Int"]

BorrowX  == [op |-> "Borrow", dest |-> Whole(r), src |-> Whole(x), form |-> "BorrowReadOnly"]
ReadR    == [op |-> "Assign", dest |-> Whole(c), src |-> Whole(r)]
WriteC   == [op |-> "Const", dest |-> Whole(c)]
DropX    == [op |-> "Drop", local |-> x]
DropR    == [op |-> "Drop", local |-> r]
CompareC == [op |-> "BinaryOp", dest |-> Whole(c), srcs |-> {Whole(c), Whole(r)}]
FieldOfX == [op |-> "Assign", dest |-> [local |-> x, proj |-> <<1>>], src |-> Whole(c)]

Chunks ==
  {<<>>, <<BorrowX, ReadR>>, <<WriteC, DropR>>, <<ReadR, BorrowX>>, <<CompareC, DropX>>}

LastChunks == {<<ReadR, DropX>>, <<FieldOfX, CompareC>>}

Goto(b)     == [op |-> "Goto", reads |-> <<>>, succ |-> <<b>>]
If(a, b)    == [op |-> "If", reads |-> <<c>>, succ |-> <<a, b>>]
Ret(values) == [op |-> "Return", reads |-> values, succ |-> <<>>]

Graphs ==
  { <<Goto(2), Goto(3), Goto(4), Ret(<<c>>)>>,
    <<If(2, 3), Goto(4), Goto(4), Ret(<<>>)>>,
    <<Goto(2), If(3, 4), Goto(2), Ret(<<c>>)>>,
    <<If(2, 4), If(3, 1), Goto(2), Ret(<<>>)>>,
    <<Goto(4), If(3, 2), Goto(1), Ret(<<c>>)>> }

MCBodies ==
  {[params |-> 0, ty |-> MCTypes,
    blocks |-> [b \in 1 .. 4 |-> [stmts |-> IF b = 4 THEN last ELSE chunk[b], term |-> g[b]]]]
     : g \in Graphs, chunk \in [1 .. 3 -> Chunks], last \in LastChunks}
===============================================================================
