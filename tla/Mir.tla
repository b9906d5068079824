--------------------------------- MODULE Mir ---------------------------------
(***************************************************************************)
(* The control-flow graph of one function body, in the form in which       *)
(* crates/triet-mir hands it to the borrow checker, with the operators     *)
(* that liveness (triet-borrowck/src/liveness.rs) and the forward checker  *)
(* (triet-borrowck/src/checker.rs) both read it through.                   *)
(*                                                                         *)
(* A body is a record                                                      *)
(*   params : how many of the first locals are parameters                  *)
(*   ty     : [0 .. n-1 -> type], the local declarations                   *)
(*   blocks : a sequence of [stmts, term]; block 1 is the entry block      *)
(*                                                                         *)
(* Data is abstracted to what ownership tells apart: a type is one of      *)
(* "Int" (any scalar), "Ref" (a reference, or a nullable one), "Heap"      *)
(* (String, Vector, HashMap), "Struct" (an aggregate that owns heap data), *)
(* "Enum" (with a heap payload) and "Outcome" (a Move type that cannot be  *)
(* moved out of an aggregate).                                             *)
(***************************************************************************)
EXTENDS Naturals, Sequences, FiniteSets

CONSTANTS
  Bodies,      \* the function bodies to analyse
  FieldType    \* [field number -> type]: the layout shared by all structs

Types == {"Int", "Ref", "Heap", "Struct", "Enum", "Outcome"}

ASSUME FieldTypeAssumption ==
  /\ DOMAIN FieldType \subseteq 1 .. 97
  /\ \A f \in DOMAIN FieldType : FieldType[f] \in Types

(***************************************************************************)
(* A projection step is a number, ordered as the derived Ord of the Rust   *)
(* enum: a dereference, then the fields by name, an index, a payload.      *)
(***************************************************************************)
Deref == 0
Fields == 1 .. 97
Index == 98
Payload == 99

Whole(l) == [local |-> l, proj |-> <<>>]
HasDeref(p) == \E i \in DOMAIN p.proj : p.proj[i] = Deref

(***************************************************************************)
(* What owns nothing is Copy.  The type of a place walks its projection: a *)
(* field of a struct, the payload of an enum; anything else is unknown,    *)
(* and an unknown type is Copy.                                            *)
(***************************************************************************)
IsCopy(ty) == ty \in {"Int", "Ref"}

StepType(ty, step) ==
  CASE ty = "Struct" /\ step \in DOMAIN FieldType -> FieldType[step]
    [] ty = "Enum" /\ step = Payload -> "Heap"
    [] OTHER -> "Int"

PlaceType(body, p) ==
  LET upto[i \in 0 .. Len(p.proj)] ==
        IF i = 0 THEN body.ty[p.local] ELSE StepType(upto[i-1], p.proj[i])
  IN upto[Len(p.proj)]

(***************************************************************************)
(* Reading the graph: blocks, locals, successors, and the edges into a     *)
(* block.  A block is listed among the predecessors once per edge, and     *)
(* merge asks how many are listed, so edges are counted, not blocks.       *)
(***************************************************************************)
Blocks(body) == DOMAIN body.blocks
Locals(body) == DOMAIN body.ty
Entry == 1
Stmts(body, b) == body.blocks[b].stmts
Term(body, b)  == body.blocks[b].term
Succ(body, b)  == Term(body, b).succ
Succs(body, b) == {Succ(body, b)[i] : i \in DOMAIN Succ(body, b)}

InEdges(body, b) ==
  UNION {{<<p, i>> : i \in {j \in DOMAIN Succ(body, p) : Succ(body, p)[j] = b}}
           : p \in Blocks(body)}
Preds(body, b) == {e[1] : e \in InEdges(body, b)}

(***************************************************************************)
(* The locals a statement reads.  Dropping an owner is a use of it;        *)
(* dropping a reference is a scope-exit no-op and is not.                  *)
(***************************************************************************)
Reads(body, s) ==
  CASE s.op \in {"Assign", "Borrow"} -> {s.src.local}
    [] s.op \in {"BinaryOp", "GetDiscriminant"} -> {p.local : p \in s.srcs}
    [] s.op = "Drop" -> IF body.ty[s.local] = "Ref" THEN {} ELSE {s.local}
    [] OTHER -> {}

(***************************************************************************)
(* The locals a statement writes: the base of its destination, whatever    *)
(* the destination's projection.                                           *)
(***************************************************************************)
Writes(s) ==
  IF s.op \in {"Assign", "Borrow", "Const", "BinaryOp", "GetDiscriminant", "Alloc"}
  THEN {s.dest.local} ELSE {}

TermReads(body, b) == {Term(body, b).reads[i] : i \in DOMAIN Term(body, b).reads}

(***************************************************************************)
(* What the lowering guarantees of every body: an entry block, edges that  *)
(* lead to blocks (the verifier's INV-1), and statements in a row.         *)
(***************************************************************************)
IsBody(bd) ==
  /\ bd.params \in Nat
  /\ Len(bd.blocks) \in Nat
  /\ Blocks(bd) = 1 .. Len(bd.blocks)
  /\ Entry \in Blocks(bd)
  /\ \A b \in Blocks(bd) : /\ Succ(bd, b) \in Seq(Blocks(bd))
                            /\ Len(Stmts(bd, b)) \in Nat

ASSUME BodiesAssumption == \A bd \in Bodies : IsBody(bd)

\* Position i of block b: its statements, then its terminator at Len + 1.
Positions(body, b) == 1 .. Len(Stmts(body, b)) + 1
ReadsAt(body, b, i) ==
  IF i = Len(Stmts(body, b)) + 1 THEN TermReads(body, b) ELSE Reads(body, Stmts(body, b)[i])
WritesAt(body, b, i) ==
  IF i = Len(Stmts(body, b)) + 1 THEN {} ELSE Writes(Stmts(body, b)[i])
=============================================================================
