------------------------------ MODULE Lowering ------------------------------
(***************************************************************************)
(* The lowering of a function body to MIR blocks (triet-lower), for owned  *)
(* heap values: which local a name denotes, which locals a scope owns, and *)
(* where their drops are emitted when a scope ends, a loop is left or the  *)
(* function returns.  A behaviour is one program: each step lowers one     *)
(* source construct, chosen among those the type checker admits, and       *)
(* changes the lowering context as the code does.  Values are strings (one *)
(* word wide where it matters) or records with a heap field; scalars, and  *)
(* so conditions, are left out.                                            *)
(***************************************************************************)
EXTENDS Integers, SequencesExt, FiniteSets

CONSTANTS
  Names,      \* the variables of the program
  Kinds,      \* the kinds of values: a subset of {"string", "record"}
  Forms,      \* constructs beyond the plain ones (see below)
  MaxSource,  \* how many source constructs a program has
  MaxOpen     \* how deeply its blocks nest

(***************************************************************************)
(* "shadow"  a nested block binds a name an outer block has bound          *)
(* "default" a `?:' whose default calls a builtin on a literal             *)
(* "self"    the assignment `x = x'                                        *)
(* "tail"    a record as the value of a block                              *)
(***************************************************************************)
ASSUME LoweringAssumption ==
  /\ IsFiniteSet(Names)
  /\ Kinds \subseteq {"string", "record"}
  /\ Forms \subseteq {"shadow", "default", "self", "tail"}
  /\ MaxSource \in Nat /\ MaxOpen \in Nat

VARIABLES
  ctx,    \* the lowering context
  open,   \* the constructs being lowered, innermost last
  env,    \* the local of each name, as the frames of the type checker bind it
  spent,  \* how many constructs the program has so far
  done    \* the body is complete

vars == <<ctx, open, env, spent, done>>

NoLocal == 0
Entry == 1

Literal(d) == [op |-> "Const", dest |-> d]
Move(d, s) == [op |-> "Assign", dest |-> d, source |-> s]
Deinit(l) == [op |-> "Deinit", local |-> l]
DropOf(l) == [op |-> "Drop", local |-> l]
Read(l) == [op |-> "Read", local |-> l]

Goto(b) == [op |-> "Goto", to |-> {b}]
Branch(a, b) == [op |-> "If", to |-> {a, b}]
NullTest(l, a, b) == [op |-> "IfNull", local |-> l, null |-> a, present |-> b, to |-> {a, b}]
CallOwned(l, b) == [op |-> "Call", arg |-> l, to |-> {b}]
CallNullable(d, b) == [op |-> "CallNullable", dest |-> d, to |-> {b}]
Return(values) == [op |-> "Return", values |-> values, to |-> {}]
Placeholder == [op |-> "Unreachable", to |-> {}]

-----------------------------------------------------------------------------
(* The context: blocks, locals, owned locals, scopes, loops and names. *)

NextBb(c) == Len(c.blocks) + 1
AllocBb(c) == [c EXCEPT !.blocks = Append(@, [stmts |-> <<>>, term |-> Placeholder])]
AllocBbs(c, n) ==
  [c EXCEPT !.blocks = @ \o [i \in 1 .. n |-> [stmts |-> <<>>, term |-> Placeholder]]]
NextLocal(c) == Len(c.kinds) + 1
AllocLocal(c, kind) == [c EXCEPT !.kinds = Append(@, kind)]

PushAll(c, stmts) == [c EXCEPT !.blocks[c.cur].stmts = @ \o stmts]
Term(c, bb, t) == [c EXCEPT !.blocks[bb].term = t]
At(c, bb) == [c EXCEPT !.cur = bb]

\* After a jump the current block is a fresh one that nothing leads to.
Jump(c, t) == At(AllocBb(Term(c, c.cur, t)), NextBb(c))

\* Seeded defect: a local is registered again by each call that reads it.
PushOwnedAgain(c, l) == [c EXCEPT !.owned = Append(@, l)]

PushOwned(c, l) == [c EXCEPT !.owned = IF Contains(@, l) THEN @ ELSE Append(@, l)]
PushScope(c) == [c EXCEPT !.scopes = Append(@, Len(c.owned))]

DropsOf(locals) == [i \in DOMAIN locals |-> DropOf(Reverse(locals)[i])]
OwnedSince(c, snapshot) == SubSeq(c.owned, snapshot + 1, Len(c.owned))

PopScope(c) ==
  LET snapshot == Last(c.scopes)
  IN [PushAll(c, DropsOf(OwnedSince(c, snapshot)))
        EXCEPT !.scopes = Front(@), !.owned = SubSeq(@, 1, snapshot)]

FlushAllForReturn(c) == PushAll(c, [i \in DOMAIN c.owned |-> DropOf(c.owned[i])])

BlockHasIncoming(c, bb) == \E i \in DOMAIN c.blocks : bb \in c.blocks[i].term.to
Fallsthrough(c) == c.cur = Entry \/ BlockHasIncoming(c, c.cur)

Bind(c, x, l) == PushOwned([c EXCEPT !.names[x] = l], l)

-----------------------------------------------------------------------------
(* The frames of the source being lowered. *)

Outer == Last(open)

\* The names an inner block may bind.
MayBind(x) ==
  \/ env[x] = NoLocal
  \/ env[x] # Outer.env[x]
  \/ "shadow" \in Forms

Known == {x \in Names : env[x] # NoLocal}

\* Opens a construct, whose body is lowered in a scope of its own.
Enter(frame, c) ==
  /\ Len(open) < MaxOpen
  /\ open' = Append(open, frame)
  /\ ctx' = c
  /\ spent' = spent + 1
  /\ UNCHANGED <<env, done>>

Frame(kind, exit, next) ==
  [kind |-> kind, exit |-> exit, next |-> next, env |-> env]

\* Lowers a construct that is complete in itself.
Emit(c) ==
  /\ ctx' = c
  /\ spent' = spent + 1
  /\ UNCHANGED <<open, env, done>>

EmitLet(x, c, l) ==
  /\ MayBind(x)
  /\ ctx' = Bind(c, x, l)
  /\ env' = [env EXCEPT ![x] = l]
  /\ spent' = spent + 1
  /\ UNCHANGED <<open, done>>

-----------------------------------------------------------------------------
(* Bindings and assignments. *)

LetLiteral(x, kind) ==
  LET l == NextLocal(ctx)
  IN EmitLet(x, PushAll(AllocLocal(ctx, kind), <<Literal(l)>>), l)

\* A binding to a name moves its value into a fresh local.
LetMove(x, y) ==
  /\ y \in Known
  /\ LET v == ctx.names[y]
         l == NextLocal(ctx)
     IN EmitLet(x, PushAll(AllocLocal(ctx, ctx.kinds[v]), <<Move(l, v), Deinit(v)>>), l)

AssignLiteral(x) ==
  /\ x \in Known
  /\ LET orig == ctx.names[x]
         v == NextLocal(ctx)
     IN Emit(PushAll(AllocLocal(ctx, ctx.kinds[orig]),
                     <<Literal(v), Move(orig, v), Deinit(v)>>))

AssignName(x, y) ==
  /\ {x, y} \subseteq Known
  /\ x = y => "self" \in Forms
  /\ LET orig == ctx.names[x]
         v == ctx.names[y]
     IN /\ ctx.kinds[v] = ctx.kinds[orig]
        /\ Emit(PushAll(ctx, <<Move(orig, v)>> \o (IF v = orig THEN <<>> ELSE <<Deinit(v)>>)))

-----------------------------------------------------------------------------
(* Calls. *)

\* A builtin that reads its argument: the argument is owned by the scope the
\* call stands in.
ReadLiteral(c, l) ==
  PushOwned(PushAll(AllocLocal(c, "string"), <<Literal(l), Read(l)>>), l)

UseLiteral == Emit(ReadLiteral(ctx, NextLocal(ctx)))

UseName(y) ==
  /\ y \in Known
  /\ LET v == ctx.names[y]
     IN Emit(PushOwned(PushAll(ctx, <<Read(v)>>), v))

\* A call of a function that takes its argument by value.
Consume(y) ==
  /\ y \in Known
  /\ LET v == ctx.names[y]
         ret == NextBb(ctx)
     IN Emit(PushAll(At(AllocBb(Term(ctx, ctx.cur, CallOwned(v, ret))), ret), <<Deinit(v)>>))

(***************************************************************************)
(* let x = f() ?: default.  The default is a literal, or, in the form      *)
(* "default", a call that first reads a literal.  Both arms move their     *)
(* value into the result, which x then denotes.                            *)
(***************************************************************************)
LetElvis(x, withCall) ==
  LET obj == NextLocal(ctx)
      called == NextBb(ctx)
      null == called + 1
      present == called + 2
      merge == called + 3
      asked == Term(AllocLocal(ctx, "string"), ctx.cur, CallNullable(obj, called))
      tested == At(Term(AllocBbs(asked, 4), called, NullTest(obj, null, present)), null)
      temp == IF withCall THEN ReadLiteral(tested, NextLocal(tested)) ELSE tested
      default == NextLocal(temp)
      result == default + 1
      absent == Term(PushAll(AllocLocal(AllocLocal(temp, "string"), "string"),
                             <<Literal(default), Move(result, default)>>), null, Goto(merge))
      both == Term(PushAll(At(absent, present), <<Move(result, obj)>>), present, Goto(merge))
  IN /\ withCall => "default" \in Forms
     /\ "string" \in Kinds
     /\ EmitLet(x, At(both, merge), result)

-----------------------------------------------------------------------------
(* Blocks, branches and loops. *)

OpenBlock == Enter(Frame("block", 0, 0), PushScope(ctx))

OpenIf(withElse) ==
  LET then == NextBb(ctx)
      merge == then + 1
      else == IF withElse THEN then + 2 ELSE merge
      c == AllocBbs(Term(ctx, ctx.cur, Branch(then, else)), IF withElse THEN 3 ELSE 2)
  IN Enter(Frame(IF withElse THEN "then" ELSE "block", merge, else), PushScope(At(c, then)))

\* A condition may call a builtin on a literal; the literal belongs to the
\* scope around the loop.
OpenWhile(withCall) ==
  LET hdr == NextBb(ctx)
      bdy == hdr + 1
      ext == hdr + 2
      start == At(AllocBbs(Term(ctx, ctx.cur, Goto(hdr)), 3), hdr)
      tested == IF withCall THEN ReadLiteral(start, NextLocal(start)) ELSE start
      body == At(Term(tested, hdr, Branch(bdy, ext)), bdy)
  IN /\ withCall => "string" \in Kinds
     /\ Enter(Frame("loop", hdr, ext),
           PushScope([body EXCEPT !.loops = Append(@, [break |-> ext, continue |-> hdr,
                                                       drop |-> Len(body.owned)])]))

\* What `loop' opens: the header is the body, and the exit waits for a break.
LoopBody(c) ==
  LET hdr == NextBb(c)
      body == At(AllocBbs(Term(c, c.cur, Goto(hdr)), 2), hdr)
  IN PushScope([body EXCEPT !.loops = Append(@, [break |-> hdr + 1, continue |-> hdr,
                                                 drop |-> Len(body.owned)])])

OpenLoop == Enter(Frame("loop", NextBb(ctx), NextBb(ctx) + 1), LoopBody(ctx))

Leave(c) ==
  /\ ctx' = c
  /\ open' = Front(open)
  /\ env' = Outer.env
  /\ UNCHANGED <<spent, done>>

\* The end of a block, of the last arm of an `if' or of a loop's body.
Close ==
  LET popped == PopScope(ctx)
      left == IF Outer.kind = "loop" THEN [popped EXCEPT !.loops = Front(@)] ELSE popped
  IN /\ Outer.kind \in {"block", "loop"}
     /\ Leave(IF Outer.exit = 0 THEN left
              ELSE At(Term(left, left.cur, Goto(Outer.exit)), Outer.next))

\* The end of the first arm of an `if' with an `else'.
CloseThen ==
  /\ Outer.kind = "then"
  /\ LET popped == PopScope(ctx)
     IN ctx' = PushScope(At(Term(popped, popped.cur, Goto(Outer.exit)), Outer.next))
  /\ open' = Append(Front(open), [Outer EXCEPT !.kind = "block", !.next = Outer.exit])
  /\ env' = Outer.env
  /\ UNCHANGED <<spent, done>>

\* let x = { ... y }: the value of the block moves into a result that
\* outlives its scope.
OpenInit == Enter(Frame("init", 0, 0), PushScope(ctx))

TailResult(c, y) ==
  LET v == c.names[y]
  IN PushAll(AllocLocal(c, c.kinds[v]), <<Move(NextLocal(c), v)>>)

MayEndWith(y) == y \in Known /\ (ctx.kinds[ctx.names[y]] = "record" => "tail" \in Forms)

CloseInit(x, y) ==
  /\ Outer.kind = "init"
  /\ MayEndWith(y)
  /\ Outer.env[x] = NoLocal
  /\ LET result == NextLocal(ctx)
     IN /\ ctx' = Bind(PopScope(TailResult(ctx, y)), x, result)
        /\ env' = [Outer.env EXCEPT ![x] = result]
  /\ open' = Front(open)
  /\ UNCHANGED <<spent, done>>

-----------------------------------------------------------------------------
(* Jumps. *)

\* Seeded defect: the jump leaves without dropping what the body owns.
LeaveLoopBare(where) ==
  /\ ctx.loops # <<>>
  /\ Emit(Jump(ctx, Goto(Last(ctx.loops)[where])))

\* The locals bound since the loop's body was entered are dropped and stay
\* owned: the end of the body, now a dead block, drains them.
LeaveLoop(where) ==
  /\ ctx.loops # <<>>
  /\ LET top == Last(ctx.loops)
     IN Emit(Jump(PushAll(ctx, DropsOf(OwnedSince(ctx, top.drop))), Goto(top[where])))

Break == LeaveLoop("break")
Continue == LeaveLoop("continue")

ReturnUnit == Emit(Jump(FlushAllForReturn(ctx), Return(<<>>)))

ReturnName(y) ==
  /\ y \in Known
  /\ ctx.kinds[ctx.names[y]] = "string"
  /\ Emit(Jump(FlushAllForReturn(ctx), Return(<<ctx.names[y]>>)))

-----------------------------------------------------------------------------
(* The end of the function. *)

\* Seeded defect: a tail return is emitted into dead blocks too, and so not
\* where the last statement was a branch.
FinishAtEntry(c, values) ==
  PopScope(IF c.cur = Entry THEN Term(c, c.cur, Return(values)) ELSE c)

\* The body's value is returned from the block control falls out of; the
\* drops of the parameters' scope come before that return.
FinishWith(c, values) ==
  PopScope(IF Fallsthrough(c) THEN Term(c, c.cur, Return(values)) ELSE c)

Finish ==
  /\ Len(open) = 1
  /\ \/ ctx' = FinishWith(PopScope(ctx), <<>>)
     \/ \E y \in Names :
          /\ MayEndWith(y)
          /\ ctx.kinds[ctx.names[y]] = "string"
          /\ ctx' = FinishWith(PopScope(TailResult(ctx, y)), <<NextLocal(ctx)>>)
  /\ done' = TRUE
  /\ UNCHANGED <<open, env, spent>>

-----------------------------------------------------------------------------
(***************************************************************************)
(* One parameter, owned by the function, in a scope around the body.  So   *)
(* that few constructs make an interesting program, the body may begin     *)
(* with a loop, which is not counted.                                      *)
(***************************************************************************)
Init ==
  \E p \in Names, inLoop \in BOOLEAN :
    LET none == [x \in Names |-> NoLocal]
        base == PushScope(PushOwned(PushScope(
                  [blocks |-> <<[stmts |-> <<>>, term |-> Placeholder]>>, cur |-> Entry,
                   kinds |-> <<"string">>, owned |-> <<>>, scopes |-> <<>>, loops |-> <<>>,
                   names |-> [none EXCEPT ![p] = 1]]), 1))
        body == [kind |-> "body", exit |-> 0, next |-> 0, env |-> none]
    IN /\ env = [none EXCEPT ![p] = 1]
       /\ ctx = IF inLoop THEN LoopBody(base) ELSE base
       /\ open = IF inLoop
                 THEN <<body, [kind |-> "loop", exit |-> 2, next |-> 3, env |-> env]>>
                 ELSE <<body>>
       /\ spent = 0
       /\ done = FALSE

Construct ==
  \/ \E x \in Names : \/ \E kind \in Kinds : LetLiteral(x, kind)
                      \/ \E y \in Names : LetMove(x, y)
                      \/ \E withCall \in BOOLEAN : LetElvis(x, withCall)
  \/ \E x \in Names : AssignLiteral(x) \/ \E y \in Names : AssignName(x, y)
  \/ UseLiteral
  \/ \E y \in Names : UseName(y) \/ Consume(y) \/ ReturnName(y)
  \/ OpenBlock \/ OpenInit \/ OpenLoop
  \/ \E withElse \in BOOLEAN : OpenIf(withElse)
  \/ \E withCall \in BOOLEAN : OpenWhile(withCall)
  \/ Break \/ Continue \/ ReturnUnit

Lower ==
  /\ ~done
  /\ \/ spent < MaxSource /\ Fallsthrough(ctx) /\ Construct
     \/ Close \/ CloseThen \/ Finish
     \/ \E x, y \in Names : CloseInit(x, y)

-----------------------------------------------------------------------------
(* Which blocks of a finished body control can reach. *)
Reached(blocks) ==
  LET within[n \in 0 .. Len(blocks)] ==
        IF n = 0 THEN {Entry}
        ELSE LET near == within[n - 1]
             IN near \cup UNION {blocks[b].term.to : b \in near}
  IN within[Len(blocks)]

(***************************************************************************)
(* Every block control can reach ends in a jump or a return: the reading   *)
(* of dead blocks by their incoming edges leaves no live one open.         *)
(***************************************************************************)
LiveBlocksEnd ==
  done => \A b \in Reached(ctx.blocks) : ctx.blocks[b].term # Placeholder

(***************************************************************************)
(* A name in scope denotes the local of the binding the type checker       *)
(* resolved it to, the innermost one around it.                            *)
(***************************************************************************)
NamesLexical == \A x \in Known : ctx.names[x] = env[x]
=============================================================================
