------------------------------- MODULE Scalars -------------------------------
(***************************************************************************)
(* Expressions over the scalar types, from the type checker's rules        *)
(* through lowering to the machine code that evaluates them.  An expression*)
(* is built bottom-up on a stack.  An entry holds its type `ty' (base, and *)
(* whether it is nullable), whether lowering gave its local a nullable     *)
(* type, `opt', and the 64-bit word it evaluates to, or Trap when its      *)
(* evaluation stops the program: an operand that is not evaluated does not *)
(* trap.  A step the type checker or lowering rejects is not taken.        *)
(*                                                                         *)
(* Integer's range is -Max .. Max, Tryte's is -TryteMax .. TryteMax, the   *)
(* word's is -Bound .. Bound - 1, and its least value is the null of every *)
(* nullable type.  Bounds: the literals of Long are Longs; two operands,   *)
(* and a third, a literal, for the last arm of an `if'.                    *)
(***************************************************************************)
EXTENDS Integers, Sequences

CONSTANTS Max, TryteMax, Bound, Longs, Trap

ASSUME RangesFit ==
    /\ Max \in Nat \ {0} /\ TryteMax \in 1 .. Max
    /\ Bound \in Nat /\ 2 * Max < Bound
    /\ Longs \subseteq 0 .. Bound - 1
    /\ Trap \notin Int

VARIABLES
    stack,  \* the operands evaluated so far, the last one on top
    shim    \* the registers of a running call to __triet_pow, or Idle

scalars == <<stack, shim>>

INSTANCE Ternary WITH Panic <- Trap

\* Integer's largest number has all its trits set.
ASSUME AllTritsSet == \E n \in 1 .. Max : 2 * Max + 1 = Weight[n]

Word == -Bound .. Bound - 1
NullWord == -Bound

------------------------------------------------------------------------------
(* Types *)

Numbers == {"Trit", "Tryte", "Integer", "Long"}
Trileans == {"Trilean", "Trilean!"}
Types == [base : Numbers \cup Trileans, null : BOOLEAN]

Plain(base) == [base |-> base, null |-> FALSE]
Inner(t) == Plain(t.base)

IsNumeric(t) == ~t.null /\ t.base \in Numbers
IsTrilean(t) == ~t.null /\ t.base \in Trileans

\* Seeded defect: a Trilean is accepted where a Trilean! is expected.
AcceptsEither(a, b) ==
    a = b \/ {a, b} = Trileans \/ (a = "Integer" /\ b = "Trilean!")

\* A base type a accepts a value of the base type b.
Accepts(a, b) == a = b \/ (a \in {"Trilean", "Integer"} /\ b = "Trilean!")

\* A place of type s accepts a value of type t.
Matches(s, t) ==
    IF s.null /\ ~t.null THEN s.base = t.base
                         ELSE s.null = t.null /\ Accepts(s.base, t.base)

\* The type of an `if' whose arms have the types a and b; {} if they differ.
Unified(a, b) ==
    LET Wrap(t) == [t EXCEPT !.null = TRUE]
    IN  CASE Matches(a, b) -> {a}
          [] ~Matches(a, b) /\ Matches(b, a) -> {b}
          [] ~Matches(a, b) /\ ~Matches(b, a) ->
               IF a.null /\ ~b.null /\ Matches(Wrap(b), a) THEN {Wrap(b)}
               ELSE IF b.null /\ ~a.null /\ Matches(Wrap(a), b) THEN {Wrap(a)}
               ELSE {}

Arith == {"+", "-", "*", "/", "%"}
Equality == {"==", "!="}
Order == {"<", "<=", ">", ">="}
Logic == {"and", "or", "implies", "iff", "xor", "k_implies", "k_iff", "k_xor"}
Operators == Arith \cup {"**"} \cup Equality \cup Order \cup Logic

\* The type checker accepts the operator op between operands of types l and r.
Typed(op, l, r) ==
    \/ op \in Arith \cup {"**"} \cup Order /\ IsNumeric(l) /\ IsNumeric(r) /\ Matches(l, r)
    \/ op \in Equality /\ Matches(l, r)
    \/ op \in Logic /\ IsTrilean(l) /\ IsTrilean(r)

\* The result of a comparison or connective may be Unknown.
MayBeUnknown(op, l, r) ==
    \/ op \in Equality /\ (l.null \/ r.null \/ "Trit" \in {l.base, r.base})
    \/ op \in Equality \cup Logic /\ "Trilean" \in {l.base, r.base}

ResultType(op, l, r) ==
    IF op \in Arith \cup {"**"} THEN l
    ELSE IF MayBeUnknown(op, l, r) THEN Plain("Trilean") ELSE Plain("Trilean!")

------------------------------------------------------------------------------
(* Machine code *)

\* A 64-bit sum or difference of two words.
Overflowing(v) ==
    IF v >= Bound THEN v - 2 * Bound ELSE IF v < -Bound THEN v + 2 * Bound ELSE v

\* Seeded defect: the upper half of the product is not looked at.
MultipliedLow(a, b) ==
    Checked(((a * b + Bound) % (2 * Bound)) - Bound, Max)

Multiplied(a, b) == IF a * b \in Word THEN Checked(a * b, Max) ELSE Trap

\* sdiv and srem; the hardware traps on zero and on the one quotient too big.
Divided(a, b) == IF b = 0 \/ (a = NullWord /\ b = -1) THEN Trap ELSE Quotient(a, b)
Modulo(a, b) == IF b = 0 \/ (a = NullWord /\ b = -1) THEN Trap ELSE Remainder(a, b)

Decided(p) == IF p THEN 1 ELSE -1
Less(a, b) == IF a < b THEN a ELSE b
Greater(a, b) == IF a > b THEN a ELSE b

ImpliedBy(a, b) ==
    IF a = -1 THEN 1 ELSE IF a = 1 THEN b ELSE IF b = -1 THEN 0 ELSE 1

\* The word that the code for a op b leaves, or Trap.
Execute(op, a, b) ==
    CASE op = "+" -> Checked(Overflowing(a + b), Max)
      [] op = "-" -> Checked(Overflowing(a - b), Max)
      [] op = "*" -> Multiplied(a, b)
      [] op = "/" -> Divided(a, b)
      [] op = "%" -> Modulo(a, b)
      [] op = "==" -> Decided(a = b)
      [] op = "!=" -> Decided(a # b)
      [] op = "<" -> Decided(a < b)
      [] op = "<=" -> Decided(a <= b)
      [] op = ">" -> Decided(a > b)
      [] op = ">=" -> Decided(a >= b)
      [] op = "and" -> Less(a, b)
      [] op = "or" -> Greater(a, b)
      [] op = "implies" -> ImpliedBy(a, b)
      [] op = "iff" -> Less(ImpliedBy(a, b), ImpliedBy(b, a))
      [] op = "xor" -> -Less(ImpliedBy(a, b), ImpliedBy(b, a))
      [] op = "k_implies" -> Greater(-a, b)
      [] op = "k_iff" -> Less(Greater(-a, b), Greater(-b, a))
      [] op = "k_xor" -> -Less(Greater(-a, b), Greater(-b, a))

\* A strict operator stops the program when one of its operands does.
Strict(op, a, b) == IF Trap \in {a, b} THEN Trap ELSE Execute(op, a, b)

------------------------------------------------------------------------------

Idle == [running |-> FALSE]

Entry(ty, opt, val) == [ty |-> ty, opt |-> opt, val |-> val]

Top == stack[Len(stack)]

\* The operand below the top one.
Below == stack[Len(stack) - 1]

\* The stack with its last n entries replaced by e.
Replace(n, e) == stack' = Append(SubSeq(stack, 1, Len(stack) - n), e)

ScalarsInit == stack = <<>> /\ shim = Idle

Push(e) ==
    /\ ~shim.running
    /\ Len(stack) < 2 \/ (Len(stack) = 2 /\ IsTrilean(stack[1].ty))
    /\ stack' = Append(stack, e)
    /\ UNCHANGED shim

LiteralsOf(base) ==
    CASE base = "Trit" -> Truth
      [] base = "Tryte" -> 0 .. TryteMax
      [] base = "Integer" -> Within(Max)
      [] base = "Long" -> Longs
      [] base = "Trilean" -> {0}
      [] base = "Trilean!" -> {-1, 1}

Literal == \E base \in Numbers \cup Trileans : \E v \in LiteralsOf(base) :
    Push(Entry(Plain(base), FALSE, v))

\* `~0' where a nullable type is expected.
Absent == \E base \in Numbers \cup Trileans :
    Push(Entry([base |-> base, null |-> TRUE], TRUE, NullWord))

Ready(n) == ~shim.running /\ n <= Len(stack) /\ Len(stack) <= 2

\* `let x: t = e', and x after it.
Annotate == \E t \in Types :
    /\ Ready(1) /\ Matches(t, Top.ty)
    /\ Replace(1, Entry(t, t.null, Top.val))
    /\ UNCHANGED shim

\* -x, !x and not x are one operator, lowered as 0 - x.
Negate ==
    /\ Ready(1) /\ (IsNumeric(Top.ty) \/ IsTrilean(Top.ty))
    /\ Replace(1, Entry(Top.ty, FALSE, Strict("-", 0, Top.val)))
    /\ UNCHANGED shim

Binary == \E op \in Operators \ {"**"} :
    /\ Ready(2) /\ Typed(op, Below.ty, Top.ty)
    /\ Replace(2, Entry(ResultType(op, Below.ty, Top.ty), FALSE,
                        Strict(op, Below.val, Top.val)))
    /\ UNCHANGED shim

\* The call of __triet_pow: its registers, and the operands they came from.
Power ==
    /\ Ready(2) /\ Typed("**", Below.ty, Top.ty)
    /\ IF Trap \in {Below.val, Top.val} \/ Top.val < 0
       THEN /\ Replace(2, Entry(Below.ty, FALSE,
                                IF Trap \in {Below.val, Top.val} THEN Trap ELSE 0))
            /\ UNCHANGED shim
       ELSE /\ shim' = [running |-> TRUE, result |-> 1, e |-> Top.val, b |-> Below.val]
            /\ UNCHANGED stack

PowReturn(v) ==
    /\ Replace(2, Entry(Below.ty, FALSE, v))
    /\ shim' = Idle

\* Seeded defect: the base is squared once more after its last use.
SquaredAlways(b, e) == Checked(b * b, Max)

\* The next value of the base: not squared when no bit of e is left.
Squared(b, e) == IF e > 0 THEN Checked(b * b, Max) ELSE b

\* One turn of the shim's loop, or its return; an overflow aborts.
PowLoop ==
    /\ shim.running
    /\ LET r == IF shim.e % 2 = 1 THEN Checked(shim.result * shim.b, Max)
                                  ELSE shim.result
           b == Squared(shim.b, shim.e \div 2)
       IN  IF shim.e = 0 THEN PowReturn(shim.result)
           ELSE IF Trap \in {r, b} THEN PowReturn(Trap)
           ELSE /\ shim' = [shim EXCEPT !.result = r, !.e = @ \div 2, !.b = b]
                /\ UNCHANGED stack

\* A two-way branch: the first arm is taken when the condition is positive.
Branch(cond, first, second) ==
    IF cond = Trap THEN Trap ELSE IF cond > 0 THEN first ELSE second

\* e ?: default
Elvis ==
    /\ Ready(2) /\ Below.ty.null /\ Below.opt /\ Matches(Inner(Below.ty), Top.ty)
    /\ Replace(2, Entry(Inner(Below.ty), FALSE,
                        Branch(Strict("==", Below.val, NullWord), Top.val, Below.val)))
    /\ UNCHANGED shim

\* e!!
ForceUnwrap ==
    /\ Ready(1) /\ Top.ty.null /\ Top.opt
    /\ Replace(1, Entry(Inner(Top.ty), FALSE,
                        Branch(Strict("==", Top.val, NullWord), Trap, Top.val)))
    /\ UNCHANGED shim

\* `if c {t} else {e}', or `if? ...' when relaxed: only the types tell them apart.
IfElse == \E relaxed \in BOOLEAN :
    /\ ~shim.running /\ Len(stack) = 3
    /\ stack[1].ty = Plain("Trilean!") \/ (relaxed /\ stack[1].ty = Plain("Trilean"))
    /\ \E t \in Unified(Below.ty, Top.ty) :
         Replace(3, Entry(t, Below.opt, Branch(stack[1].val, Below.val, Top.val)))
    /\ UNCHANGED shim

ScalarsNext ==
    \/ Literal \/ Absent \/ Annotate \/ Negate \/ Binary \/ Power \/ PowLoop
    \/ Elvis \/ ForceUnwrap \/ IfElse

ScalarsSpec == ScalarsInit /\ [][ScalarsNext]_scalars

------------------------------------------------------------------------------

\* Between an operator's two operands, both evaluated.
Operands(base) ==
    /\ Len(stack) >= 2
    /\ \A e \in {Below, Top} : e.ty = Plain(base) /\ e.val # Trap

\* An expression has a type, and a local that lowering calls nullable is one to the
\* type checker too: an operator that strips the null gives both a plain type.
ScalarsTypeOK ==
    /\ Len(stack) <= 3
    /\ \A i \in 1 .. Len(stack) :
         /\ stack[i] \in [ty : Types, opt : BOOLEAN, val : Word \cup {Trap}]
         /\ stack[i].opt => stack[i].ty.null

\* The words a type admits besides the null of a nullable one.  Only Integer's range
\* is enforced, so that of Trit and Tryte is Integer's, and Long has every word.
Admits(base) ==
    CASE base = "Trilean!" -> {-1, 1}
      [] base = "Trilean" -> Truth
      [] base = "Long" -> Word \ {NullWord}
      [] base \in {"Trit", "Tryte", "Integer"} -> Within(Max)

\* Types are sound: what an expression evaluates to is a value of the type the checker
\* gave it.  A Trilean! is never Unknown (so a plain `if' never meets Unknown), an
\* Integer never leaves its range, and only a nullable type ever holds the null word,
\* through every path of literals, operators, annotations and branches.
Sound == \A i \in 1 .. Len(stack) :
    LET e == stack[i]
    IN  e.val = Trap \/ (e.ty.null /\ e.val = NullWord) \/ e.val \in Admits(e.ty.base)

\* On the operands an expression can have, the machine code of an operator computes what
\* the libraries define, and stops exactly when they panic: Integer arithmetic, although
\* the code checks neither the operands nor a quotient, and both logics' connectives.
AgreesWithCore ==
    /\ Operands("Integer") => \A op \in Arith :
         Execute(op, Below.val, Top.val) = Arithmetic(op, Below.val, Top.val, Max)
    /\ \A l, r \in Trileans : \A op \in Logic :
         (/\ Len(stack) >= 2 /\ Below.ty = Plain(l) /\ Top.ty = Plain(r)
          /\ Trap \notin {Below.val, Top.val})
         => Execute(op, Below.val, Top.val) = Connective(op, Below.val, Top.val)

\* base to the power n, multiplied out one factor at a time.
MultipliedOut(base, n) ==
    LET p[k \in 0 .. n] == IF k = 0 THEN 1
                           ELSE LET q == p[k - 1]
                                IN  IF q = Trap THEN Trap ELSE Checked(q * base, Max)
    IN  p[n]

\* __triet_pow squares its way to the power: it returns the product of as many factors
\* as the exponent says, and aborts only when that product leaves Integer's range.
PowerExact == [][shim.running /\ ~shim'.running =>
    stack'[Len(stack')].val = MultipliedOut(Below.val, Top.val)]_scalars

\* Trit k of the balanced expansion of v.
TritOf(v, k) == (((v + (Weight[k + 1] - 1) \div 2) \div Weight[k]) % 3) - 1

\* The variants for overflow agree on every sum, difference and product of Integers: the
\* truncating one keeps the low trits of the exact result, the saturating one is the
\* nearest Integer, and both are the checked result when there is one.
OverflowVariants == Operands("Integer") => \A op \in {"+", "-", "*"} :
    LET v == Exact(op, Below.val, Top.val)
        truncated == Truncated(op, Below.val, Top.val, Max)
        saturated == Saturated(op, Below.val, Top.val, Max)
    IN  /\ {truncated, saturated} \subseteq Within(Max)
        /\ \A k \in 0 .. Max : Weight[k] <= Max => TritOf(truncated, k) = TritOf(v, k)
        /\ \A w \in Within(Max) : Magnitude(v - saturated) <= Magnitude(v - w)
        /\ Arithmetic(op, Below.val, Top.val, Max) # Trap => {truncated, saturated} = {v}

\* A Tryte stays in its range: arithmetic on Trytes that leaves it stops the program.
TryteInRange == \A i \in 1 .. Len(stack) :
    stack[i].ty.base = "Tryte" => stack[i].val \in Within(TryteMax) \cup {Trap, NullWord}

==============================================================================
