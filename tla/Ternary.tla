------------------------------- MODULE Ternary -------------------------------
(***************************************************************************)
(* Balanced ternary numbers and three-valued truth, as the libraries       *)
(* triet-core and triet-logic define them.  A number of n trits lies in    *)
(* -max .. max with max = (3^n - 1) / 2; the operators take max, since     *)
(* Tryte, Integer and Long differ in nothing else.  A truth value is a     *)
(* trit: -1 False, 0 Unknown, 1 True.  Panic stands for a panic, an error  *)
(* or None.                                                                *)
(***************************************************************************)
EXTENDS Integers

CONSTANT Panic \* no number

Within(max) == -max .. max

Checked(v, max) == IF v \in Within(max) THEN v ELSE Panic

\* Seeded defect: the remainder of a negative number is left negative.
WrappedTruncating(v, max) ==
    (IF v + max >= 0 THEN (v + max) % (2 * max + 1)
                     ELSE -((-(v + max)) % (2 * max + 1))) - max

Wrapped(v, max) == ((v + max) % (2 * max + 1)) - max

Clamped(v, max) == IF v > max THEN max ELSE IF v < -max THEN -max ELSE v

Magnitude(v) == IF v < 0 THEN -v ELSE v

\* Division truncates toward zero; the remainder has the dividend's sign.
Quotient(a, b) ==
    LET q == Magnitude(a) \div Magnitude(b)
    IN  IF (a < 0) = (b < 0) THEN q ELSE -q

Remainder(a, b) == a - b * Quotient(a, b)

\* What trit k of a number counts for.
Weight[k \in Nat] == IF k = 0 THEN 1 ELSE 3 * Weight[k - 1]

\* The exact sum, difference or product.
Exact(op, a, b) ==
    CASE op = "+" -> a + b
      [] op = "-" -> a - b
      [] op = "*" -> a * b

\* What the arithmetic operator op yields for two numbers in range.
Arithmetic(op, a, b, max) ==
    CASE op \in {"+", "-", "*"} -> Checked(Exact(op, a, b), max)
      [] op = "/" -> IF b = 0 THEN Panic ELSE Quotient(a, b)
      [] op = "%" -> IF b = 0 THEN Panic ELSE Remainder(a, b)

\* What the variants `.._and_truncate' and `.._and_saturate' yield instead.
Truncated(op, a, b, max) == Wrapped(Exact(op, a, b), max)

Saturated(op, a, b, max) == Clamped(Exact(op, a, b), max)

------------------------------------------------------------------------------

Truth == {-1, 0, 1}

Not(a) == -a

And(a, b) == IF a = -1 \/ b = -1 THEN -1 ELSE IF a = 1 /\ b = 1 THEN 1 ELSE 0

Or(a, b) == IF a = 1 \/ b = 1 THEN 1 ELSE IF a = -1 /\ b = -1 THEN -1 ELSE 0

Implies(a, b) ==
    CASE a = -1 -> 1
      [] a = 1 -> b
      [] a = 0 -> IF b = -1 THEN 0 ELSE 1

Iff(a, b) == And(Implies(a, b), Implies(b, a))

KleeneImplies(a, b) == Or(Not(a), b)

KleeneIff(a, b) == And(KleeneImplies(a, b), KleeneImplies(b, a))

\* What the connective op yields for two truth values.
Connective(op, a, b) ==
    CASE op = "and" -> And(a, b)
      [] op = "or" -> Or(a, b)
      [] op = "implies" -> Implies(a, b)
      [] op = "iff" -> Iff(a, b)
      [] op = "xor" -> Not(Iff(a, b))
      [] op = "k_implies" -> KleeneImplies(a, b)
      [] op = "k_iff" -> KleeneIff(a, b)
      [] op = "k_xor" -> Not(KleeneIff(a, b))

==============================================================================
