-------------------------------- MODULE Rat --------------------------------
(***************************************************************************)
(* Exact rational arithmetic standing in for the Python float arithmetic  *)
(* of the modelling engine.  A number is a record [num, den] kept in      *)
(* lowest terms with den > 0.  Two IEEE-754 specials that the code        *)
(* produces and consumes are represented too: float('inf') is 1/0 and     *)
(* NaN (np.sqrt of a negative, scipy on an out-of-domain p) is 0/0.       *)
(* Products are cross-reduced before multiplying so that TLC's 32-bit     *)
(* integers stay in range for the small constants the models use.         *)
(***************************************************************************)
EXTENDS Integers

AbsI(n) == IF n < 0 THEN -n ELSE n

RECURSIVE Gcd(_, _)
Gcd(a, b) == IF b = 0 THEN a ELSE Gcd(b, a % b)

\* The rational n/d in lowest terms (d # 0).
R(n, d) ==
    LET g == Gcd(AbsI(n), AbsI(d))
        s == IF d < 0 THEN -1 ELSE 1
    IN  [num |-> s * (n \div g), den |-> s * (d \div g)]

I(n) == [num |-> n, den |-> 1]

Zero == I(0)
One  == I(1)
Inf  == [num |-> 1, den |-> 0]
NaN  == [num |-> 0, den |-> 0]

IsFinite(x) == x.den # 0
IsNaN(x)    == x = NaN

Plus(x, y) ==
    LET g == Gcd(x.den, y.den)
    IN  R(x.num * (y.den \div g) + y.num * (x.den \div g), (x.den \div g) * y.den)

Neg(x) == [num |-> -x.num, den |-> x.den]

Minus(x, y) == Plus(x, Neg(y))

Times(x, y) ==
    LET g1 == Gcd(AbsI(x.num), y.den)
        g2 == Gcd(AbsI(y.num), x.den)
    IN  IF x.num = 0 \/ y.num = 0 THEN Zero
        ELSE R((x.num \div g1) * (y.num \div g2), (x.den \div g2) * (y.den \div g1))

\* x / y for finite y # 0; the callers test the divisor first, as Python
\* raises ZeroDivisionError on a float division by zero.
Over(x, y) == Times(x, R(y.den, y.num))

\* x^k for k >= 0 (x^0 = 1, as 0 ** 0 in Python); num^k / den^k is in
\* lowest terms when num / den is.
PowR(x, k) == IF k = 0 THEN One ELSE [num |-> x.num ^ k, den |-> x.den ^ k]

\* Float comparisons: every comparison with NaN is false; inf compares
\* above every finite number (1/0 does so under cross multiplication).
LeR(x, y) == ~IsNaN(x) /\ ~IsNaN(y) /\ x.num * y.den <= y.num * x.den
LtR(x, y) == LeR(x, y) /\ x # y
GeR(x, y) == LeR(y, x)
GtR(x, y) == LtR(y, x)

\* a/b <= c/d for a, c >= 0 and b, d > 0, by comparing integer parts and
\* then the reciprocals of the remainders: no product is ever formed, so
\* it does not overflow where LeR's cross-multiplication would.
RECURSIVE FracLe(_, _, _, _)
FracLe(a, b, c, d) ==
    IF a \div b # c \div d THEN a \div b < c \div d
    ELSE IF a % b = 0 THEN TRUE
    ELSE IF c % d = 0 THEN FALSE
    ELSE FracLe(d, c % d, b, a % b)

\* LeR for large finite non-negative operands.
LeRWide(x, y) ==
    IF IsFinite(x) /\ IsFinite(y) /\ x.num >= 0 /\ y.num >= 0
    THEN FracLe(x.num, x.den, y.num, y.den) ELSE LeR(x, y)

MinR(x, y) == IF LeR(x, y) THEN x ELSE y

\* Integer part of a non-negative finite rational (Python int() truncation).
FloorR(x) == x.num \div x.den

\* The largest natural r with r * r <= n, by bisection of lo*lo <= n < hi*hi.
RECURSIVE ISqrtIn(_, _, _)
ISqrtIn(n, lo, hi) ==
    IF hi - lo <= 1 THEN lo
    ELSE LET mid == (lo + hi) \div 2
         IN  IF mid * mid <= n THEN ISqrtIn(n, mid, hi) ELSE ISqrtIn(n, lo, mid)
ISqrt(n) == ISqrtIn(n, 0, n + 1)

(***************************************************************************)
(* Binary floating point with a Mant-bit significand and no exponent      *)
(* limit: FloatRound(x, Mant) is x rounded to nearest, ties to even, as    *)
(* IEEE-754 rounds a result (Mant = 53 for a Python float).  NaN and inf  *)
(* round to themselves.                                                   *)
(***************************************************************************)
Pow2R(e) == IF e >= 0 THEN I(2^e) ELSE R(1, 2^(-e))

\* The e with 2^(Mant-1) <= x * 2^e < 2^Mant, for x > 0.
RECURSIVE ScaleExp(_, _, _)
ScaleExp(x, Mant, e) ==
    LET y == Times(x, Pow2R(e))
    IN  IF LtR(y, I(2^(Mant - 1))) THEN ScaleExp(x, Mant, e + 1)
        ELSE IF GeR(y, I(2^Mant)) THEN ScaleExp(x, Mant, e - 1)
        ELSE e

FloatRound(x, Mant) ==
    IF ~IsFinite(x) \/ x = Zero THEN x
    ELSE LET s    == IF x.num < 0 THEN -1 ELSE 1
             ax   == [num |-> s * x.num, den |-> x.den]
             e    == ScaleExp(ax, Mant, 0)
             y    == Times(ax, Pow2R(e))
             q    == FloorR(y)
             frac == Minus(y, I(q))
             up   == GtR(frac, R(1, 2)) \/ (frac = R(1, 2) /\ q % 2 = 1)
         IN  Times(I(s * (IF up THEN q + 1 ELSE q)), Pow2R(-e))

\* The e with 4^(Mant-1) <= x * 4^e < 4^Mant, for x > 0.
RECURSIVE SqrtScaleExp(_, _, _)
SqrtScaleExp(x, Mant, e) ==
    LET y == Times(x, Pow2R(2 * e))
    IN  IF LtR(y, I(4^(Mant - 1))) THEN SqrtScaleExp(x, Mant, e + 1)
        ELSE IF GeR(y, I(4^Mant)) THEN SqrtScaleExp(x, Mant, e - 1)
        ELSE e

\* np.sqrt(x) rounded to a Mant-bit significand; NaN for x < 0.
FloatSqrt(x, Mant) ==
    IF IsNaN(x) \/ LtR(x, Zero) THEN NaN
    ELSE IF x = Zero \/ x = Inf THEN x
    ELSE LET e  == SqrtScaleExp(x, Mant, 0)
             y  == Times(x, Pow2R(2 * e))
             m  == ISqrt(FloorR(y))
             up == LtR(I((2 * m + 1) * (2 * m + 1)), Times(I(4), y))
         IN  Times(I(IF up THEN m + 1 ELSE m), Pow2R(-e))

=============================================================================
