---------------------------- MODULE EdwardsCurve ----------------------------
(***************************************************************************)
(* dstu-core/src/hazmat/dstu9041/fp256.rs, fp384.rs and fp512.rs: the      *)
(* integers modulo p = 2^(W * LIMBS) - C, p = 5 modulo 8, in LIMBS words   *)
(* of W bits.  The files differ in their limb count (4, 6, 8) and in C     *)
(* (435, 2147, 875); what the reduction needs is that C^2 is below 2^W.    *)
(***************************************************************************)
EXTENDS Limbs

CONSTANTS LIMBS, C

P == Base ^ LIMBS - C
P_LIMBS == ToLimbs(P, LIMBS)

Element(x) == ToLimbs(x, LIMBS)
ZERO == Element(0)
ONE == Element(1)

conditional_sub_p(x) == cond_sub_if_ge(x, P_LIMBS)

\* a * c for a word c: the limbs and the word above them.
mul_small(a, c) == Chain(LAMBDA x, y, carry : mac(0, x, y, carry), a, Tabulate(LIMBS, LAMBDA i : c))

\* MulLimbs carries each row's last word into a limb that is still zero, where
\* the source adds it and goes on: the same limbs.
wide_mul(a, b) == MulLimbs(a, b)

\* As if the first overflow left nothing to carry.
reduce_wideOneFold(wide) ==
    LET hc  == mul_small(SubSeq(wide, LIMBS + 1, 2 * LIMBS), C)
        acc == AddLimbs(SubSeq(wide, 1, LIMBS), hc[1])
    IN  conditional_sub_p(AddLimbs(acc[1], Element(((acc[2] + hc[2]) * C) % Base))[1])

\* 2^(W * LIMBS) is C: the high half folds down times C, what overflows that
\* times C again, and what overflows once more.
reduce_wide(wide) ==
    LET hc   == mul_small(SubSeq(wide, LIMBS + 1, 2 * LIMBS), C)
        acc  == AddLimbs(SubSeq(wide, 1, LIMBS), hc[1])
        acc2 == AddLimbs(acc[1], Element(((acc[2] + hc[2]) * C) % Base))
        acc3 == AddLimbs(acc2[1], Element((acc2[2] * C) % Base))
    IN  conditional_sub_p(conditional_sub_p(conditional_sub_p(acc3[1])))

FAdd(a, b) ==
    Strict(LAMBDA x, y :
        LET r == AddLimbs(x, y)
            t == SubLimbs(r[1], P_LIMBS)
        IN  IF r[2] = 1 \/ t[2] = 0 THEN t[1] ELSE r[1], a, b)

\* A borrow leaves the difference 2^(W * LIMBS) too high: C less is p more.
FSub(a, b) ==
    Strict(LAMBDA x, y :
        LET r == SubLimbs(x, y)
        IN  SubLimbs(r[1], IF r[2] = 1 THEN Element(C) ELSE ZERO)[1], a, b)

multiply(a, b) == Strict(LAMBDA x, y : reduce_wide(wide_mul(x, y)), a, b)
square(a) == multiply(a, a)

-----------------------------------------------------------------------------
(***************************************************************************)
(* The powers of fp256.rs, fp384.rs and fp512.rs: inverses by Fermat, the  *)
(* test for squares, square roots for p = 5 modulo 8, and the rejection of *)
(* a sampled value that is not below p.                                    *)
(***************************************************************************)
\* Every bit of the exponent squares and multiplies; the bit selects.
pow_mod(a, e) ==
    Strict(LAMBDA x, n : Loop(W * LIMBS, ONE, LAMBDA r, i :
        IF BitAt(n, W * LIMBS - i) = 1 THEN multiply(square(r), x) ELSE square(r)), a, e)

invert(a) == pow_mod(a, P - 2)
euler_criterion(a) == pow_mod(a, (P - 1) \div 2) = ONE

\* The constant W of the source: 2^((p - 1) / 4), a square root of -1.
RootOfMinusOne == pow_mod(Element(2), (P - 1) \div 4)

sqrt(a) ==
    LET z == pow_mod(a, (P + 3) \div 8)
    IN  IF pow_mod(a, (P - 1) \div 4) = Element(P - 1) THEN multiply(RootOfMinusOne, z) ELSE z

None == [st |-> "None"]
Some(v) == [st |-> "Some", v |-> v]

from_candidate_bytes(x) ==
    IF SubLimbs(Element(x), P_LIMBS)[2] = 1 THEN Some(Element(x)) ELSE None

-----------------------------------------------------------------------------
(***************************************************************************)
(* dstu-core/src/hazmat/dstu9041/curve256.rs, curve384.rs and curve512.rs: *)
(* x^2 + a y^2 = 1 + d x^2 y^2 with a = 2 and d not squares, of order 4N.  *)
(* a/d is a square, so the addition law has exceptions: where z comes out  *)
(* zero, to_affine gives (0, 0), which is not on the curve.                *)
(***************************************************************************)
CONSTANT D

Point(x, y) == [x |-> x, y |-> y]
NEUTRAL == Point(ONE, ZERO)

curve_a == Element(2)
curve_d == Element(D)

is_on_curve(p) ==
    LET x2 == square(p.x)
        y2 == square(p.y)
    IN  FAdd(x2, multiply(curve_a, y2)) = FAdd(multiply(multiply(curve_d, x2), y2), ONE)

Projective(p) == [x |-> p.x, y |-> p.y, z |-> ONE]

to_affine(p) ==
    Strict(LAMBDA q, zi : Point(multiply(q.x, zi), multiply(q.y, zi)), p, invert(p.z))

ProjectiveSum(p, q) ==
    LET zz    == multiply(p.z, q.z)
        b     == square(zz)
        c     == multiply(p.x, q.x)
        dd    == multiply(p.y, q.y)
        e     == multiply(multiply(curve_d, c), dd)
        f     == FSub(b, e)
        g     == FAdd(b, e)
        cross == multiply(FAdd(p.x, p.y), FAdd(q.x, q.y))
    IN  [x |-> multiply(multiply(zz, g), FSub(c, multiply(curve_a, dd))),
         y |-> multiply(multiply(zz, f), FSub(FSub(cross, c), dd)),
         z |-> multiply(f, g)]

add(p, q) == to_affine(ProjectiveSum(Projective(p), Projective(q)))

\* From the top bit: double, add the point, and keep the sum or not.
scalar_multiply(p, k) ==
    LET times(q, n) == Loop(W * LIMBS, Projective(NEUTRAL), LAMBDA acc, i :
            LET twice == ProjectiveSum(acc, acc)
            IN  IF BitAt(n, W * LIMBS - i) = 1 THEN ProjectiveSum(twice, q) ELSE twice)
    IN  to_affine(Strict(times, Projective(p), k))

-----------------------------------------------------------------------------
(***************************************************************************)
(* curve256.rs, curve384.rs and curve512.rs: the subgroup of prime order N *)
(* that the base point generates, the points recovered from an x, and the  *)
(* range of a scalar.                                                      *)
(***************************************************************************)
CONSTANTS BASE_X, BASE_Y, N

base_point == Point(Element(BASE_X), Element(BASE_Y))
A_DIV_D == multiply(curve_a, invert(curve_d))

\* The y of a point with this x, of either sign.
Candidate(x) ==
    LET x2 == square(x)
    IN  multiply(FSub(ONE, x2), invert(FSub(curve_a, multiply(curve_d, x2))))

Excluded(x) ==
    x \in {ZERO, ONE, FSub(ZERO, ONE)} \/ square(x) = A_DIV_D

\* As if every point with a y were one of the subgroup.
point_from_xAnyOrder(x) ==
    LET v == Candidate(x)
    IN  IF Excluded(x) \/ ~euler_criterion(v) THEN None ELSE Some(Point(x, sqrt(v)))

\* Only a point of the subgroup the base point generates.
point_from_x(x) ==
    LET v == Candidate(x)
        p == Point(x, sqrt(v))
    IN  IF Excluded(x) \/ ~euler_criterion(v) \/ scalar_multiply(p, N) # NEUTRAL
        THEN None ELSE Some(p)

is_less_than(a, b) == SubLimbs(Element(a), Element(b))[2] = 1

\* As if n - 1 were in range.
is_valid_scalarToN(s) == is_less_than(1, s) /\ is_less_than(s, N)

is_valid_scalar(s) == is_less_than(1, s) /\ is_less_than(s, N - 1)
=============================================================================
