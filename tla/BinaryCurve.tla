---------------------------- MODULE BinaryCurve ----------------------------
(***************************************************************************)
(* dstu-core/src/hazmat/dstu4145/gf2m163.rs and gf2m257.rs: GF(2^M) in     *)
(* LIMBS words of W bits, the top one not full, reduced by x^M plus the    *)
(* terms below it.  gf2m163.rs has W = 64, LIMBS = 3, TERMS = <<7, 6, 3>>; *)
(* gf2m257.rs has W = 64, LIMBS = 5, TERMS = <<12>> and one bit in its top *)
(* word.                                                                   *)
(***************************************************************************)
EXTENDS Limbs, TLC

CONSTANTS LIMBS, M, TERMS,
          CHAIN     \* the pairs <<i, j>> of the inversion's addition chain

Wide == INSTANCE Gf2mWide

ZERO == Zeros(LIMBS)
ONE == ToLimbs(1, LIMBS)

Plus(a, b) == Strict(XorBytes, a, b)

\* No bit at or above M.
is_canonical(a) == a[LIMBS] \div 2 ^ (M % W) = 0

\* Bit-serial, from the lowest bit of a: b moves up by one bit a step.
poly_mul_wide(a, b) ==
    Loop(M, <<Zeros(2 * LIMBS), Padded(b, 2 * LIMBS)>>, LAMBDA x, n :
        <<IF Bit(a[((n - 1) \div W) + 1], (n - 1) % W) = 1 THEN XorBytes(x[1], x[2]) ELSE x[1],
          Wide!Shl(x[2], 1)>>)[1]

\* Bit j of half a word goes to bit 2j of a word.
spread32to64(x) == Loop(W \div 2, 0, LAMBDA y, j : y + Bit(x, j - 1) * 4 ^ (j - 1))

square_wide(a) ==
    Tabulate(2 * LIMBS, LAMBDA i :
        LET w == a[(i + 1) \div 2]
        IN  spread32to64(IF i % 2 = 1 THEN w % 2 ^ (W \div 2) ELSE w \div 2 ^ (W \div 2)))

Powers == TERMS \o <<0>>

\* Word j (from 0) folds onto the two words below it that its bits reach.
FoldWord(c, j) ==
    Loop(Len(Powers), [c EXCEPT ![j + 1] = 0], LAMBDA x, i :
        LET shift == (M - Powers[i]) % W
        IN  Wide!Into(Wide!Into(x, j + 1 - LIMBS, c[j + 1] \div 2 ^ shift),
                      j - LIMBS, Wide!ShlWord(c[j + 1], W - shift)))

\* What the top word still has at or above M.
Cleanup(c) ==
    LET overflow == c[LIMBS] \div 2 ^ (M % W)
    IN  Loop(Len(Powers), [c EXCEPT ![LIMBS] = @ % 2 ^ (M % W)], LAMBDA x, i :
            Wide!Into(x, 0, Wide!ShlWord(overflow, Powers[i])))

\* As if folding the words were enough.
reduce163NoCleanup(c) ==
    SubSeq(Loop(LIMBS, c, LAMBDA x, i : FoldWord(x, 2 * LIMBS - i)), 1, LIMBS)

reduce163(c) ==
    SubSeq(Cleanup(Cleanup(Loop(LIMBS, c, LAMBDA x, i : FoldWord(x, 2 * LIMBS - i)))), 1, LIMBS)

\* The top word has one bit: everything above it folds at once,
Pass1(c) ==
    LET h1 == Tabulate(LIMBS, LAMBDA i :
                  (c[i + LIMBS - 1] \div 2) + Wide!ShlWord(c[i + LIMBS], W - 1))
    IN  XorBytes(XorBytes([SubSeq(c, 1, LIMBS) EXCEPT ![LIMBS] = @ % 2], h1),
                 Wide!Shl(h1, TERMS[1]))

\* and what that pushed over the top once more.
reduce257(c) ==
    LET pass1 == Pass1(c)
        h2    == pass1[LIMBS] \div 2
    IN  [pass1 EXCEPT ![LIMBS] = @ % 2,
                      ![1] = Xor(Xor(@, h2), Wide!ShlWord(h2, TERMS[1]))]

reduce(c) == IF M % W = 1 THEN reduce257(c) ELSE reduce163(c)

\* The two ways multiply may take, by what the CPU has.
multiply(a, b) == Strict(LAMBDA x, y : reduce(poly_mul_wide(x, y)), a, b)
multiply_hw(a, b) == reduce(Wide!poly_mul_wide_hw(a, b))

square(a) == Strict(LAMBDA x, y : reduce(square_wide(x)), a, a)

sq_n(x, n) == Loop(n, x, LAMBDA y, i : square(y))

\* T_(i+j) = T_i^(2^j) * T_j along the chain, for T_k = a^(2^k - 1), and the
\* square of the last one: a^(2^M - 2), which is 0 for 0.
invert(a) ==
    square(Loop(Len(CHAIN), 1 :> a, LAMBDA T, n :
               LET i == CHAIN[n][1]
                   j == CHAIN[n][2]
               IN  (i + j) :> multiply(sq_n(T[i], j), T[j]) @@ T)[M - 1])

-----------------------------------------------------------------------------
(***************************************************************************)
(* dstu-core/src/hazmat/dstu4145/curve163.rs and curve257.rs: the points   *)
(* of y^2 + xy = x^3 + A x^2 + B, where A is 1 in the first file and 0 in  *)
(* the second.                                                             *)
(***************************************************************************)
CONSTANTS A, B, GX, GY,
          N         \* order(): the generator's, the order of the curve being N times the cofactor

Infinity == <<>>
Affine(x, y) == <<x, y>>

generator == Affine(GX, GY)

negate(p) == IF p = Infinity THEN p ELSE Affine(p[1], Plus(p[1], p[2]))

\* The term the curve's coefficient A contributes.
Times_A(x) == IF A = 1 THEN x ELSE ZERO

Equation(p) ==
    Plus(square(p[2]), multiply(p[1], p[2]))
        = Plus(Plus(multiply(p[1], square(p[1])), Times_A(square(p[1]))), B)

is_on_curve(p) == p # Infinity /\ is_canonical(p[1]) /\ is_canonical(p[2]) /\ Equation(p)

double(p) ==
    IF p = Infinity \/ p[1] = ZERO THEN Infinity
    ELSE LET lambda == Plus(p[1], multiply(p[2], invert(p[1])))
             x3     == Plus(Plus(square(lambda), lambda), Times_A(ONE))
         IN  Affine(x3, Plus(square(p[1]), multiply(Plus(lambda, ONE), x3)))

add(p, q) ==
    IF p = Infinity THEN q
    ELSE IF q = Infinity THEN p
    ELSE IF p[1] = q[1] THEN (IF p[2] = q[2] THEN double(p) ELSE Infinity)
    ELSE LET lambda == multiply(Plus(p[2], q[2]), invert(Plus(p[1], q[1])))
             x3     == Plus(Plus(Plus(square(lambda), lambda), Plus(p[1], q[1])), Times_A(ONE))
         IN  Affine(x3, Plus(Plus(multiply(lambda, Plus(p[1], x3)), x3), p[2]))

(***************************************************************************)
(* scalar_multiply: Montgomery's ladder over the x coordinates of two      *)
(* points that differ by P, (x1 : z1) and (x2 : z2), and y recovered at    *)
(* the end.                                                                *)
(***************************************************************************)
cswap(swap, l) ==
    IF swap THEN [x1 |-> l.x2, z1 |-> l.z2, x2 |-> l.x1, z2 |-> l.z1] ELSE l

LadderStep(x, l, swap) ==
    LET s  == cswap(swap, l)
        z1 == square(Plus(multiply(s.x1, s.z2), multiply(s.x2, s.z1)))
    IN  cswap(swap,
            [x1 |-> Plus(multiply(x, z1),
                         multiply(multiply(multiply(s.x1, s.x2), s.z1), s.z2)),
             z1 |-> z1,
             x2 |-> Plus(sq_n(s.x2, 2), multiply(B, sq_n(s.z2, 2))),
             z2 |-> multiply(square(s.x2), square(s.z2))])

Ladder(x, k) ==
    LET steps(px, m) == Loop(M, [x1 |-> ONE, z1 |-> ZERO, x2 |-> px, z2 |-> ONE], LAMBDA l, n :
                            LadderStep(px, l, BitAt(m, M - n) = 0))
    IN  Strict(steps, x, k)

YFormula(p, l, xa) ==
    LET t1 == Plus(xa, p[1])
        t2 == Plus(multiply(l.x2, invert(l.z2)), p[1])
    IN  Plus(multiply(multiply(invert(p[1]), t1),
                      Plus(Plus(multiply(t1, t2), square(p[1])), p[2])), p[2])

\* As if y were always taken from the formula.
RecoverYByFormula(p, l, xa) == YFormula(p, l, xa)

\* z2 = 0 says that (k + 1)P is infinity, that is kP = -P, where the formula
\* has nothing to go on.
RecoverY(p, l, xa) == IF l.z2 = ZERO THEN Plus(p[1], p[2]) ELSE YFormula(p, l, xa)

scalar_multiply(p, k) ==
    IF p = Infinity THEN p
    ELSE LET l  == Ladder(p[1], k)
             xa == multiply(l.x1, invert(l.z1))
         IN  IF l.z1 = ZERO THEN Infinity ELSE Affine(xa, RecoverY(p, l, xa))

(***************************************************************************)
(* Lopez-Dahab coordinates (curve163.rs only), for verify: x = X/Z,        *)
(* y = Y/Z^2, infinity has Z = 0.                                          *)
(***************************************************************************)
ProjectiveInfinity == [x |-> ONE, y |-> ONE, z |-> ZERO]

from_affine(p) == IF p = Infinity THEN ProjectiveInfinity ELSE [x |-> p[1], y |-> p[2], z |-> ONE]

Projective_double(p) ==
    LET a == square(p.z)
        b == multiply(B, square(a))
        c == square(p.x)
        z == multiply(a, c)
        x == Plus(square(c), b)
    IN  IF p.z = ZERO THEN p
        ELSE [x |-> x, z |-> z,
              y |-> Plus(multiply(Plus(Plus(square(p.y), z), b), x), multiply(z, b))]

\* For two points with different x.
MixedSum(p, q, a, b) ==
    LET c  == multiply(b, p.z)
        z3 == square(c)
        x3 == Plus(square(a), multiply(c, Plus(Plus(a, square(b)), c)))
    IN  [x |-> x3, z |-> z3,
         y |-> Plus(multiply(Plus(multiply(q[1], z3), x3), Plus(multiply(a, c), z3)),
                    multiply(Plus(q[2], q[1]), square(z3)))]

\* As if adding a point to itself were like adding its negative.
mixed_addNoDouble(p, q) ==
    LET a == Plus(p.y, multiply(q[2], square(p.z)))
        b == Plus(p.x, multiply(q[1], p.z))
    IN  CASE q = Infinity -> p
          [] q # Infinity /\ p.z = ZERO -> from_affine(q)
          [] q # Infinity /\ p.z # ZERO ->
                IF b # ZERO THEN MixedSum(p, q, a, b) ELSE ProjectiveInfinity

\* The sum with a point in affine coordinates.
mixed_add(p, q) ==
    LET a == Plus(p.y, multiply(q[2], square(p.z)))
        b == Plus(p.x, multiply(q[1], p.z))
    IN  CASE q = Infinity -> p
          [] q # Infinity /\ p.z = ZERO -> from_affine(q)
          [] q # Infinity /\ p.z # ZERO ->
                IF b # ZERO THEN MixedSum(p, q, a, b)
                ELSE IF a = ZERO THEN Projective_double(p) ELSE ProjectiveInfinity

to_affine(p) ==
    LET zi == invert(p.z)
    IN  IF p.z = ZERO THEN Infinity
        ELSE Affine(multiply(p.x, zi), multiply(p.y, square(zi)))

\* s*g + r*q, both scalars' bits at once from the highest one set.
shamir_double_scalar_multiply(g, s, q, r) ==
    LET sum      == add(g, q)
        entry(i) == CASE BitAt(s, i) = 0 /\ BitAt(r, i) = 0 -> Infinity
                      [] BitAt(s, i) = 0 /\ BitAt(r, i) = 1 -> q
                      [] BitAt(s, i) = 1 /\ BitAt(r, i) = 0 -> g
                      [] BitAt(s, i) = 1 /\ BitAt(r, i) = 1 -> sum
        set      == {i \in 0 .. M - 1 : BitAt(s, i) = 1 \/ BitAt(r, i) = 1}
        top      == CHOOSE i \in set : \A j \in set : j <= i
    IN  IF set = {} THEN Infinity
        ELSE to_affine(Loop(top, from_affine(entry(top)), LAMBDA acc, n :
                 IF entry(top - n) = Infinity THEN Projective_double(acc)
                 ELSE mixed_add(Projective_double(acc), entry(top - n))))

-----------------------------------------------------------------------------
(***************************************************************************)
(* scalar.rs and scalar257.rs: the scalars, modulo the order N of the base *)
(* point, as limbs.  Encoded ones are the numbers their bytes encode.      *)
(***************************************************************************)
None == [st |-> "None"]
Some(v) == [st |-> "Some", v |-> v]

OrderLimbs == ToLimbs(N, LIMBS)

from_candidate_bytes(d) ==
    LET limbs == ToLimbs(d, LIMBS)
    IN  IF SubLimbs(limbs, OrderLimbs)[2] = 1 /\ limbs # ZERO THEN Some(limbs) ELSE None

\* Shift in the bits of x from the top, less N whenever that fits.
ReduceBits(x, bits) ==
    Loop(bits, ZERO, LAMBDA r, i :
        cond_sub_if_ge(shl1_or(r, BitAt(x, bits - i)), OrderLimbs))

reduce_wide_bytes(x, bits) == ReduceBits(x, bits)

Scalar_multiply(a, b) == ReduceBits(ToNumber(MulLimbs(a, b)), 2 * LIMBS * W)

\* As if the sum were left unreduced.
Scalar_addUnreduced(a, b) == AddLimbs(a, b)[1]

Scalar_add(a, b) == cond_sub_if_ge(AddLimbs(a, b)[1], OrderLimbs)
=============================================================================
