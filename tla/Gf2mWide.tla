------------------------------ MODULE Gf2mWide ------------------------------
(***************************************************************************)
(* dstu-core/src/hazmat/gf2m_wide.rs: GF(2^m), m = W * LIMBS, as LIMBS     *)
(* words of W bits, reduced by x^m + sum of x^t over t in TERMS + 1.  The  *)
(* source has W = 64; what the algorithms need of W is that a nibble       *)
(* divides it and that every term is below it.                             *)
(***************************************************************************)
EXTENDS Bytes, Integers, FiniteSets

CONSTANTS W, LIMBS, TERMS

LIMBS2 == 2 * LIMBS

add(a, b) == XorBytes(a, b)

ShlWord(x, s) == (x * 2 ^ s) % 2 ^ W
ShrWord(x, s) == x \div 2 ^ s

\* shl1 and shl4: the whole array, the bits pushed out of a limb going into
\* the next one.
Shl(x, s) == Tabulate(Len(x), LAMBDA i :
    ShlWord(x[i], s) + IF i = 1 THEN 0 ELSE ShrWord(x[i - 1], W - s))

\* XORs v into the word at index i, counted from 0.
Into(c, i, v) == [c EXCEPT ![i + 1] = Xor(@, v)]

double(a) ==
    LET out == Shl(a, 1)
    IN  IF ShrWord(a[LIMBS], W - 1) = 0 THEN out
        ELSE [out EXCEPT ![1] = Loop(Len(TERMS), Xor(@, 1), LAMBDA x, i : Xor(x, 2 ^ TERMS[i]))]

\* The rows of a shifted by 0 to 3 bits, and one step per nibble of b from
\* the top: four bits up, then the rows the nibble's bits select.  Only the
\* first LIMBS + 1 words of a row can be nonzero.
Nibble(acc, rows, b, n) ==
    LET nibble  == ShrWord(b[(n \div (W \div 4)) + 1], 4 * (n % (W \div 4))) % 16
        pick(j) == IF Bit(nibble, j) = 1 THEN Slice(rows[j + 1], 0, LIMBS + 1) ELSE <<>>
    IN  XorBytes(XorBytes(XorBytes(XorBytes(Shl(acc, 4), pick(0)), pick(1)), pick(2)), pick(3))

poly_mul_wide(a, b) ==
    LET row0 == Padded(a, LIMBS2)
        row1 == Shl(row0, 1)
        row2 == Shl(row1, 1)
        rows == <<row0, row1, row2, Shl(row2, 1)>>
        n    == LIMBS * (W \div 4)
    IN  Loop(n, Zeros(LIMBS2), LAMBDA acc, i : Nibble(acc, rows, b, n - i))

\* The carry-less product of two words, what PCLMULQDQ and PMULL compute: its
\* low and its high word.
clmul64(x, y) ==
    Loop(W, <<0, 0>>, LAMBDA lohi, i :
        IF Bit(y, W - i) = 1 THEN XorBytes(Shl(lohi, 1), <<x>>) ELSE Shl(lohi, 1))

\* Schoolbook over the words, the pairs (i, j) in the source's order.
poly_mul_wide_hw(a, b) ==
    Loop(LIMBS * LIMBS, Zeros(LIMBS2), LAMBDA out, n :
        LET i == (n - 1) \div LIMBS
            j == (n - 1) % LIMBS
            p == clmul64(a[i + 1], b[j + 1])
        IN  Into(Into(out, i + j, p[1]), i + j + 1, p[2]))

\* Word i, for i from the top down to LIMBS, folds as a whole onto the words
\* i - LIMBS and i - LIMBS + 1.
FoldWord(c, i) ==
    LET t == c[i + 1]
        base == i - LIMBS
    IN  Loop(Len(TERMS), Into(c, base, t), LAMBDA x, j :
            Into(Into(x, base, ShlWord(t, TERMS[j])), base + 1, ShrWord(t, W - TERMS[j])))

\* As if the words were folded from the lowest up.
reduceAscending(c) ==
    SubSeq(Loop(LIMBS, c, LAMBDA x, i : FoldWord(x, LIMBS + i - 1)), 1, LIMBS)

reduce(c) == SubSeq(Loop(LIMBS, c, LAMBDA x, i : FoldWord(x, LIMBS2 - i)), 1, LIMBS)

multiply(a, b) == reduce(poly_mul_wide(a, b))

(***************************************************************************)
(* The reference: polynomials as sets of exponents.                        *)
(***************************************************************************)
Exponents(a) == {e \in 0 .. W * Len(a) - 1 : Bit(a[(e \div W) + 1], e % W) = 1}

SymDiff(s, t) == (s \ t) \cup (t \ s)

RECURSIVE ModPoly(_)
ModPoly(s) ==
    LET over == {e \in s : e >= W * LIMBS} IN
    IF over = {} THEN s
    ELSE LET e == CHOOSE e \in over : \A f \in over : f <= e
             d == e - W * LIMBS
         IN  ModPoly(SymDiff(s \ {e}, {d} \cup {d + TERMS[j] : j \in DOMAIN TERMS}))

PolyProduct(s, t) ==
    {e \in 0 .. 2 * W * LIMBS : Cardinality({x \in s : (e - x) \in t}) % 2 = 1}
=============================================================================
