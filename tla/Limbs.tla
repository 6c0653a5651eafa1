------------------------------- MODULE Limbs -------------------------------
(***************************************************************************)
(* dstu-core/src/hazmat/limb.rs and the multi-limb loops the prime fields  *)
(* and the scalars build on it.  A number is a sequence of limbs of W bits *)
(* (the source has W = 64), least significant first; a byte array is the   *)
(* number it encodes, so that from_be_bytes and to_be_bytes are ToLimbs    *)
(* and ToNumber.                                                           *)
(***************************************************************************)
EXTENDS Bytes, Integers

CONSTANT W

Base == 2 ^ W

ToLimbs(x, n) == Tabulate(n, LAMBDA i : (x \div Base ^ (i - 1)) % Base)
ToNumber(a) == Loop(Len(a), 0, LAMBDA x, i : x * Base + a[Len(a) + 1 - i])

Top(x) == x >= Base \div 2

\* The carry out is the majority of the top bits, from the sum's own one: right
\* only for a carry in of 0 or 1.
adc(a, b, carry_in) ==
    LET s == (a + b + carry_in) % Base
    IN  <<s, IF (Top(a) /\ Top(b)) \/ ((Top(a) \/ Top(b)) /\ ~Top(s)) THEN 1 ELSE 0>>

sbb(a, b, borrow_in) ==
    LET d == (a - b - borrow_in) % Base
    IN  <<d, IF (~Top(a) /\ Top(b)) \/ ((~Top(a) \/ Top(b)) /\ Top(d)) THEN 1 ELSE 0>>

mac(r, a, b, carry) ==
    LET product == a * b
        lo      == adc(product % Base, r, 0)
        lo2     == adc(lo[1], carry, 0)
    IN  <<lo2[1], (product \div Base) + lo[2] + lo2[2]>>

\* A word operation along two numbers, its carry into the next limb.
Chain(op(_, _, _), a, b) ==
    Strict(LAMBDA c, d : Loop(Len(c), <<<<>>, 0>>, LAMBDA x, i :
        LET r == op(c[i], d[i], x[2]) IN <<Append(x[1], r[1]), r[2]>>), a, b)

AddLimbs(a, b) == Chain(adc, a, b)
SubLimbs(a, b) == Chain(sbb, a, b)

\* a - b if a >= b, else a: the mask is the borrow less one.
cond_sub_if_ge(a, b) ==
    LET d == SubLimbs(a, b) IN IF d[2] = 0 THEN d[1] ELSE a

\* Row i of the schoolbook product, added in at limb i; the limb above it has
\* not been written yet and takes the carry.
MulRow(out, a, b, i) ==
    LET row == Loop(Len(b), <<out, 0>>, LAMBDA x, j :
                   LET r == mac(x[1][i + j - 1], a[i], b[j], x[2])
                   IN  <<[x[1] EXCEPT ![i + j - 1] = r[1]], r[2]>>)
    IN  [row[1] EXCEPT ![i + Len(b)] = row[2]]

MulLimbs(a, b) ==
    Loop(Len(a), Zeros(Len(a) + Len(b)), LAMBDA out, i : MulRow(out, a, b, i))

\* (x << 1) | bit in as many limbs as x has.
shl1_or(x, bit) ==
    Tabulate(Len(x), LAMBDA i :
        ((2 * x[i]) % Base) + (IF i = 1 THEN bit ELSE x[i - 1] \div (Base \div 2)))

BitAt(k, i) == (k \div 2 ^ i) % 2
=============================================================================
