------------------------------- MODULE Bytes -------------------------------
(***************************************************************************)
(* The byte strings and little-endian words the ciphers of                 *)
(* dstu-core/src/hazmat work on.  A byte is a number below 256 and a       *)
(* string of them a sequence; a u64 is the sequence of its eight bytes,    *)
(* least significant first, because that is how every one of these files   *)
(* reads and writes it (to_le_bytes, from_le_bytes), and because TLC's     *)
(* numbers have 32 bits.                                                   *)
(***************************************************************************)
EXTENDS Naturals, Sequences

Byte == 0 .. 255

\* The sequence <<f(1), ..., f(n)>>.  The concatenation makes it a tuple,
\* whose elements are computed once.
Tabulate(n, f(_)) == [i \in 1 .. n |-> f(i)] \o <<>>

\* for i in 1..=n { x = f(x, i) }.  Drawing a value from a set makes TLC compute
\* it there and then.
ShortLoop(n, x0, f(_, _)) ==
    LET x[i \in 0 .. n] ==
            IF i = 0 THEN x0 ELSE CHOOSE y \in {f(p, i) : p \in {x[i - 1]}} : TRUE
    IN  x[n]

\* f of arguments that are computed first.
Strict(f(_, _), a, b) == CHOOSE z \in {f(x, y) : x \in {a}, y \in {b}} : TRUE

\* In two levels, which is less for TLC to keep on its stack.
Loop(n, x0, f(_, _)) ==
    LET part(x, j) == ShortLoop(IF 8 * j <= n THEN 8 ELSE n % 8, x, LAMBDA y, i : f(y, 8 * (j - 1) + i))
    IN  CHOOSE y \in {ShortLoop((n + 7) \div 8, first, part) : first \in {x0}} : TRUE

Zeros(n) == Tabulate(n, LAMBDA i : 0)

Bit(a, i) == (a \div 2 ^ i) % 2

NibbleXor == [a \in 0 .. 15 |-> [b \in 0 .. 15 |->
    LET d(i) == ((Bit(a, i) + Bit(b, i)) % 2) * 2 ^ i IN d(0) + d(1) + d(2) + d(3)]]

XorTable == [a \in Byte |-> [b \in Byte |->
    NibbleXor[a \div 16][b \div 16] * 16 + NibbleXor[a % 16][b % 16]]]

Xor(a, b) == XorTable[a][b]

\* zip: the XOR of two strings, as long as the first one; what the second
\* one has not is left as it was.
XorBytes(a, b) ==
    Tabulate(Len(a), LAMBDA i : IF i <= Len(b) THEN Xor(a[i], b[i]) ELSE a[i])

NotBytes(a) == Tabulate(Len(a), LAMBDA i : 255 - a[i])

\* wrapping_add of two little-endian words of the same length, with the
\* carry that comes in.
RECURSIVE AddCarry(_, _, _)
AddCarry(a, b, carry) ==
    IF a = <<>> THEN <<>>
    ELSE LET s == a[1] + b[1] + carry
         IN  <<s % 256>> \o AddCarry(Tail(a), Tail(b), s \div 256)

Add(a, b) == AddCarry(a, b, 0)

\* wrapping_sub: a + !b + 1.
Sub(a, b) == AddCarry(a, NotBytes(b), 1)

\* The low n bytes of a number, least significant first.
RECURSIVE LE(_, _)
LE(x, n) == IF n = 0 THEN <<>> ELSE <<x % 256>> \o LE(x \div 256, n - 1)

\* The slice of a sequence that starts after off elements and has n of them.
Slice(s, off, n) == SubSeq(s, off + 1, off + n)

\* chunks_exact: the whole blocks of n bytes; Remainder: what follows them.
Chunks(s, n) == Tabulate(Len(s) \div n, LAMBDA i : Slice(s, (i - 1) * n, n))
Remainder(s, n) == Slice(s, (Len(s) \div n) * n, Len(s) % n)

\* s with the elements of t written over it after off elements.
Overwrite(s, off, t) ==
    Tabulate(Len(s), LAMBDA i : IF i \in off + 1 .. off + Len(t) THEN t[i - off] ELSE s[i])

\* Resizes to n bytes with zeros.
Padded(s, n) == Tabulate(n, LAMBDA i : IF i <= Len(s) THEN s[i] ELSE 0)

RECURSIVE Flatten(_)
Flatten(ss) == IF ss = <<>> THEN <<>> ELSE Head(ss) \o Flatten(Tail(ss))
=============================================================================
