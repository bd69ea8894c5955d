-------------------------------- MODULE GF2 --------------------------------
(***************************************************************************)
(* Words and matrices over GF(2), as ijoux/joux_v3.c uses them.            *)
(*                                                                         *)
(* A W-bit word is the set of the positions of its ones (bit 0 is the      *)
(* least significant), so that ^ is symmetric difference and 0 is {}.  A   *)
(* matrix is an array of W words, its rows.                                *)
(***************************************************************************)
EXTENDS Integers, FiniteSets, FiniteSetsExt

CONSTANT W          \* bits in a word: 64

Bit == 0 .. W - 1
Word == SUBSET Bit
Matrix == [Bit -> Word]

Zero == {}
Xor(x, y) == SymDiff(x, y)

\* x >> (W - k): the k leading bits of x.
Top(x, k) == {b \in x : b >= W - k}

\* 1 << k
TwoTo(k) ==
    LET power[n \in 0 .. k] == IF n = 0 THEN 1 ELSE 2 * power[n - 1] IN power[k]

\* The number that the k bits of x below bit top spell, one after the other.
NumberOf(x, top, k) ==
    LET value[n \in 0 .. k] ==
            IF n = 0 THEN 0 ELSE 2 * value[n - 1] + (IF top - n \in x THEN 1 ELSE 0)
    IN  value[k]

\* The number that the leading k bits of x spell.
TopValue(x, k) == NumberOf(x, W, k)

\* The xor of the rows that x selects: a bit is set when an odd number of them
\* have it.
naive_gemv(x, M) == {b \in Bit : Cardinality({i \in x : b \in M[i]}) % 2 = 1}

\* Minv undoes M.
Inverts(Minv, M) == \A x \in Word : naive_gemv(naive_gemv(x, M), Minv) = x
=============================================================================
