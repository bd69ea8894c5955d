------------------------------- MODULE Matmul -------------------------------
(***************************************************************************)
(* ijoux/joux_v3.c: matmul_init and gemv, the product of a word and a      *)
(* matrix by table lookups.                                                *)
(*                                                                         *)
(* The W rows of M are cut into groups of BYTE; the table of a group holds *)
(* the xor of every selection of its rows.  The loop of matmul_init walks  *)
(* the selections in Gray-code order, one xor each; the groups are shared  *)
(* among the threads of a parallel for.                                    *)
(***************************************************************************)
EXTENDS GF2

CONSTANTS
    BYTE,           \* bits that index a table: 8
    Matrices        \* the matrices considered

Group == 0 .. W \div BYTE - 1
Slot == 0 .. TwoTo(BYTE) - 1

\* What the tables need of the sizes.
ASSUME MatmulAssumption ==
    /\ BYTE \in Nat \ {0} /\ W \in Nat \ {0} /\ W % BYTE = 0
    /\ Matrices \subseteq Matrix

Unset == "unset"    \* an entry of the uninitialised table

VARIABLES
    M,
    tables,
    j, tmp          \* of the loop over each group
productVars == <<M, tables, j, tmp>>

ProductInit ==
    /\ M \in Matrices
    /\ tables = [g \in Group |-> [s \in Slot |-> IF s = 0 THEN Zero ELSE Unset]]
    /\ j = [g \in Group |-> 1]
    /\ tmp = [g \in Group |-> Zero]

\* Mutant: the position of the last one, in place of the first.
fls(n) ==
    LET last[m \in Slot] == IF m = 0 THEN 0 ELSE 1 + last[m \div 2] IN last[n]

\* The position of the first one of n, counted from 1.
ffs(n) ==
    LET first[m \in Slot] ==
            IF m = 0 THEN 0 ELSE IF m % 2 = 1 THEN 1 ELSE 1 + first[m \div 2]
    IN  first[n]

\* n ^ (n >> 1), the n-th Gray code: its last bit, and the code of what is before.
Gray(n) ==
    LET code[m \in Slot] ==
            IF m = 0 THEN 0 ELSE ((m + m \div 2) % 2) + 2 * code[m \div 2]
    IN  code[n]

\* One turn of the inner loop.
Fill(g) ==
    /\ j[g] < TwoTo(BYTE)
    /\ LET t == Xor(tmp[g], M[g * BYTE + ffs(j[g]) - 1])
       IN  /\ tmp' = [tmp EXCEPT ![g] = t]
           /\ tables' = [tables EXCEPT ![g][Gray(j[g])] = t]
    /\ j' = [j EXCEPT ![g] = @ + 1]
    /\ UNCHANGED M

AllFilled == \A g \in Group : j[g] = TwoTo(BYTE)

\* The parallel for is over.
Ready == AllFilled /\ UNCHANGED productVars

ProductStep == (\E g \in Group : Fill(g)) \/ Ready

ProductSpec == ProductInit /\ [][ProductStep]_productVars

-----------------------------------------------------------------------------
\* The g-th group of bits of x, as a number.
ByteOf(x, g) == NumberOf(x, (g + 1) * BYTE, BYTE)

\* The xor of the entries that the groups of x select.
gemv(x) ==
    {b \in Bit : Cardinality({g \in Group : b \in tables[g][ByteOf(x, g)]}) % 2 = 1}

\* The table product is the product: every table entry has been written, each
\* with the xor of the rows its own index selects, though the loop visits them in
\* another order.
TableProduct == AllFilled => \A x \in Word : gemv(x) = naive_gemv(x, M)
=============================================================================
