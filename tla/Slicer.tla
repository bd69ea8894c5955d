------------------------------- MODULE Slicer -------------------------------
(***************************************************************************)
(* preprocessing/slicer.c: cuts a list of hashes into slices.  A slice is  *)
(* a set of vectors that satisfy l linear equations found by information-  *)
(* set decoding, stored as M-transforms whose l leading bits are zero.     *)
(* preprocessing/slice_checker.c, which re-checks the output, is the       *)
(* predicate SliceChecked.                                                 *)
(*                                                                         *)
(* Words are those of GF2.  The matrix T of a round is the array of its W  *)
(* rows, each the set of the columns where it is one; the columns past the *)
(* last vector are zero and are left out.  lrand48() is a choice, and so   *)
(* is the clock: a search goes on or stops after any iteration.            *)
(***************************************************************************)
EXTENDS GF2, Sequences, SequencesExt

CONSTANTS
    Inputs,         \* what to slice: hashes, and --l, the equations of a slice
    RandomTrials,   \* n_random_trials: 6
    MaxIterations   \* bound: iterations of one search

\* What the program checks of its options, and its bounds.
SlicerAssumption ==
    /\ W \in Nat \ {0}
    /\ \A i \in Inputs : i.hashes \in Seq(Word) /\ i.l \in 0 .. W - 1
    /\ RandomTrials \in Nat
    /\ MaxIterations \in Nat \ {0}

VARIABLES
    input,
    active, reject,             \* the two lists
    equations,
    M, T, E,                    \* a round's vectors, their transpose, the change of basis
    j, scan, trials,            \* echelonize: column, next column to try, n_random_trials
    best_weight, best_equation, it,
    slice,                      \* the slice in hand
    done,                       \* vectors of the slices before it
    output_size,
    pc

vars == <<input, active, reject, equations, M, T, E, j, scan, trials, best_weight, best_equation, it,
          slice, done, output_size, pc>>

roundVars == <<M, T, E, j, scan, trials>>
bestVars == <<best_weight, best_equation, it>>
listVars == <<input, active, reject, equations>>
outVars == <<slice, done, output_size>>

L == input.hashes
l == input.l

k == Len(equations)
d == W - k

NoSlice == [l |-> 0, M |-> [i \in Bit |-> Zero], Minv |-> [i \in Bit |-> Zero], CM |-> <<>>]

\* Items are inserted at the head of the list.
Init ==
    /\ input \in Inputs
    /\ active = Reverse(L)
    /\ reject = <<>>
    /\ equations = <<>>
    /\ M = <<>>
    /\ T = [i \in Bit |-> {}]
    /\ E = [i \in Bit |-> {i}]
    /\ j = 0 /\ scan = 0 /\ trials = 0
    /\ best_weight = 0 /\ best_equation = Zero /\ it = 0
    /\ slice = NoSlice
    /\ done = <<>>
    /\ output_size = 0
    /\ pc = "slice"

\* The number of words of struct slice_t without its vectors.
Header == 2 * W + 2

\* What is allocated for the output.
output_space == Header * (1 + (Len(L) \div (W - l))) + Len(L)

satisfy_equation(x, eq) == Cardinality(x \cap eq) % 2 = 0

(***************************************************************************)
(* echelonize                                                              *)
(***************************************************************************)
transpose(vectors) == [i \in Bit |-> {c \in 0 .. Len(vectors) - 1 : i \in vectors[c + 1]}]

StartEchelonize(vectors) ==
    /\ M' = vectors
    /\ T' = transpose(vectors)
    /\ E' = [i \in Bit |-> {i}]
    /\ j' = 0
    /\ scan' = 1
    /\ trials' = RandomTrials

swap_columns(a, b) ==
    [i \in Bit |-> IF (a \in T[i]) = (b \in T[i]) THEN T[i] ELSE SymDiff(T[i], {a, b})]

SwapRows(A, a, b) == [A EXCEPT ![a] = A[b], ![b] = A[a]]

\* Row pivot is added to every other row that has a one in column c of the matrix C.
Eliminated(A, C, pivot, c) ==
    [i \in Bit |-> IF i # pivot /\ c \in C[i] THEN SymDiff(A[i], A[pivot]) ELSE A[i]]

\* Mutant: rows that have been a pivot are not left out.
AnyRow == {i \in Bit : j \in T[i]}

PivotRows == {i \in j .. W - 1 : j \in T[i]}

Pivot ==
    /\ pc \in {"rank", "search"}
    /\ j < d
    /\ PivotRows # {}
    /\ LET p  == Min(PivotRows)
           T1 == SwapRows(T, p, j)
       IN  /\ T' = Eliminated(T1, T1, j, j)
           /\ E' = Eliminated(SwapRows(E, p, j), T1, j, j)
    /\ j' = j + 1
    /\ scan' = j + 2
    /\ UNCHANGED <<M, trials, pc, listVars, bestVars, outVars>>

\* Mutant: the search does not advance.
SameColumn == scan

NextColumn == scan + 1

\* A column without a pivot is exchanged for a random one, and after n_random_trials of those
\* for the next one in order.
SwapColumn ==
    /\ pc \in {"rank", "search"}
    /\ j < d
    /\ PivotRows = {}
    /\ LET m == Len(M) IN
       \/ /\ trials > 0 /\ j + 1 < m
          /\ \E o \in j + 1 .. m - 1 : T' = swap_columns(j, o)
          /\ trials' = trials - 1
          /\ UNCHANGED scan
       \/ /\ ~(trials > 0 /\ j + 1 < m)
          /\ scan < m
          /\ T' = swap_columns(j, scan)
          /\ scan' = NextColumn
          /\ UNCHANGED trials
    /\ UNCHANGED <<M, E, j, pc, listVars, bestVars, outVars>>

\* echelonize returns j: all columns done, or no column left to try.
Echelonized ==
    \/ j = d
    \/ /\ PivotRows = {}
       /\ ~(trials > 0 /\ j + 1 < Len(M))
       /\ scan >= Len(M)

(***************************************************************************)
(* slice_it                                                                *)
(***************************************************************************)
StartRound ==
    /\ pc = "slice"
    /\ active # <<>>
    /\ k < l
    /\ StartEchelonize(active)
    /\ pc' = "rank"
    /\ UNCHANGED <<listVars, bestVars, outVars>>

\* check_rank_defect: the rows that became zero are equations that hold already.
FreeEquations == [i \in 1 .. d - j |-> E[j + i - 1]]

RankChecked ==
    /\ pc = "rank"
    /\ Echelonized
    /\ equations' = equations \o FreeEquations
    /\ pc' = IF \E r \in j .. d - 1 : T[r] # {} THEN "assert"
             ELSE IF k + (d - j) >= l THEN "slice"
             ELSE IF Len(M) < j THEN "assert"
             ELSE "permute"
    /\ best_weight' = Len(M)
    /\ best_equation' = Zero
    /\ it' = 0
    /\ UNCHANGED <<input, active, reject, roundVars, outVars>>

Exchanged(v, i, o) == [v EXCEPT ![i] = v[o], ![o] = v[i]]

\* One iteration of Lee and Brickell: the first d vectors are drawn at random.
Permuted(vectors, draws) ==
    FoldLeft(LAMBDA v, i : Exchanged(v, i, draws[i]), vectors, [i \in 1 .. d |-> i])

Permute ==
    /\ pc = "permute"
    /\ it' = it + 1
    /\ \E draws \in [1 .. d -> 1 .. Len(M)] :
        /\ \A i \in 1 .. d : draws[i] >= i
        /\ StartEchelonize(Permuted(M, draws))
    /\ pc' = "search"
    /\ UNCHANGED <<listVars, best_weight, best_equation, outVars>>

\* The lightest row found so far.
Weight(i) == Cardinality(T[i])

Better == {i \in 0 .. d - 1 : Weight(i) < best_weight}

Weighed ==
    /\ pc = "search"
    /\ Echelonized
    /\ IF j # d THEN /\ pc' = "assert"
                     /\ UNCHANGED <<best_weight, best_equation>>
       ELSE /\ IF Better = {} THEN UNCHANGED <<best_weight, best_equation>>
               ELSE LET row == CHOOSE i \in Better : \A o \in Better :
                                   Weight(i) < Weight(o) \/ (Weight(i) = Weight(o) /\ i <= o)
                    IN  /\ best_weight' = Weight(row)
                        /\ best_equation' = E[row]
            /\ \/ pc' = "filter"
               \/ it < MaxIterations /\ pc' = "permute"
    /\ UNCHANGED <<listVars, it, roundVars, outVars>>

\* An item that does not satisfy the equation moves to the head of the other list.
Moved(lists, x) ==
    IF satisfy_equation(x, best_equation) THEN <<Append(lists[1], x), lists[2]>>
                                          ELSE <<lists[1], <<x>> \o lists[2]>>

filter_active ==
    /\ pc = "filter"
    /\ LET lists == FoldLeft(Moved, <<<<>>, reject>>, active)
       IN  active' = lists[1] /\ reject' = lists[2]
    /\ equations' = Append(equations, best_equation)
    /\ pc' = "slice"
    /\ UNCHANGED <<input, roundVars, bestVars, outVars>>

(***************************************************************************)
(* The slice                                                               *)
(***************************************************************************)
\* The equations, padded with random words to W rows, and transposed.
PaddedMatrix(random) ==
    LET rows == [i \in Bit |-> IF i < d THEN random[i] ELSE equations[i - d + 1]]
    IN  [b \in Bit |-> {i \in Bit : b \in rows[i]}]

Nonsingular(A) == \A x \in Word \ {Zero} : naive_gemv(x, A) # Zero

\* Draws are repeated until one inverts; a thousand failures mean that none does.
Draw ==
    /\ pc = "slice"
    /\ active # <<>>
    /\ k >= l
    /\ LET drawn == {PaddedMatrix(random) : random \in [0 .. d - 1 -> Word]} IN
       \/ \E A \in drawn :
            /\ Nonsingular(A)
            /\ slice' = [NoSlice EXCEPT !.l = k, !.M = A]
            /\ T' = A
            /\ pc' = "invert"
       \/ /\ \A A \in drawn : ~Nonsingular(A)
          /\ pc' = "impossible"
          /\ UNCHANGED <<slice, T>>
    /\ E' = [i \in Bit |-> {i}]
    /\ j' = 0
    /\ output_size' = output_size + Header + Len(active)
    /\ UNCHANGED <<listVars, M, scan, trials, bestVars, done>>

\* invert: Gauss-Jordan on a copy of the matrix, without exchanging columns.
Invert ==
    /\ pc = "invert"
    /\ j < W
    /\ IF PivotRows = {} THEN /\ pc' = "assert"
                              /\ UNCHANGED <<T, E>>
       ELSE LET T1 == SwapRows(T, Min(PivotRows), j)
            IN  /\ T' = Eliminated(T1, T1, j, j)
                /\ E' = Eliminated(SwapRows(E, Min(PivotRows), j), T1, j, j)
                /\ UNCHANGED pc
    /\ j' = j + 1
    /\ UNCHANGED <<M, scan, trials, listVars, bestVars, outVars>>

SaveSlice ==
    /\ pc = "invert"
    /\ j = W
    /\ slice' = [slice EXCEPT !.Minv = E,
                              !.CM = [i \in DOMAIN active |-> naive_gemv(active[i], slice.M)]]
    /\ pc' = "saved"
    /\ UNCHANGED <<listVars, roundVars, bestVars, done, output_size>>

\* The vectors of the slice are done with; the rejected ones are active again.
NextSlice ==
    /\ pc = "saved"
    /\ done' = done \o active
    /\ active' = reject
    /\ reject' = <<>>
    /\ equations' = <<>>
    /\ slice' = NoSlice
    /\ pc' = "slice"
    /\ M' = <<>> /\ T' = [i \in Bit |-> {}] /\ E' = [i \in Bit |-> {i}]
    /\ j' = 0 /\ scan' = 0 /\ trials' = 0
    /\ best_weight' = 0 /\ best_equation' = Zero /\ it' = 0
    /\ UNCHANGED <<input, output_size>>

Written ==
    /\ pc = "slice"
    /\ active = <<>>
    /\ pc' = "written"
    /\ UNCHANGED <<listVars, roundVars, bestVars, outVars>>

Slice == \/ StartRound \/ Pivot \/ SwapColumn \/ RankChecked \/ Permute \/ Weighed
         \/ filter_active \/ Draw \/ Invert \/ SaveSlice \/ NextSlice \/ Written

Finished == pc = "written" /\ UNCHANGED vars

Next == Slice \/ Finished

Spec == Init /\ [][Next]_vars /\ WF_vars(Slice)

(***************************************************************************)
(* slice_checker.c                                                         *)
(***************************************************************************)
\* A slice with its l equations, inverse matrices, and vectors of the list.
SliceChecked(s) ==
    /\ s.l >= l
    /\ \A i \in Bit : naive_gemv(s.M[i], s.Minv) = {i} /\ naive_gemv(s.Minv[i], s.M) = {i}
    /\ \A i \in DOMAIN s.CM : /\ Top(s.CM[i], s.l) = Zero
                              /\ naive_gemv(s.CM[i], s.Minv) \in Range(L)

(***************************************************************************)
(* Properties                                                              *)
(***************************************************************************)
\* The equations of a slice are independent however the search went - those that check_rank_defect
\* adds to the ones found before included - so that they can be padded to an invertible matrix:
\* "the impossible happened" does not happen, and none of the assertions on the way fails.
NeverImpossible == pc \notin {"assert", "impossible"}

\* The checker accepts every slice, and the slices together hold the vectors of the input.
SlicesChecked ==
    /\ pc = "saved" => SliceChecked(slice)
    /\ pc = "written" => /\ Len(done) = Len(L)
                         /\ \A x \in Range(L) : Cardinality({i \in DOMAIN done : done[i] = x})
                                                = Cardinality({i \in DOMAIN L : L[i] = x})

\* The output stays inside the space allocated for it before the first slice is known: every
\* slice but the last has at least W - l vectors.
OutputFits == output_size <= output_space

\* Every slice can be made, passes the checker and has room in the output.
SlicesSound == NeverImpossible /\ SlicesChecked /\ OutputFits

\* Slicing ends: every slice takes a vector.
SlicingEnds == <>(pc = "written")
=============================================================================
