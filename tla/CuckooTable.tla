---------------------------- MODULE CuckooTable ----------------------------
(***************************************************************************)
(* ijoux/datastructures.h: the hash table that holds a slice's vectors.    *)
(* cuckoo_build inserts the list with two hash functions, moving the       *)
(* elements in its way; if an insertion does not come to rest, the table   *)
(* is cleared and filled again by linear probing, and the caller is told   *)
(* which of the two lookups to use.                                        *)
(*                                                                         *)
(* 0 marks a free entry.  The hash functions take 9 bits of a 64-bit word; *)
(* here they are any two functions, chosen initially, that map 0 to 0.     *)
(***************************************************************************)
EXTENDS Integers, Sequences

CONSTANTS
    CM_HASH_SIZE,
    Value,          \* the 64-bit words other than 0
    Lists           \* the lists the table is built from

Index == 0 .. CM_HASH_SIZE - 1

ASSUME CuckooAssumption ==
    /\ CM_HASH_SIZE \in Nat \ {0}
    /\ Value \subseteq Int /\ 0 \notin Value
    /\ Lists \subseteq Seq(Value)

VARIABLES
    H0, H1,         \* the hash functions
    L,              \* the list
    H,              \* the table
    build,          \* where cuckoo_build is: "next", "kick", "linear", "hang", "done"
    i,              \* position in L
    x, h, loops,    \* cuckoo_insert: element in hand, where it goes, rounds
    fail

hashes == <<H0, H1, L>>
tableVars == <<hashes, H, build, i, x, h, loops, fail>>

Empty == [s \in Index |-> 0]

\* cuckoo_build clears the table.
TableInit ==
    /\ H0 \in {f \in [Value \cup {0} -> Index] : f[0] = 0}
    /\ H1 \in {f \in [Value \cup {0} -> Index] : f[0] = 0}
    /\ L \in Lists
    /\ H = Empty /\ build = "next" /\ i = 1
    /\ x = 0 /\ h = 0 /\ loops = 0
    /\ fail = FALSE

\* cuckoo_insert(H, L[i]) starts at the first hash.
StartInsert ==
    /\ build = "next"
    /\ i <= Len(L)
    /\ x' = L[i] /\ h' = H0[L[i]] /\ loops' = 0
    /\ build' = "kick"
    /\ UNCHANGED <<hashes, H, i, fail>>

\* Mutant: the hashes are those of the element inserted, not of the one displaced.
PlaceOfInserted(y) == IF H0[x] = h THEN H1[x] ELSE H0[x]

\* The other place of an element found at h.
OtherPlace(y) == IF H0[y] = h THEN H1[y] ELSE H0[y]

\* The loop of cuckoo_insert goes on.
RoundsLeft == loops < 2 * CM_HASH_SIZE

\* One round: x and the entry at h change places; the insertion ends when the
\* entry was free.
Kick ==
    /\ build = "kick"
    /\ RoundsLeft
    /\ H' = [H EXCEPT ![h] = x]
    /\ x' = H[h]
    /\ \/ /\ x' = 0
          /\ build' = "next" /\ i' = i + 1
          /\ UNCHANGED <<h, loops>>
       \/ /\ x' # 0
          /\ h' = OtherPlace(H[h]) /\ loops' = loops + 1
          /\ UNCHANGED <<build, i>>
    /\ UNCHANGED <<hashes, fail>>

\* Mutant: the table is not cleared before it is filled again.
Reused == H

\* The table the linear insertions start with.
Cleared == Empty

\* Too many rounds: start again with linear probing.
GiveUp ==
    /\ build = "kick"
    /\ ~RoundsLeft
    /\ fail' = TRUE
    /\ H' = Cleared
    /\ i' = 1 /\ x' = 0
    /\ build' = "linear"
    /\ UNCHANGED <<hashes, h, loops>>

\* The n-th entry that linear probing looks at for y.
Probe(y, n) == (H0[y] + n) % CM_HASH_SIZE

\* linear_insert stops at the first free entry.
FirstFree(y, n) == H[Probe(y, n)] = 0 /\ \A k \in 0 .. n - 1 : H[Probe(y, k)] # 0

LinearInsert ==
    /\ build = "linear"
    /\ i <= Len(L)
    /\ \E n \in Index :
         /\ FirstFree(L[i], n)
         /\ H' = [H EXCEPT ![Probe(L[i], n)] = L[i]]
    /\ i' = i + 1
    /\ UNCHANGED <<hashes, build, x, h, loops, fail>>

\* With no entry free, linear_insert goes round for ever.
LinearHang ==
    /\ build = "linear"
    /\ i <= Len(L)
    /\ \A s \in Index : H[s] # 0
    /\ build' = "hang"
    /\ UNCHANGED <<hashes, H, i, x, h, loops, fail>>

Built ==
    /\ build \in {"next", "linear"}
    /\ i = Len(L) + 1
    /\ build' = "done"
    /\ UNCHANGED <<hashes, H, i, x, h, loops, fail>>

\* The caller goes on to its lookups.
Return == build \in {"done", "hang"} /\ UNCHANGED tableVars

TableStep == StartInsert \/ Kick \/ GiveUp \/ LinearInsert \/ LinearHang \/ Built \/ Return

TableSpec == TableInit /\ [][TableStep]_tableVars
FairTableSpec == TableSpec /\ WF_tableVars(TableStep)

-----------------------------------------------------------------------------
cuckoo_lookup(y) == H[H0[y]] = y \/ H[H1[y]] = y

\* linear_lookup meets y before it meets a free entry.
linear_lookup(y) ==
    \E n \in Index : H[Probe(y, n)] = y /\ \A k \in 0 .. n - 1 : H[Probe(y, k)] # 0

\* Its loop stops at y or at a free entry; without either it goes round for ever.
LookupStops(y) == \E n \in Index : H[Probe(y, n)] \in {y, 0}

\* What checkup asks, with the lookup that the result of cuckoo_build selects.
Found(y) == IF fail THEN linear_lookup(y) ELSE cuckoo_lookup(y)

-----------------------------------------------------------------------------
(* Properties. *)

Elements == {L[k] : k \in DOMAIN L}

\* The table, the list position and the insertion in progress stay in range.
TableTypeOK ==
    /\ H0 \in [Value \cup {0} -> Index] /\ H1 \in [Value \cup {0} -> Index]
    /\ L \in Lists
    /\ H \in [Index -> Value \cup {0}]
    /\ build \in {"next", "kick", "linear", "hang", "done"}
    /\ i \in 1 .. Len(L) + 1
    /\ x \in Value \cup {0} /\ h \in Index /\ loops \in 0 .. 2 * CM_HASH_SIZE
    /\ fail \in BOOLEAN

\* However the elements were moved around, and whichever kind of table was built,
\* the lookup that goes with it finds the elements of the slice and, among the
\* words other than 0, nothing else.
LookupExact == build = "done" => \A y \in Value : Found(y) <=> y \in Elements

\* With room to spare every lookup in a linear table stops.
LookupEnds ==
    build = "done" /\ fail /\ Len(L) < CM_HASH_SIZE
        => \A y \in Value \cup {0} : LookupStops(y)

=============================================================================
