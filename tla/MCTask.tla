------------------------------- MODULE MCTask -------------------------------
(***************************************************************************)
(* The parts of one task for TLC: the slice's hash table (CuckooTable),    *)
(* the table product (Matmul) and the join (JouxTask), which takes the     *)
(* first two for exact.  A behaviour is one of one part; the variables of  *)
(* the other parts keep a fixed value.                                     *)
(***************************************************************************)
EXTENDS CuckooTable, Matmul, JouxTask

VARIABLE part                               \* "table", "product" or "join"

allVars == <<part, tableVars, productVars, vars>>

Inputs == INSTANCE JouxInputs

\* Every list of up to four words, up to the names of the words: the hash functions take all values.
MCLists ==
    {s \in BoundedSeq(Value, 4) : \A k \in DOMAIN s : s[k] <= 1 + Max({0} \cup {s[m] : m \in 1 .. k - 1})}

\* The rows of the first group range over all words of three bits, the last rows over two.
MCMatrices ==
    {m \in [0 .. W - 1 -> SUBSET (0 .. 2)] :
        \A b \in DOMAIN m : b >= BYTE => m[b] \in {{b - BYTE}, {1, 2}}}

MCTasks == Inputs!MCTasks

NoTable == L = <<>> /\ H0 = [y \in Value \cup {0} |-> 0] /\ H1 = H0 /\ TableInit
SomeMatrix == CHOOSE m \in Matrices : TRUE
NoProduct == M = SomeMatrix /\ ProductInit
NoJoin == task = (CHOOSE t \in Tasks : TRUE) /\ hit0 = FALSE /\ Init

MCInit ==
    \/ part = "table" /\ TableInit /\ NoProduct /\ NoJoin
    \/ part = "product" /\ NoTable /\ ProductInit /\ NoJoin
    \/ part = "join" /\ NoTable /\ NoProduct /\ Init

TableNext == part = "table" /\ TableStep /\ UNCHANGED <<part, productVars, vars>>
ProductNext == part = "product" /\ ProductStep /\ UNCHANGED <<part, tableVars, vars>>
JoinNext == part = "join" /\ Next /\ UNCHANGED <<part, tableVars, productVars>>

MCNext == TableNext \/ ProductNext \/ JoinNext

\* As in FairTableSpec of CuckooTable and FairSpec of JouxTask.
MCSpec == MCInit /\ [][MCNext]_allVars /\ WF_allVars(TableNext) /\ WF_allVars(JoinNext)

-----------------------------------------------------------------------------
\* A list that fits the table is stored: the moves of a cuckoo insertion end and linear probing
\* finds a free entry; with room to spare every lookup in the table will stop.
TableUsable ==
    part = "table" /\ Len(L) <= CM_HASH_SIZE ~> build = "done" /\ LookupEnds

\* A task comes to its end (JouxTask).
TaskEnds == part = "join" ~> pc \in {"done", "undefined", "hang"}
=============================================================================
