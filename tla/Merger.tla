------------------------------- MODULE Merger -------------------------------
(***************************************************************************)
(* preprocessing/merger.c: the sorted dictionaries of one key are merged   *)
(* with a tree of losers (Knuth, 5.4.1) into the sorted list of their      *)
(* hashes, each written once; entries that repeat a hash are counted.      *)
(*                                                                         *)
(* A preimage is opaque.  A buffer of an input is represented by the part  *)
(* of it that is still to be read, so that it is empty when ptr_in equals  *)
(* size_in; a file by the part that fread has not reached.  Errors of the  *)
(* file system end the program and are left out.                           *)
(***************************************************************************)
EXTENDS Integers, Sequences, SequencesExt, FiniteSets, FiniteSetsExt

CONSTANTS
    SENTINEL,           \* the largest hash
    Preimage,
    ZeroPreimage,       \* counter and nonce are 0
    IN_BUFFER_SIZE,
    OUT_BUFFER_SIZE,
    Inputs              \* the files the program may be given: 0 .. P - 1 -> entries

Hash == 0 .. SENTINEL
dict_t == [hash : Hash, preimage : Preimage]

\* An input is a dictionary as sorter.c leaves it: in the order of the hashes,
\* those of one hash in any order.
Sorted(dict) == \A e, f \in DOMAIN dict : e <= f => dict[e].hash <= dict[f].hash

ASSUME MergerAssumption ==
    /\ SENTINEL \in Nat \ {0}
    /\ ZeroPreimage \in Preimage
    /\ IN_BUFFER_SIZE \in Nat \ {0}
    /\ OUT_BUFFER_SIZE \in Nat \ {0}
    /\ \A fs \in Inputs :
           /\ IsFiniteSet(DOMAIN fs)
           /\ Cardinality(DOMAIN fs) > 0
           /\ DOMAIN fs = 0 .. Cardinality(DOMAIN fs) - 1
           /\ fs \in [DOMAIN fs -> Seq(dict_t)]
           /\ \A f \in DOMAIN fs : Sorted(fs[f])

VARIABLES
    files,          \* the input (never changed)
    pc,             \* where the program is in its main loop
    f_in,           \* input -> what fread has not reached
    buffer_in,      \* input -> what is left of its buffer
    buffer_out, f_out,
    loser, origin,  \* nodes 1 .. P - 1 of the tree; entry 0 is not used
    Q, Q_prev,
    i,              \* the input that Q is from
    T,              \* the node at which Q plays
    collisions, duplicates

vars == <<files, pc, f_in, buffer_in, buffer_out, f_out, loser, origin, Q, Q_prev, i, T,
          collisions, duplicates>>

Input == DOMAIN files
P == Cardinality(Input)

Zero == [hash |-> 0, preimage |-> ZeroPreimage]

Init ==
    /\ files \in Inputs
    /\ pc = "emit"
    /\ f_in = files
    /\ buffer_in = [j \in Input |-> << >>]
    /\ buffer_out = << >>
    /\ f_out = << >>
    /\ loser = [j \in Input |-> Zero]
    /\ origin = [j \in Input |-> j]
    /\ Q = Zero
    /\ Q_prev = Zero
    /\ i = 0
    /\ T = 0
    /\ collisions = 0
    /\ duplicates = 0

-----------------------------------------------------------------------------
\* There is no room for another hash.
Full == Len(buffer_out) = OUT_BUFFER_SIZE

\* The buffer is written out when it is full; the hash of Q follows unless it is
\* the one before.
Emit ==
    /\ pc = "emit"
    /\ Q.hash < SENTINEL
    /\ f_out' = IF Full THEN f_out \o buffer_out ELSE f_out
    /\ LET room == IF Full THEN << >> ELSE buffer_out
       IN  buffer_out' = IF Q.hash # Q_prev.hash THEN Append(room, Q.hash) ELSE room
    /\ duplicates' = IF Q.hash = Q_prev.hash /\ Q.preimage = Q_prev.preimage
                     THEN duplicates + 1 ELSE duplicates
    /\ collisions' = IF Q.hash = Q_prev.hash /\ Q.preimage # Q_prev.preimage
                     THEN collisions + 1 ELSE collisions
    /\ Q_prev' = Q
    /\ pc' = "fetch"
    /\ UNCHANGED <<files, f_in, buffer_in, loser, origin, Q, i, T>>

\* The buffer of input j, filled by fread if it is empty.
Refilled(j) ==
    IF buffer_in[j] # << >> THEN buffer_in[j]
    ELSE SubSeq(f_in[j], 1, IF Len(f_in[j]) < IN_BUFFER_SIZE THEN Len(f_in[j]) ELSE IN_BUFFER_SIZE)

\* Mutant: the leaves are one further to the left.
LeafToTheLeft(j) == (P + j - 1) \div 2

\* The node above the leaf of input j.
Leaf(j) == (P + j) \div 2

\* The next entry of the input that Q was from; a sentinel when there is none.
Fetch ==
    /\ pc = "fetch"
    /\ f_in' = IF buffer_in[i] # << >> THEN f_in
               ELSE [f_in EXCEPT ![i] = SubSeq(@, IN_BUFFER_SIZE + 1, Len(@))]
    /\ IF Refilled(i) = << >>
       THEN Q' = [Q EXCEPT !.hash = SENTINEL] /\ UNCHANGED buffer_in
       ELSE Q' = Head(Refilled(i)) /\ buffer_in' = [buffer_in EXCEPT ![i] = Tail(Refilled(i))]
    /\ T' = Leaf(i)
    /\ pc' = "sift"
    /\ UNCHANGED <<files, buffer_out, f_out, loser, origin, Q_prev, i, collisions, duplicates>>

\* Mutant: the way to the root rounds up.
RoundsUp(t) == (t + 1) \div 2

\* The next node on the way to the root.
Parent(t) == t \div 2

\* Mutant: the entry is exchanged and its origin is not.
OriginKept(t) == origin

\* The origins when Q stays at node t.
OriginSwapped(t) == [origin EXCEPT ![t] = i]

\* Q plays against the loser of node T; the smaller one goes on.
Play ==
    /\ pc = "sift"
    /\ T >= 1
    /\ \/ /\ loser[T].hash < Q.hash
          /\ loser' = [loser EXCEPT ![T] = Q]
          /\ origin' = OriginSwapped(T)
          /\ Q' = loser[T]
          /\ i' = origin[T]
       \/ /\ ~(loser[T].hash < Q.hash)
          /\ UNCHANGED <<loser, origin, Q, i>>
    /\ T' = Parent(T)
    /\ UNCHANGED <<files, pc, f_in, buffer_in, buffer_out, f_out, Q_prev, collisions, duplicates>>

\* Q has won against everybody.
Champion ==
    /\ pc = "sift"
    /\ T < 1
    /\ pc' = "emit"
    /\ UNCHANGED <<files, f_in, buffer_in, buffer_out, f_out, loser, origin, Q, Q_prev, i, T,
                   collisions, duplicates>>

\* The smallest entry is a sentinel: the rest is written and the files are closed.
Finish ==
    /\ pc = "emit"
    /\ ~(Q.hash < SENTINEL)
    /\ f_out' = f_out \o buffer_out
    /\ buffer_out' = << >>
    /\ pc' = "done"
    /\ UNCHANGED <<files, f_in, buffer_in, loser, origin, Q, Q_prev, i, T, collisions, duplicates>>

Exited == pc = "done" /\ UNCHANGED vars

Step == Emit \/ Fetch \/ Play \/ Champion \/ Finish
Next == Step \/ Exited

Spec == Init /\ [][Next]_vars
FairSpec == Spec /\ WF_vars(Step)

-----------------------------------------------------------------------------
(* Properties. *)

\* The buffers hold no more than they have room for, and every index is one of the
\* array it is used with.
TypeOK ==
    /\ files \in Inputs
    /\ pc \in {"emit", "fetch", "sift", "done"}
    /\ f_in \in [Input -> Seq(dict_t)]
    /\ buffer_in \in [Input -> Seq(dict_t)]
    /\ buffer_out \in Seq(Hash)
    /\ Len(buffer_out) <= OUT_BUFFER_SIZE
    /\ f_out \in Seq(Hash)
    /\ loser \in [Input -> dict_t]
    /\ origin \in [Input -> Input]
    /\ Q \in dict_t
    /\ Q_prev \in dict_t
    /\ i \in Input
    /\ T \in Input
    /\ collisions \in Nat
    /\ duplicates \in Nat

\* Whatever is exchanged on the way to the root, every input is represented in
\* the tree exactly once, by Q or by one loser: otherwise an input would be
\* read no further, or read through two entries.
EveryInputPlays ==
    /\ {i} \cup {origin[t] : t \in Input \ {0}} = Input
    /\ \A t, s \in Input \ {0} : origin[t] # i /\ (origin[t] = origin[s] => t = s)

\* No entry of an input that is still to come is smaller than the one the input has
\* in the tree, and a champion is the smallest of all: what was written is never
\* followed by something smaller.
ChampionIsLeast ==
    pc = "emit" => /\ Q_prev.hash <= Q.hash
                   /\ \A t \in Input \ {0} : Q.hash <= loser[t].hash
                   /\ \A j \in Input : \A e \in ToSet(buffer_in[j]) \cup ToSet(f_in[j]) : Q.hash <= e.hash

Entries == UNION {ToSet(files[j]) : j \in Input}
Hashes == {e.hash : e \in Entries}

\* The places in the inputs of the entries that are written or counted: a sentinel ends the program.
Places == {m \in UNION {{j} \X DOMAIN files[j] : j \in Input} : files[m[1]][m[2]].hash < SENTINEL}

\* The counters that are reported account for every entry: an entry is written, a
\* collision or a duplicate. The P entries that the tree starts with are counted
\* as duplicates, and subtracted when the counter is printed.
EntriesAccounted ==
    pc = "done" => Len(f_out) + collisions + (duplicates - P) = Cardinality(Places)

\* hash_checker.c: every hash is larger than the one before, and the first than 0.
hash_checker(F) == \A n \in DOMAIN F : F[n] > (IF n = 1 THEN 0 ELSE F[n - 1])

\* Champions come in order and are the least, the counters account for every entry, and the output
\* is the list of all hashes in the inputs, each once and in order, which hash_checker accepts. Two
\* hashes are never written: 0, which Q_prev starts with, and the sentinel.
MergeExact ==
    /\ ChampionIsLeast
    /\ EntriesAccounted
    /\ pc = "done" => /\ ToSet(f_out) = Hashes \ {0, SENTINEL}
                      /\ hash_checker(f_out)

=============================================================================
