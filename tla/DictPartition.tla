--------------------------- MODULE DictPartition ---------------------------
(***************************************************************************)
(* What splitting a file of preimages promises, without ranks or messages: *)
(* entries move, a block at a time, into the dictionary of their key, none *)
(* twice, and the dictionaries are closed once every valid entry is there. *)
(***************************************************************************)
EXTENDS Integers

CONSTANTS Entry, n_slots, KeyOf

VARIABLES file, closed

vars == <<file, closed>>

Dictionary == 0 .. n_slots - 1

Stored == UNION {file[s] : s \in Dictionary}

Init == file = [s \in Dictionary |-> {}] /\ closed = FALSE

\* A block of entries that are nowhere yet reaches the dictionary of their key.
Store(s, block) ==
    /\ ~closed
    /\ block \cap Stored = {}
    /\ \A i \in block : KeyOf[i] = s
    /\ file' = [file EXCEPT ![s] = @ \cup block]
    /\ UNCHANGED closed

Close ==
    /\ ~closed
    /\ \A i \in Entry : KeyOf[i] \in Dictionary => i \in file[KeyOf[i]]
    /\ closed' = TRUE
    /\ UNCHANGED file

Next == Close \/ \E s \in Dictionary : \E block \in SUBSET Entry : Store(s, block)

Spec == Init /\ [][Next]_vars /\ WF_vars(Close)

=============================================================================
