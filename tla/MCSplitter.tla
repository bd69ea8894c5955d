----------------------------- MODULE MCSplitter -----------------------------
(* Instances of Splitter for TLC: which entry has which key. *)
EXTENDS Splitter

CONSTANTS m1, m2, invalid

\* Slot 0 fills a buffer while hashing, slot 1 only reaches the final flush,
\* and one preimage does not hash to a valid entry.
MCKeyOf == [i \in 1 .. 5 |-> <<0, 0, invalid, 1, 0>>[i]]

\* Everything buffered; large blocks synchronous; everything synchronous.
MCSendModes == {{}, {"NONCE_BLOCK", "HASH_BLOCK"}, Tag}
MCMapper == {m1, m2}
=============================================================================
