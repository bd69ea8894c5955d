----------------------------- MODULE Solutions -----------------------------
(***************************************************************************)
(* From mined preimages to checked solutions.  The miner builds a block    *)
(* from a kind and a counter (gen_foobar_work of cgminer.c) and hashes it; *)
(* the splitter and the checkers build it again (preprocessing/hasher.h),  *)
(* keep 64 bits of the hash as its partial hash and k more as the slot of  *)
(* the dictionary; a task joins three slots whose numbers XOR to 0 on the  *)
(* partial hashes alone; post_processing.c finds the preimages again and   *)
(* counts the zeros of the XOR of their full hashes.                       *)
(*                                                                         *)
(* SHA256 is a function that is asked block by block: sha holds the        *)
(* answers given so far.  A hash is its four last words, of W bits each    *)
(* (32 in the code); a word, a slot and what a task is about are the sets  *)
(* of the positions of their ones (GF2).  A block is its kind and the      *)
(* characters after the prefix.  A preimage is its counter: at most one    *)
(* nonce of each is mined.                                                 *)
(* How files are split, merged and joined is the subject of Splitter,      *)
(* Merger and JouxTask.                                                    *)
(***************************************************************************)
EXTENDS GF2, Sequences

CONSTANTS
    DIGITS, BASE,   \* 16 digits of base 16
    Hash,           \* hashes considered, as <<hash[4], hash[5], hash[6], hash[7]>>
    Jobs            \* the kinds and counters that are mined, in order

Kind == {"foo", "bar", "foobar"}

\* The sizes, and what is mined.
SolutionsAssumption ==
    /\ {W, DIGITS, BASE} \subseteq Nat \ {0}
    /\ Hash \subseteq Word \X Word \X Word \X Word
    /\ Jobs \in Seq(Kind \X Nat)

VARIABLES
    bits,       \* --partitioning-bits
    stage,      \* what has been done
    mined,      \* jobs a nonce was submitted for
    sha,        \* answers of SHA256
    dict,       \* entries of the dictionaries
    solutions,  \* written by the tasks
    traced      \* for each solution, the preimages found

vars == <<bits, stage, mined, sha, dict, solutions, traced>>

Init ==
    /\ bits \in 0 .. W - 1
    /\ stage = 0
    /\ mined = {}
    /\ sha = <<>>
    /\ dict = {}
    /\ solutions = {}
    /\ traced = {}

(***************************************************************************)
(* Blocks and hashes                                                       *)
(***************************************************************************)
Space == -1
Template == [p \in 1 .. DIGITS + 1 |-> IF p <= DIGITS THEN 0 ELSE Space]

\* Digits are written from position j down while something of the counter is left.
Digits(j, counter) ==
    [p \in DOMAIN Template |->
        IF p <= j /\ counter >= BASE ^ (j - p) THEN (counter \div BASE ^ (j - p)) % BASE
                                               ELSE Template[p]]

\* Both start one position after the zeros of the template.
build_plaintext_block(kind, counter) == <<kind, Digits(DIGITS + 1, counter)>>

gen_foobar_work(kind, counter) == <<kind, Digits(DIGITS + 1, counter)>>

\* word & 0x80000000
TopBit(word) == Top(word, 1)

\* compute_full_hash calls a hash valid that begins with W + 1 zeros.
Valid(h) == h[4] = Zero /\ TopBit(h[3]) = Zero

\* Mutant: the top bit of word 4 is forgotten.
WithoutTopBit(h) == <<h[2], h[3]>>

\* The words 5 and 6; the top bit of word 6 is 0 and gives its place to that of word 4.
extract_partial_hash(h) == <<h[2], Xor(h[3], TopBit(h[1]))>>

\* The k bits of word 4 below its top bit, as a number of k bits.
extract_partitioning_key(k, h) == {b \in 0 .. k - 1 : b + (W - 1 - k) \in h[1]}

Xor3(a, b, c) == [p \in DOMAIN a |-> Xor(Xor(a[p], b[p]), c[p])]

(***************************************************************************)
(* The steps                                                               *)
(***************************************************************************)
\* The device searches the block of the next job.  A nonce it submits may be wrong.
Mine ==
    /\ stage < Len(Jobs)
    /\ stage' = stage + 1
    /\ \/ UNCHANGED <<mined, sha>>
       \/ LET job == Jobs[stage + 1]
          IN  \E h \in Hash :
                /\ sha' = [b \in DOMAIN sha \cup {gen_foobar_work(job[1], job[2])} |->
                             IF b \in DOMAIN sha THEN sha[b] ELSE h]
                /\ mined' = mined \cup {job}
    /\ UNCHANGED <<bits, dict, solutions, traced>>

\* What SHA256 answers for the block of a preimage, and h when it has not been asked yet.
FullHash(job, h) ==
    LET block == build_plaintext_block(job[1], job[2])
    IN  IF block \in DOMAIN sha THEN sha[block] ELSE h

Entry(job, h) ==
    [kind |-> job[1], preimage |-> job[2], full |-> h,
     hash |-> extract_partial_hash(h), slot |-> extract_partitioning_key(bits, h)]

\* The splitter drops what is not valid.
Split ==
    /\ stage = Len(Jobs)
    /\ stage' = stage + 1
    /\ \E h \in Hash :
         dict' = {Entry(job, FullHash(job, h)) : job \in {x \in mined : Valid(FullHash(x, h))}}
    /\ UNCHANGED <<bits, mined, sha, solutions, traced>>

In(kind, slot) == {e \in dict : e.kind = kind /\ e.slot = slot}

\* do_task, for every i and j: the values of the slots i, j and i ^ j that XOR to 0.
SlotNumber == SUBSET (0 .. bits - 1)

DoTasks ==
    /\ stage = Len(Jobs) + 1
    /\ stage' = stage + 1
    /\ solutions' = UNION {
         {[val |-> <<t[1].hash, t[2].hash, t[3].hash>>, task_index |-> <<i, j, Xor(i, j)>>] :
            t \in {u \in In("foo", i) \X In("bar", j) \X In("foobar", Xor(i, j)) :
                     Xor3(u[1].hash, u[2].hash, u[3].hash) = <<Zero, Zero>>}}
         : i \in SlotNumber, j \in SlotNumber}
    /\ UNCHANGED <<bits, mined, sha, dict, traced>>

\* check_solutions takes the first entry of the slot that has the value.
Found(kind, slot, val) ==
    LET matches == {e \in In(kind, slot) : e.hash = val}
    IN  CHOOSE e \in matches : \A f \in matches : e.preimage <= f.preimage

CheckSolutions ==
    /\ stage = Len(Jobs) + 2
    /\ stage' = stage + 1
    /\ traced' = {<<Found("foo", s.task_index[1], s.val[1]),
                    Found("bar", s.task_index[2], s.val[2]),
                    Found("foobar", s.task_index[3], s.val[3])>> : s \in solutions}
    /\ UNCHANGED <<bits, mined, sha, dict, solutions>>

Next == Mine \/ Split \/ DoTasks \/ CheckSolutions

Spec == Init /\ [][Next]_vars

(***************************************************************************)
(* Properties                                                              *)
(***************************************************************************)
\* print_result: 128 - ceil(log2(sum[4])) zeros, where the first three words are 0.
CeilLog2(x) == IF x = {Max(x)} THEN Max(x) ELSE Max(x) + 1
ReportedBits(sum) == IF sum[1] = Zero THEN 4 * W ELSE 4 * W - CeilLog2(sum[1])

\* Three words are 0, and 1 + bits bits of the next.
IsSolution(a, b, c) ==
    LET sum == Xor3(a.full, b.full, c.full)
    IN  /\ sum[2] = Zero /\ sum[3] = Zero /\ sum[4] = Zero
        /\ Top(sum[1], 1 + bits) = Zero

\* dict_checker.
DictChecked(e) ==
    /\ e.full = FullHash(<<e.kind, e.preimage>>, e.full)
    /\ Valid(e.full)
    /\ e.hash = extract_partial_hash(e.full)
    /\ e.slot = extract_partitioning_key(bits, e.full)

\* The search on 64 bits within slots misses nothing and invents nothing: what a device found is
\* what the splitter hashes again, every entry passes dict_checker, three entries whose full hashes
\* XOR to 97 + k zero bits are reported by the task of their slots, and a reported solution is
\* traced to preimages with that many, which print_result does not count as less.
SolutionsTraced ==
    /\ stage > Len(Jobs) =>
         /\ \A e \in dict : DictChecked(e)
         /\ \A job \in mined :
              Valid(sha[gen_foobar_work(job[1], job[2])]) =>
                  \E e \in dict : e.kind = job[1] /\ e.preimage = job[2]
    /\ stage = Len(Jobs) + 3 =>
         /\ \A t \in traced :
              /\ IsSolution(t[1], t[2], t[3])
              /\ ReportedBits(Xor3(t[1].full, t[2].full, t[3].full)) >= 3 * W + 1 + bits
         /\ \A a, b, c \in dict :
              a.kind = "foo" /\ b.kind = "bar" /\ c.kind = "foobar" /\ IsSolution(a, b, c) =>
                  \E t \in traced : t[1].hash = a.hash /\ t[2].hash = b.hash /\ t[3].hash = c.hash
=============================================================================
