------------------------------ MODULE JouxTask ------------------------------
(***************************************************************************)
(* ijoux/joux_v3.c and the result list of ijoux/common.c: one task.        *)
(*                                                                         *)
(* iterated_joux_task walks the slices.  For each of them process_slice    *)
(* multiplies both lists by M, partitions them by their p leading bits     *)
(* with T_part threads, joins the partitions with T_subj threads on the l  *)
(* leading bits, looks the xors up in the slice, again with T_subj         *)
(* threads, and takes what was found back through Minv.  The parallel      *)
(* regions end in barriers.                                                *)
(*                                                                         *)
(* The threads share the scratch space, the loop counter of the dynamic    *)
(* schedule and, without a lock, the slice's list of solutions.  The       *)
(* product is naive_gemv (Matmul: the tables compute it) and the lookup in *)
(* the slice is exact for words other than 0 (CuckooTable).                *)
(*                                                                         *)
(* pc = "undefined": a write out of bounds.  pc = "hang": a probe of a     *)
(* full hash table.                                                        *)
(***************************************************************************)
EXTENDS GF2, Sequences, SequencesExt

CONSTANTS
    T_part, T_subj, \* threads: 2 and 3
    p,              \* bits used in partitioning: 10
    HASH_SIZE,      \* entries of the table of subjoin: 512
    CHUNK,          \* partitions a thread takes at a time: 4
    CACHE_LINE_SIZE, CHERNOFF,      \* of chernoff_bound: 64, 210
    CAPACITY, SOLUTION_SIZE,        \* of a result list: 128, 48
    Tasks,          \* records with fields L (two lists) and slices
    Garbage         \* what a word of uninitialised memory holds

fan_out == TwoTo(p)
Side == {0, 1}
Partition == 0 .. fan_out - 1

Parter == 0 .. T_part - 1
Joiner == 0 .. T_subj - 1

SliceType == [M : Matrix, Minv : Matrix, l : 1 .. W, CM : SUBSET Word]

\* The arrays of process_slice have room for four threads.  A slice has its
\* l >= p, and its matrices are inverse of each other.
ASSUME JouxAssumption ==
    /\ W \in Nat \ {0}
    /\ T_part \in 1 .. 4 /\ T_subj \in 1 .. 4
    /\ p \in Nat /\ HASH_SIZE \in Nat \ {0} /\ CHUNK \in Nat \ {0}
    /\ CACHE_LINE_SIZE \in Nat \ {0} /\ CHERNOFF \in Nat
    /\ CAPACITY \in Nat \ {0} /\ SOLUTION_SIZE \in Nat \ {0}
    /\ \A w \in Word : w # Garbage
    /\ \A t \in Tasks :
         /\ t.L \in [Side -> Seq(Word)]
         /\ t.slices \in Seq(SliceType)
         /\ \A s \in ToSet(t.slices) : s.l >= p /\ Inverts(s.Minv, s.M)

VARIABLES
    task, nslice,   \* the input and the slice it is at
    tsize,          \* prepare_side: capacity of the buckets of each side
    hit0,           \* does a lookup of 0 in this slice's table meet a free entry?
    pc,
    LM, side, cursor, count, scratch,       \* phase 2
    nexti, preselected,                     \* phase 3
    local, tpc, pos, seen, reg, word,       \* phase 4, per thread
    lifted,         \* solutions of the slice that have been lifted
    result          \* of the task

listVars == <<LM, side, cursor, count, scratch>>
joinVars == <<nexti, preselected>>
checkVars == <<local, tpc, pos, seen, reg, word>>
vars == <<task, nslice, tsize, hit0, pc, listVars, joinVars, checkVars, lifted, result>>

n(k) == Len(task.L[k])
slice == task.slices[nslice]

-----------------------------------------------------------------------------
(* Sizes. *)

ROUND(s) == CACHE_LINE_SIZE * ((s + CACHE_LINE_SIZE - 1) \div CACHE_LINE_SIZE)

\* The whole part of (N + sqrt(CHERNOFF * b * N)) / b, rounded up to cache lines.
chernoff_bound(N, b) ==
    ROUND(Max({s \in 0 .. N + CHERNOFF :
                  s * b <= N \/ s * b - N <= (CHERNOFF * b * N) \div (s * b - N)}))

psize(k) == tsize[k] * T_part
ScratchSize(k) == psize(k) * fan_out

\* Mutant: the buckets of the threads start together.
SharedBucket(k, t, i) == psize(k) * i

\* Where thread t's bucket of partition i begins.
BucketStart(k, t, i) == psize(k) * i + tsize[k] * t

\* schedule(static): a contiguous share of the n iterations for each thread.
ShareStart(m, t) == t * (m \div T_part) + Min({t, m % T_part})

-----------------------------------------------------------------------------
(* A list of solutions: size and capacity as the code counts them, room for as *)
(* many as the block really holds.                                             *)

NewResult == [size |-> 0, capacity |-> CAPACITY, solutions |-> <<>>, room |-> CAPACITY]

\* The block after realloc.
Grown(r) ==
    IF r.size = r.capacity
    THEN [r EXCEPT !.capacity = 2 * @, !.room = (2 * r.capacity) \div SOLUTION_SIZE]
    ELSE r

\* What a list holds at an index: garbage where nobody has written.
NoEntry == <<Garbage, Garbage, Garbage>>
EntryAt(r, at) == IF at < Len(r.solutions) THEN r.solutions[at + 1] ELSE NoEntry

Entries(r) == [k \in 1 .. r.size |-> EntryAt(r, k - 1)]

\* solutions[at] = entry.
Stored(r, at, entry) ==
    LET len == Max({at + 1, Len(r.solutions)})
    IN  [r EXCEPT !.solutions =
            [k \in 1 .. len |-> IF k = at + 1 THEN entry ELSE EntryAt(r, k - 1)]]

\* One word of it.
Copied(r, at, k, sol) == Stored(r, at, [EntryAt(r, at) EXCEPT ![k] = sol[k]])
-----------------------------------------------------------------------------

Idle == [t \in Joiner |-> "idle"]
Zeros == [t \in Joiner |-> 0]

Init ==
    /\ task \in Tasks
    /\ nslice = 1
    /\ tsize = [k \in Side |-> chernoff_bound(n(k), T_part * fan_out)]
    /\ hit0 \in BOOLEAN
    /\ pc = IF task.slices = <<>> THEN "done" ELSE "gemm"
    /\ LM = [k \in Side |-> <<>>] /\ side = 0
    /\ cursor = [t \in Parter |-> 0]
    /\ count = [k \in Side |-> [t \in Parter |-> [i \in Partition |-> 0]]]
    /\ scratch = [k \in Side |-> [a \in 0 .. ScratchSize(k) - 1 |-> Garbage]]
    /\ nexti = 0 /\ preselected = [t \in Joiner |-> <<>>]
    /\ local = NewResult /\ tpc = Idle
    /\ pos = Zeros /\ seen = Zeros /\ reg = Zeros /\ word = [t \in Joiner |-> 1]
    /\ lifted = 0 /\ result = NewResult

\* The counters and the iterations of partition for side k.
EnterPartition(k) ==
    /\ side' = k
    /\ count' = [count EXCEPT ![k] =
                    [t \in Parter |-> [i \in Partition |-> BucketStart(k, t, i)]]]
    /\ cursor' = [t \in Parter |-> ShareStart(n(k), t)]

\* Phase 1.  The threads write disjoint parts of LM and read nothing of it.
Gemm ==
    /\ pc = "gemm"
    /\ LM' = [k \in Side |-> [e \in 1 .. n(k) |-> naive_gemv(task.L[k][e], slice.M)]]
    /\ EnterPartition(0)
    /\ pc' = "partition"
    /\ UNCHANGED <<task, tsize, nslice, hit0, scratch, joinVars, checkVars, lifted, result>>

\* Phase 2: thread t puts its next word into its bucket.
Dispatch(t) ==
    /\ pc = "partition"
    /\ cursor[t] < ShareStart(n(side), t + 1)
    /\ LET y == LM[side][cursor[t] + 1]
           i == TopValue(y, p)
           idx == count[side][t][i]
       IN  /\ count' = [count EXCEPT ![side][t][i] = @ + 1]
           /\ \/ /\ idx < ScratchSize(side)
                 /\ scratch' = [scratch EXCEPT ![side][idx] = y]
                 /\ pc' = pc
              \/ /\ idx >= ScratchSize(side)
                 /\ pc' = "undefined" /\ UNCHANGED scratch
    /\ cursor' = [cursor EXCEPT ![t] = @ + 1]
    /\ UNCHANGED <<task, tsize, nslice, hit0, LM, side, joinVars, checkVars, lifted, result>>

\* The barrier of the loop over one side, and the end of the phase after both.
Partitioned ==
    /\ pc = "partition"
    /\ \A t \in Parter : cursor[t] = ShareStart(n(side), t + 1)
    /\ \/ /\ side = 0
          /\ EnterPartition(1)
          /\ UNCHANGED <<pc, joinVars>>
       \/ /\ side = 1
          /\ pc' = "subjoin" /\ nexti' = 0 /\ preselected' = [t \in Joiner |-> <<>>]
          /\ UNCHANGED <<side, count, cursor>>
    /\ UNCHANGED <<task, tsize, nslice, hit0, LM, scratch, checkVars, lifted, result>>

\* The words of partition i, bucket after bucket: from the start of each to its
\* counter.
Scattered(k, i) ==
    LET Bucket(t) == [e \in 1 .. count[k][t][i] - BucketStart(k, t, i) |->
                         scratch[k][BucketStart(k, t, i) + e - 1]]
    IN  FlattenSeq([t \in 1 .. T_part |-> Bucket(t - 1)])

Agree(x, y) == x # Zero /\ Top(x, slice.l) = Top(y, slice.l)

\* Mutant: the probe stops at the first match.
FirstMatch(A, y) ==
    LET all == {e \in DOMAIN A : Agree(A[e], y)}
    IN  IF all = {} THEN <<>> ELSE <<A[Min(all)]>>

\* What probing for y meets that agrees with it on l bits: every such word of A,
\* since they were inserted along the same path (CuckooTable proves it of linear
\* probing); not the word 0, which marks a free entry.
Matches(A, y) == FlattenSeq([e \in DOMAIN A |-> IF Agree(A[e], y) THEN <<A[e]>> ELSE <<>>])

\* The triples that subjoin emits for partition i.
subjoin(i) ==
    LET A == Scattered(0, i)
        B == Scattered(1, i)
        Emitted(y) == LET X == Matches(A, y)
                      IN  [e \in DOMAIN X |-> <<X[e], y, Xor(X[e], y)>>]
    IN  FlattenSeq([e \in DOMAIN B |-> Emitted(B[e])])

\* A table without a free entry stops neither an insertion nor a probe.
Overfull(i) ==
    LET A == Scattered(0, i)
        FullBefore(e) == Cardinality({d \in 1 .. e - 1 : A[d] # Zero}) >= HASH_SIZE
    IN  \/ \E e \in DOMAIN A : FullBefore(e)
        \/ FullBefore(Len(A) + 1) /\ Scattered(1, i) # <<>>

\* Phase 3: thread t takes the next chunk of partitions and appends what they
\* give to its own preselected, which has n[0] entries.
Subjoin(t) ==
    /\ pc = "subjoin"
    /\ nexti < fan_out
    /\ nexti' = Min({fan_out, nexti + CHUNK})
    /\ LET mine == nexti .. nexti' - 1
           got == FlattenSeq([e \in 1 .. nexti' - nexti |-> subjoin(nexti + e - 1)])
       IN  \/ /\ \E i \in mine : Overfull(i)
              /\ pc' = "hang" /\ UNCHANGED preselected
           \/ /\ \A i \in mine : ~Overfull(i)
              /\ \/ /\ Len(preselected[t]) + Len(got) <= n(0)
                    /\ preselected' = [preselected EXCEPT ![t] = @ \o got]
                    /\ pc' = pc
                 \/ /\ Len(preselected[t]) + Len(got) > n(0)
                    /\ pc' = "undefined" /\ UNCHANGED preselected
    /\ UNCHANGED <<task, tsize, nslice, hit0, listVars, checkVars, lifted, result>>

\* The end of the phase; each thread goes back to the start of its preselected.
Joined ==
    /\ pc = "subjoin"
    /\ nexti = fan_out
    /\ pc' = "checkup"
    /\ tpc' = [t \in Joiner |-> "look"] /\ pos' = Zeros
    /\ UNCHANGED <<task, tsize, nslice, hit0, listVars, joinVars, local, seen, reg, word, lifted, result>>

\* The lookup in the slice's table.
Lookup(z) == z \in slice.CM \/ (z = Zero /\ hit0)

\* Mutant: the check compares the second word of the triple.
LooksUpSecond(t, e) == Lookup(preselected[t][e][2])

\* Is the e-th triple of thread t a solution?
Hit(t, e) == Lookup(preselected[t][e][3])

\* Phase 4: thread t goes on to its next solution and enters report_solution,
\* whose test reads size and capacity.  A block that is reallocated may move
\* while another thread copies into it.
Look(t) ==
    /\ pc = "checkup"
    /\ tpc[t] = "look"
    /\ \E e \in DOMAIN preselected[t] :
         /\ e > pos[t] /\ Hit(t, e)
         /\ \A d \in pos[t] + 1 .. e - 1 : ~Hit(t, d)
         /\ pos' = [pos EXCEPT ![t] = e]
    /\ seen' = [seen EXCEPT ![t] = local.size]
    /\ local' = Grown(local)
    /\ \/ pc' = pc
       \/ local.size = local.capacity /\ (\E u \in Joiner : tpc[u] = "copy") /\ pc' = "undefined"
    /\ tpc' = [tpc EXCEPT ![t] = "store"]
    /\ UNCHANGED <<task, tsize, nslice, hit0, listVars, joinVars, reg, word, lifted, result>>

\* solutions[size] = *sol finds its place with the size it has read already or a
\* fresh one ...
Store(t) ==
    /\ pc = "checkup"
    /\ tpc[t] = "store"
    /\ \E at \in {seen[t], local.size} : reg' = [reg EXCEPT ![t] = at]
    /\ tpc' = [tpc EXCEPT ![t] = "copy"]
    /\ UNCHANGED <<task, tsize, nslice, hit0, pc, listVars, joinVars, local, pos, seen, word, lifted, result>>

\* ... and copies the struct, a word at a time: nothing keeps two threads from
\* the same entry.  (Another order of the words gives the same entries.)
Copy(t) ==
    /\ pc = "checkup"
    /\ tpc[t] = "copy"
    /\ \/ /\ reg[t] < local.room
          /\ local' = Copied(local, reg[t], word[t], preselected[t][pos[t]])
          /\ \/ word[t] < 3 /\ word' = [word EXCEPT ![t] = @ + 1] /\ tpc' = tpc
             \/ word[t] = 3 /\ word' = [word EXCEPT ![t] = 1] /\ tpc' = [tpc EXCEPT ![t] = "load"]
          /\ pc' = pc
       \/ /\ reg[t] >= local.room
          /\ pc' = "undefined" /\ UNCHANGED <<local, tpc, word>>
    /\ UNCHANGED <<task, tsize, nslice, hit0, listVars, joinVars, pos, seen, reg, lifted, result>>

\* size++ loads the size, or uses the one it has read already ...
Load(t) ==
    /\ pc = "checkup"
    /\ tpc[t] = "load"
    /\ \E s \in {seen[t], local.size} : reg' = [reg EXCEPT ![t] = s]
    /\ tpc' = [tpc EXCEPT ![t] = "bump"]
    /\ UNCHANGED <<task, tsize, nslice, hit0, pc, listVars, joinVars, local, pos, seen, word, lifted, result>>

\* ... and writes it back.
Bump(t) ==
    /\ pc = "checkup"
    /\ tpc[t] = "bump"
    /\ local' = [local EXCEPT !.size = reg[t] + 1]
    /\ tpc' = [tpc EXCEPT ![t] = "look"]
    /\ UNCHANGED <<task, tsize, nslice, hit0, pc, listVars, joinVars, pos, seen, reg, word, lifted, result>>

\* No solution is left for any thread; the region ends.
Checked ==
    /\ pc = "checkup"
    /\ \A t \in Joiner : tpc[t] = "look" /\ \A e \in DOMAIN preselected[t] : e > pos[t] => ~Hit(t, e)
    /\ pc' = "lift"
    /\ tpc' = Idle /\ pos' = Zeros /\ seen' = Zeros /\ reg' = Zeros
    /\ UNCHANGED <<task, tsize, nslice, hit0, listVars, joinVars, local, word, lifted, result>>

\* A solution taken back through Minv; of garbage, garbage.
Lifted(sol) ==
    [e \in 1 .. 3 |-> IF sol[e] = Garbage THEN Garbage ELSE naive_gemv(sol[e], slice.Minv)]

\* One turn of the lifting loop: report_solution on the task's list, with nobody
\* else about.
Lift ==
    /\ pc = "lift"
    /\ lifted < local.size
    /\ LET r == Grown(result)
       IN  \/ /\ r.size < r.room
              /\ result' = [Stored(r, r.size, Lifted(Entries(local)[lifted + 1])) EXCEPT !.size = @ + 1]
              /\ pc' = pc
           \/ /\ r.size >= r.room
              /\ pc' = "undefined" /\ UNCHANGED result
    /\ lifted' = lifted + 1
    /\ UNCHANGED <<task, tsize, nslice, hit0, listVars, joinVars, checkVars>>

\* Mutant: the walk stays where it is.
SameSlice == nslice

\* The slice that follows: a header and n words further.
NextSlice == nslice + 1

\* The end of process_slice, whose locals are gone, and what the walk over the
\* slices does next.
EndSlice ==
    /\ pc = "lift"
    /\ lifted = local.size
    /\ local' = NewResult /\ lifted' = 0 /\ preselected' = [t \in Joiner |-> <<>>]
    /\ nslice' = NextSlice
    /\ \/ nslice' <= Len(task.slices) /\ pc' = "gemm" /\ hit0' \in BOOLEAN
       \/ nslice' > Len(task.slices) /\ pc' = "done" /\ UNCHANGED hit0
    /\ UNCHANGED <<task, tsize, listVars, nexti, tpc, pos, seen, reg, word, result>>

\* iterated_joux_task has returned, or nothing more can be said.
Stop == pc \in {"done", "undefined", "hang"} /\ UNCHANGED vars

Next ==
    \/ Gemm \/ Partitioned \/ Joined \/ Checked \/ Lift \/ EndSlice \/ Stop
    \/ \E t \in Parter : Dispatch(t)
    \/ \E t \in Joiner : Subjoin(t) \/ Look(t) \/ Store(t) \/ Copy(t) \/ Load(t) \/ Bump(t)

Spec == Init /\ [][Next]_vars
FairSpec == Spec /\ WF_vars(Next)

-----------------------------------------------------------------------------
(* Properties. *)

\* The walk, the phases, the scratch space and the threads' positions stay in range.
TypeOK ==
    /\ nslice \in 1 .. Len(task.slices) + 1 /\ hit0 \in BOOLEAN
    /\ pc \in {"gemm", "partition", "subjoin", "checkup", "lift", "done", "undefined", "hang"}
    /\ side \in Side
    /\ \A t \in Parter : cursor[t] \in 0 .. n(side)
    /\ \A k \in Side : scratch[k] \in [0 .. ScratchSize(k) - 1 -> Word \cup {Garbage}]
    /\ nexti \in 0 .. fan_out
    /\ \A t \in Joiner :
         /\ preselected[t] \in Seq(Word \X Word \X Word)
         /\ tpc[t] \in {"idle", "look", "store", "copy", "load", "bump"}
         /\ pos[t] \in 0 .. Len(preselected[t]) /\ word[t] \in 1 .. 3

\* Positions a, b of words that slice s joins: their images agree on l bits, and
\* that of a is not the 0 that marks a free entry.
Joins(s, a, b) ==
    LET x == naive_gemv(task.L[0][a], s.M)
        y == naive_gemv(task.L[1][b], s.M)
    IN  x # Zero /\ Top(x, s.l) = Top(y, s.l)

\* They are a solution of s when the xor is one of its words.
Solves(s, a, b) ==
    /\ Joins(s, a, b)
    /\ task.L[0][a] # task.L[1][b]
    /\ naive_gemv(Xor(task.L[0][a], task.L[1][b]), s.M) \in s.CM

Pairs == (DOMAIN task.L[0]) \X (DOMAIN task.L[1])
Triple(x, y) == <<x, y, Xor(x, y)>>

Image(s, k, e) == naive_gemv(task.L[k][e], s.M)

\* What the sizes are meant for, as a condition on the task.  No thread has more
\* words for a partition than its bucket holds ...
BucketsFit(s) ==
    \A k \in Side, t \in Parter, i \in Partition :
        Cardinality({e \in ShareStart(n(k), t) + 1 .. ShareStart(n(k), t + 1) :
                        TopValue(Image(s, k, e), p) = i}) <= tsize[k]

\* ... the table of subjoin keeps a free entry, and the join fits n[0] entries ...
JoinFits(s) ==
    /\ \A i \in Partition :
         Cardinality({e \in 1 .. n(0) : Image(s, 0, e) # Zero /\ TopValue(Image(s, 0, e), p) = i}) < HASH_SIZE
    /\ Cardinality({q \in Pairs : Joins(s, q[1], q[2])}) <= n(0)

\* ... and no list of solutions has to grow.
Reports(s) ==
    {q \in Pairs : Joins(s, q[1], q[2]) /\ (Solves(s, q[1], q[2]) \/ task.L[0][q[1]] = task.L[1][q[2]])}
Fits ==
    /\ \A s \in ToSet(task.slices) : BucketsFit(s) /\ JoinFits(s)
    /\ Cardinality({q \in (DOMAIN task.slices) \X Pairs : q[2] \in Reports(task.slices[q[1]])}) <= CAPACITY

\* When the joins are over, the threads hold between them every pair of images
\* that agrees on the l bits once, and no other, however the words were spread over
\* the buckets and the partitions over the threads.
JoinExact ==
    pc = "checkup" /\ BucketsFit(slice) =>
      ToBag(FlattenSeq([t \in 1 .. T_subj |-> preselected[t - 1]]))
        = ToBag([q \in {q \in Pairs : Joins(slice, q[1], q[2])} |->
                    Triple(Image(slice, 0, q[1]), Image(slice, 1, q[2]))])

\* What the task has to report: each solution of each slice.
Wanted ==
    ToBag([q \in {q \in (DOMAIN task.slices) \X Pairs :
                    Solves(task.slices[q[1]], q[2][1], q[2][2])} |->
              Triple(task.L[0][q[2][1]], task.L[1][q[2][2]])])

\* What it does report, leaving aside pairs of equal words: their xor is 0.
Answer ==
    LET e == Entries(result)
    IN  ToBag([m \in {k \in DOMAIN e : e[k][3] # Zero} |-> e[m]])

\* Phase 4, "intersection with CM", and the lifting: the task reports its
\* solutions, each once, and nothing else.
TaskExact == pc = "done" => Answer = Wanted

\* With at most one report for each slice the task is exact whatever its number
\* of threads.
SparseExact ==
    pc = "done" /\ Fits /\ (\A s \in ToSet(task.slices) : Cardinality(Reports(s)) <= 1) => TaskExact

\* When threads report at the same time an entry may be lost, never written, or a
\* mixture; it is no worse.  All that was written of an entry, there are all three
\* words of it, they come from reports of one slice (solutions, or pairs of equal
\* words), and each is in its place.
SolutionsSound ==
    Fits => \A e \in ToSet(Entries(result)) \ {NoEntry} :
                \E s \in ToSet(task.slices) : \E q1, q2, q3 \in Reports(s) :
                    e = <<task.L[0][q1[1]], task.L[1][q2[2]], Xor(task.L[0][q3[1]], task.L[1][q3[2]])>>

\* What a task reports comes from its reports, and is exact where no slice has two of them.
ReportsExact == TypeOK /\ SparseExact /\ SolutionsSound

\* A task that the sizes are meant for is never written out of bounds and never
\* hangs, with any interleaving of its threads, the races of phase 4 included.
InBounds == pc \in {"undefined", "hang"} => ~Fits

\* A list of solutions grows to hold what is reported.
ResultGrows == pc # "undefined"
=============================================================================
