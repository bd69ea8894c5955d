------------------------------ MODULE TaskGrid ------------------------------
(***************************************************************************)
(* ijoux/do_task_group.c, preprocessing/grouper.py and run_grouper.py: how *)
(* the grid of tasks is cut into jobs, groups, ranks and tasks, and how    *)
(* the lists of a group get from its files to its tasks.                   *)
(*                                                                         *)
(* Task (x, y) is about list x of foo, list y of bar and the slices of     *)
(* list x ^ y of foobar.  A word is opaque; Xors are the triples of words  *)
(* that xor to zero, hence of lists whose numbers do.                      *)
(***************************************************************************)
EXTENDS Integers, Sequences, SequencesExt, FiniteSets, FiniteSetsExt

CONSTANTS
    task_grid_size,     \* lists of each kind
    cpu_grid_size,      \* the ranks are a grid of this side
    per_core_grid_size, \* a rank does this many tasks, squared, of a group
    tg_per_job,         \* groups in a job
    Lists,              \* kind -> number -> sequence of words
    Xors                \* triples of words

Kind == 0 .. 2          \* foo, bar, foobar
ListNo == 0 .. task_grid_size - 1
Rank == 0 .. cpu_grid_size * cpu_grid_size - 1

tg_grid_size == (task_grid_size \div cpu_grid_size) \div per_core_grid_size
njobs == (tg_grid_size * tg_grid_size) \div tg_per_job
Group == 0 .. njobs * tg_per_job - 1

\* Its divisors are even, but for 1.
PowerOfTwo(n) == n \in Nat \ {0} /\ \A d \in 1 .. n : n % d = 0 => d = 1 \/ d % 2 = 0

\* Every size is a power of two, as run_grouper asserts of the size of a group, and
\* the jobs are the whole grid.
ASSUME GridAssumption ==
    /\ \A n \in {task_grid_size, cpu_grid_size, per_core_grid_size} : PowerOfTwo(n)
    /\ cpu_grid_size * per_core_grid_size <= task_grid_size
    /\ tg_per_job \in Nat \ {0}
    /\ (tg_grid_size * tg_grid_size) % tg_per_job = 0
    /\ DOMAIN Lists = Kind
    /\ \A kind \in Kind : /\ DOMAIN Lists[kind] = ListNo
                          /\ \A x \in ListNo : Lists[kind][x] \in Seq(ToSet(Lists[kind][x]))

-----------------------------------------------------------------------------
(* Indices. *)

\* a ^ b, for the numbers of lists: their last bits, and what is before them
xor[x \in Nat \X Nat] ==
    IF x = <<0, 0>> THEN 0
    ELSE ((x[1] + x[2]) % 2) + 2 * xor[<<x[1] \div 2, x[2] \div 2>>]

XorNo(a, b) == xor[<<a, b>>]

cpu_i(r) == r \div cpu_grid_size
cpu_j(r) == r % cpu_grid_size
tg_i(k) == k \div tg_grid_size
tg_j(k) == k % tg_grid_size

\* The files of group k that rank r reads.
tg_task_base(k, r) ==
    LET i == tg_i(k) * cpu_grid_size + cpu_i(r)
        j == tg_j(k) * cpu_grid_size + cpu_j(r)
    IN  <<i, j, XorNo(i, j)>>

\* Its task (i, j).
tg_task_idx(k, r, i, j) ==
    LET x == tg_task_base(k, r)[1] * per_core_grid_size + i
        y == tg_task_base(k, r)[2] * per_core_grid_size + j
    IN  <<x, y, XorNo(x, y)>>

-----------------------------------------------------------------------------
(* Files. *)

FileNo == 0 .. (task_grid_size \div per_core_grid_size) - 1

\* The lists that grouping_kind puts into the i-th file of a kind.
input_files(kind, i) ==
    [j \in 1 .. per_core_grid_size |-> Lists[kind][i * per_core_grid_size + j - 1]]

\* What grouper.py writes: how many lists, where each of them begins and where the
\* last one ends, then the lists.
GroupFile == [kind \in Kind |-> [i \in FileNo |->
    LET ins == input_files(kind, i)
        n == Len(ins)
        prefix[j \in 1 .. n + 1] == IF j = 1 THEN 2 + n ELSE prefix[j - 1] + Len(ins[j - 1])
    IN  <<n>> \o prefix \o FlattenSeq(ins)]]

\* A file A as load_tg_data takes it apart: its r-th list begins at A[r + 1] and
\* ends at A[r + 2].
ListIn(A, r) == LET At(e) == A[e + 1] IN SubSeq(A, At(r + 1) + 1, At(r + 2))

\* load_tg_data: the per_core_grid_size lists of each kind.
load_tg_data(k, r) ==
    [kind \in Kind |-> [t \in 0 .. per_core_grid_size - 1 |->
        ListIn(GroupFile[kind][tg_task_base(k, r)[kind + 1]], t)]]

-----------------------------------------------------------------------------
(* Tasks. *)

\* iterated_joux_task, of which JouxTask has the details: the solutions among
\* three lists, each with the index it was given.
iterated_joux_task(A, B, C, task_index) ==
    {<<task_index, t>> : t \in Xors \cap (ToSet(A) \X ToSet(B) \X ToSet(C))}

\* The slices of task (i, j) of a group.
SlicesOf(i, j) == XorNo(i, j)

\* The double loop of tg_task_work over the lists a rank has loaded.
tg_task_work(k, r, all_tasks) ==
    UNION {iterated_joux_task(all_tasks[0][t[1]], all_tasks[1][t[2]], all_tasks[2][SlicesOf(t[1], t[2])],
                              tg_task_idx(k, r, t[1], t[2]))
           : t \in (0 .. per_core_grid_size - 1) \X (0 .. per_core_grid_size - 1)}

-----------------------------------------------------------------------------
(* What the inputs are. *)

\* The lists of a kind are disjoint (a list is the hashes of one prefix), and the
\* words of a triple that xors to zero are in lists whose numbers do.
ASSUME InputAssumption ==
    /\ \A kind \in Kind : \A x, y \in ListNo :
           x # y => ToSet(Lists[kind][x]) \cap ToSet(Lists[kind][y]) = {}
    /\ \A t \in Xors : \E x, y \in ListNo :
           /\ XorNo(x, y) \in ListNo
           /\ t \in ToSet(Lists[0][x]) \X ToSet(Lists[1][y]) \X ToSet(Lists[2][XorNo(x, y)])

=============================================================================
