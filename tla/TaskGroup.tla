----------------------------- MODULE TaskGroup -----------------------------
(***************************************************************************)
(* ijoux/do_task_group.c: the MPI program, submitted once for each job.    *)
(* Every rank runs do_task_group for every group of the job; the solution  *)
(* file of a group, written by rank 0, is also its checkpoint: a group     *)
(* whose file can be opened is skipped.                                    *)
(*                                                                         *)
(* A solution is a pair of a task's index and a triple of words.  A crash  *)
(* (a failed node, an errx of one rank, the end of the batch slot) ends    *)
(* every rank; the job is then submitted again.  The files survive.        *)
(*                                                                         *)
(* Collective operations are external.  They match in the order in which   *)
(* each rank calls them: `calls' counts them.  MPI_Comm_split and          *)
(* MPI_Barrier let a rank go when all have called; in a gather a rank      *)
(* other than 0 may go at once.                                            *)
(***************************************************************************)
EXTENDS TaskGrid

CONSTANT MaxCrash   \* bound on the number of crashes

\* The state of a file on disk: it does not exist, or it holds some solutions.
NoFile == {}
FileOf(contents) == {contents}

ASSUME TaskGroupAssumption == MaxCrash \in Nat

VARIABLES
    job,            \* the job that runs
    disk,           \* group -> NoFile or FileOf(solutions)
    pc,             \* rank -> where it is in do_task_group
    k,              \* rank -> the group of its loop in do_job
    calls,          \* rank -> collective calls made in this run
    all_tasks,      \* rank -> {} or {the lists it has loaded}
    all_solutions,  \* rank -> solutions of its tasks
    sent,           \* rank -> what it handed to MPI_Gatherv ({} or {its solutions})
    solutions_recv, \* rank 0: what MPI_Gatherv collected
    skipped,        \* groups that some rank skipped (history)
    crashes

local == <<pc, k, calls, all_tasks, all_solutions, sent, solutions_recv>>
vars == <<job, disk, local, skipped, crashes>>

tg_from(jb) == jb * tg_per_job
tg_to(jb) == (jb + 1) * tg_per_job

\* A job is submitted: every rank starts.
Start(jb) ==
    /\ job' = jb
    /\ pc' = [r \in Rank |-> "check"]
    /\ k' = [r \in Rank |-> tg_from(jb)]
    /\ calls' = [r \in Rank |-> 0]
    /\ all_tasks' = [r \in Rank |-> {}]
    /\ all_solutions' = [r \in Rank |-> {}]
    /\ sent' = [r \in Rank |-> {}]
    /\ solutions_recv' = {}

Init ==
    /\ job = 0
    /\ disk = [g \in Group |-> NoFile]
    /\ pc = [r \in Rank |-> "check"]
    /\ k = [r \in Rank |-> tg_from(0)]
    /\ calls = [r \in Rank |-> 0]
    /\ all_tasks = [r \in Rank |-> {}]
    /\ all_solutions = [r \in Rank |-> {}]
    /\ sent = [r \in Rank |-> {}]
    /\ solutions_recv = {}
    /\ skipped = {}
    /\ crashes = 0

Goto(r, l) == pc' = [pc EXCEPT ![r] = l]
Call(r) == calls' = [calls EXCEPT ![r] = @ + 1]

\* Every rank has made the collective call that rank r is in.
EveryoneCalled(r) == \A q \in Rank : calls[q] >= calls[r]

-----------------------------------------------------------------------------
\* Mutant: the file is looked for where none is ever written.
NeverFound(g) == FALSE

\* fopen(filename, "r") succeeds.
Checkpointed(g) == disk[g] # NoFile

\* Mutant: the check claims the group by creating its file.
CheckClaims(g) == [disk EXCEPT ![g] = FileOf({})]

\* Looking for a file that is not there leaves the disk alone.
AfterCheck(g) == disk

\* Mutant: the loop of do_job does not count.
SameAgain(r) == k[r]

\* k++
Following(r) == k[r] + 1

\* The loop of do_job ends after group tg_to - 1.
JobDone(r) ==
    /\ pc[r] = "check"
    /\ k[r] = tg_to(job)
    /\ Goto(r, "done")
    /\ UNCHANGED <<job, disk, k, calls, all_tasks, all_solutions, sent, solutions_recv, skipped, crashes>>

\* The solution file exists: the group is taken for done.
SkipGroup(r) ==
    /\ pc[r] = "check"
    /\ k[r] < tg_to(job)
    /\ Checkpointed(k[r])
    /\ k' = [k EXCEPT ![r] = Following(r)]
    /\ skipped' = skipped \cup {k[r]}
    /\ UNCHANGED <<job, disk, pc, calls, all_tasks, all_solutions, sent, solutions_recv, crashes>>

\* It does not: load_tg_data, whose communicator splits every rank must call.
EnterLoad(r) ==
    /\ pc[r] = "check"
    /\ k[r] < tg_to(job)
    /\ ~Checkpointed(k[r])
    /\ disk' = AfterCheck(k[r])
    /\ Call(r)
    /\ Goto(r, "load")
    /\ UNCHANGED <<job, k, all_tasks, all_solutions, sent, solutions_recv, skipped, crashes>>

\* The three files are loaded and broadcast.
LeaveLoad(r) ==
    /\ pc[r] = "load"
    /\ EveryoneCalled(r)
    /\ all_tasks' = [all_tasks EXCEPT ![r] = {load_tg_data(k[r], r)}]
    /\ Goto(r, "work")
    /\ UNCHANGED <<job, disk, k, calls, all_solutions, sent, solutions_recv, skipped, crashes>>

\* tg_task_work: the solutions of all tasks of this rank, then the barrier.
Work(r) ==
    /\ pc[r] = "work"
    /\ \E tasks \in all_tasks[r] :
           all_solutions' = [all_solutions EXCEPT ![r] = tg_task_work(k[r], r, tasks)]
    /\ Call(r)
    /\ Goto(r, "barrier")
    /\ UNCHANGED <<job, disk, k, all_tasks, sent, solutions_recv, skipped, crashes>>

\* Out of the barrier, into the gathers: the solutions are handed over.
LeaveBarrier(r) ==
    /\ pc[r] = "barrier"
    /\ EveryoneCalled(r)
    /\ Call(r)
    /\ sent' = [sent EXCEPT ![r] = {all_solutions[r]}]
    /\ Goto(r, "gather")
    /\ UNCHANGED <<job, disk, k, all_tasks, all_solutions, solutions_recv, skipped, crashes>>

\* tg_cleanup and the next turn of the loop of do_job.
NextGroup(r) ==
    /\ k' = [k EXCEPT ![r] = Following(r)]
    /\ all_solutions' = [all_solutions EXCEPT ![r] = {}]
    /\ all_tasks' = [all_tasks EXCEPT ![r] = {}]
    /\ Goto(r, "check")

LeaveGather(r) ==
    /\ pc[r] = "gather"
    /\ r # 0
    /\ NextGroup(r)
    /\ UNCHANGED <<job, disk, calls, sent, solutions_recv, skipped, crashes>>

\* Every rank's part has arrived at rank 0.
GatherComplete == \A r \in Rank : sent[r] # {}

\* Rank 0 returns from MPI_Gatherv with everybody's solutions.
Gather ==
    /\ pc[0] = "gather"
    /\ GatherComplete
    /\ solutions_recv' = UNION UNION {sent[r] : r \in Rank}
    /\ sent' = [r \in Rank |-> {}]
    /\ Goto(0, "open")
    /\ UNCHANGED <<job, disk, k, calls, all_tasks, all_solutions, skipped, crashes>>

\* Mutant: the file is named after the first group of the job.
SavesAsFirst == tg_from(job)

\* The group rank 0 names the solution file after.
SaveAs == k[0]

\* fopen(filename, "w") creates an empty file, or empties the one there is.
Open ==
    /\ pc[0] = "open"
    /\ disk' = [disk EXCEPT ![SaveAs] = FileOf({})]
    /\ Goto(0, "write")
    /\ UNCHANGED <<job, k, calls, all_tasks, all_solutions, sent, solutions_recv, skipped, crashes>>

\* fwrite: some of the solutions reach the file, the others are buffered.
Write ==
    /\ pc[0] = "write"
    /\ \E part \in SUBSET solutions_recv : disk' = [disk EXCEPT ![SaveAs] = FileOf(part)]
    /\ Goto(0, "close")
    /\ UNCHANGED <<job, k, calls, all_tasks, all_solutions, sent, solutions_recv, skipped, crashes>>

\* fclose writes what is left.
Close ==
    /\ pc[0] = "close"
    /\ disk' = [disk EXCEPT ![SaveAs] = FileOf(solutions_recv)]
    /\ solutions_recv' = {}
    /\ NextGroup(0)
    /\ UNCHANGED <<job, calls, sent, skipped, crashes>>

-----------------------------------------------------------------------------
Running == \E r \in Rank : pc[r] # "done"

\* The job dies and is submitted again: only the files are left.
Crash ==
    /\ Running
    /\ crashes < MaxCrash
    /\ crashes' = crashes + 1
    /\ skipped' = {g \in skipped : g < tg_from(job)}
    /\ Start(job)
    /\ UNCHANGED disk

\* MPI_Finalize, and the next job is submitted.
NextJob ==
    /\ ~Running
    /\ job + 1 < njobs
    /\ Start(job + 1)
    /\ UNCHANGED <<disk, skipped, crashes>>

\* All jobs are done.
Finished == ~Running /\ job = njobs - 1
Stop == Finished /\ UNCHANGED vars

RankNext(r) ==
    \/ JobDone(r) \/ SkipGroup(r) \/ EnterLoad(r) \/ LeaveLoad(r)
    \/ Work(r) \/ LeaveBarrier(r) \/ LeaveGather(r)
RootNext == Gather \/ Open \/ Write \/ Close

Next == (\E r \in Rank : RankNext(r)) \/ RootNext \/ NextJob \/ Crash \/ Stop

\* Every rank is a process that keeps running, and jobs are submitted; crashes are
\* never required.
Fairness == (\A r \in Rank : WF_vars(RankNext(r))) /\ WF_vars(RootNext) /\ WF_vars(NextJob)

Spec == Init /\ [][Next]_vars
FairSpec == Spec /\ Fairness

-----------------------------------------------------------------------------
(* Properties. *)

\* A solution with the index it must be reported with: the numbers of the lists
\* that its words are in.
IndexOf(t) ==
    LET NoOf(kind) == CHOOSE x \in ListNo : t[kind + 1] \in ToSet(Lists[kind][x])
    IN  <<NoOf(0), NoOf(1), NoOf(2)>>
Solution == {<<IndexOf(t), t>> : t \in Xors}

\* All solutions of group g, what its file must hold: the tasks of a group are a
\* square of the grid.
Whole(g) ==
    LET side == cpu_grid_size * per_core_grid_size
    IN  {s \in Solution : s[1][1] \div side = tg_i(g) /\ s[1][2] \div side = tg_j(g)}

\* Files hold solutions of the job, and every rank is at a group of its loop.
TypeOK ==
    /\ job \in 0 .. njobs - 1
    /\ \A g \in Group : Cardinality(disk[g]) <= 1 /\ disk[g] \subseteq SUBSET Solution
    /\ pc \in [Rank -> {"check", "load", "work", "barrier", "gather",
                        "open", "write", "close", "done"}]
    /\ k \in [Rank -> tg_from(job) .. tg_to(job)]
    /\ calls \in [Rank -> Nat]
    /\ all_solutions \in [Rank -> SUBSET Solution]
    /\ sent \in [Rank -> SUBSET SUBSET Solution]
    /\ solutions_recv \in SUBSET Solution
    /\ skipped \in SUBSET Group
    /\ crashes \in 0 .. MaxCrash

\* Rank 0 is between the fopen and the fclose of group g's file.
Saving(g) == k[0] = g /\ pc[0] \in {"write", "close"}

\* Although every rank looks for the file on its own, at its own time, the
\* ranks never disagree about which group they work on together: two of them
\* inside the same collective call are in the same operation of the same group.
CollectivesMatch ==
    \A r, q \in Rank :
        /\ pc[r] \in {"load", "barrier", "gather"}
        /\ pc[q] \in {"load", "barrier", "gather"}
        /\ calls[r] = calls[q]
        => pc[r] = pc[q] /\ k[r] = k[q]

\* A file never holds a solution of another group, whatever was left in the
\* buffers of a gather by the group before or by a run that crashed.
NoForeignSolutions == \A g \in Group : UNION disk[g] \subseteq Whole(g)

\* A group that rank 0 has left behind, and that no rank skipped in this run, has
\* all its solutions on disk: no rank's part is missing from the gather and none
\* is lost between fwrite and fclose.
LeftIsWhole == \A g \in Group : g < k[0] /\ g \notin skipped => disk[g] = FileOf(Whole(g))

\* When all jobs have run without a crash, the files together hold every 3XOR of
\* the lists, with the index of its task: no task of the grid is left out by the
\* way it is cut into jobs, groups, ranks and tasks, and each is given the lists
\* that its index names.
GridCovered == Finished /\ crashes = 0 => UNION UNION {disk[g] : g \in Group} = Solution

\* Files hold what they should: nothing of another group, all of a group that is left behind, and
\* together everything the grid has.
FilesExact == TypeOK /\ NoForeignSolutions /\ LeftIsWhole /\ GridCovered

\* A group that is complete on disk is never opened for writing again, however
\* often the job crashes and is resubmitted.
CompleteIsKept ==
    [][\A g \in Group : disk[g] = FileOf(Whole(g)) /\ ~Saving(g) => disk'[g] = FileOf(Whole(g))]_vars

\* A skipped group is done: its file holds all its solutions.
SkippedIsDone == \A g \in skipped : disk[g] = FileOf(Whole(g))

\* Unless they crash for ever, the jobs end: no rank waits for one that skipped.
JobsEnd == <>Finished

=============================================================================
