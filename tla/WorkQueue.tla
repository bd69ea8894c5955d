----------------------------- MODULE WorkQueue -----------------------------
(***************************************************************************)
(* custom_cgminer/cgminer.c: main(), once it is the getwork scheduler,     *)
(* generates one work item per counter and stages it; the miner thread     *)
(* takes staged items.  The two meet on staged_work, under stgd_lock, and  *)
(* on two condition variables: gws_cond (the scheduler sleeps) and         *)
(* getq->cond (the miner thread sleeps, ten seconds at most).              *)
(*                                                                         *)
(* An item keeps what the program tells items apart by: its id, which is   *)
(* drawn from total_work, and its counter.  Items are staged in the order  *)
(* of tv_staged, which is the order they were made in, and none is         *)
(* rollable, so HASH_SORT keeps, and the search for a clone finds, the     *)
(* first.  getq is never frozen, and no_work only decides what is logged.  *)
(* A section under stgd_lock is one step.                                  *)
(***************************************************************************)
EXTENDS Integers, Sequences

CONSTANTS
    opt_queue,      \* --queue
    InitialQueue,   \* max_queue at the start
    MaxCounter,     \* bound: the scheduler stops after so many items
    MaxSpurious     \* bound: wakeups of the scheduler that nobody signalled

ASSUME WorkQueueAssumption ==
    /\ opt_queue \in Nat
    /\ InitialQueue \in Nat
    /\ MaxCounter \in Nat \ {0}
    /\ MaxSpurious \in Nat

VARIABLES
    total_work,     \* the next id
    counter,        \* the next counter
    staged_work,    \* the staged items, oldest first
    max_queue, work_filled, work_emptied,
    sched,          \* where the scheduler is
    max_staged,     \* its copy of max_queue
    miner,          \* where the miner thread is
    taken,          \* the item get_work returned
    spurious        \* wakeups so far that nobody signalled

queueVars == <<total_work, counter, staged_work, max_queue, work_filled, work_emptied,
               sched, max_staged, miner, taken, spurious>>

None == [id |-> -1, counter |-> -1]
Item == [id : Nat, counter : Nat]

QueueInit ==
    /\ total_work = 0
    /\ counter = 0
    /\ staged_work = <<>>
    /\ max_queue = InitialQueue
    /\ work_filled = FALSE
    /\ work_emptied = FALSE
    /\ sched = "read"
    /\ max_staged = 0
    /\ miner = "loop"
    /\ taken = None
    /\ spurious = 0

\* Mutant: nobody is woken.
SignalLost == UNCHANGED sched

\* pthread_cond_signal(&gws_cond): only a scheduler that sleeps hears it.
SignalScheduler == sched' = IF sched = "asleep" THEN "make" ELSE sched

\* max_queue grows by one, towards opt_queue, when the queue ran both full and empty.
GrowQueue(flag) == IF flag /\ max_queue < opt_queue THEN max_queue + 1 ELSE max_queue

(***************************************************************************)
(* The scheduler                                                           *)
(***************************************************************************)
\* The id of the item after the next.
NextId == total_work + 1

\* Mutant: one item more than max_queue is staged before the scheduler sleeps.
FullLater == Len(staged_work) > max_staged + 1

\* The scheduler goes to sleep.
QueueFull == Len(staged_work) > max_staged

\* max_queue is read before the lock is taken.
SchedRead ==
    /\ sched = "read"
    /\ counter < MaxCounter
    /\ max_staged' = max_queue
    /\ sched' = "look"
    /\ UNCHANGED <<total_work, counter, staged_work, max_queue, work_filled, work_emptied,
                   miner, taken, spurious>>

SchedLook ==
    /\ sched = "look"
    /\ IF QueueFull
       THEN /\ max_queue' = GrowQueue(work_emptied)
            /\ work_emptied' = (work_emptied /\ max_queue >= opt_queue)
            /\ work_filled' = TRUE
            /\ sched' = "asleep"
       ELSE /\ sched' = "make"
            /\ UNCHANGED <<max_queue, work_emptied, work_filled>>
    /\ max_staged' = 0
    /\ UNCHANGED <<total_work, counter, staged_work, miner, taken, spurious>>

\* pthread_cond_wait may return without a signal, and the scheduler does not look again.
SchedSpurious ==
    /\ sched = "asleep"
    /\ spurious < MaxSpurious
    /\ spurious' = spurious + 1
    /\ sched' = "make"
    /\ UNCHANGED <<total_work, counter, staged_work, max_queue, work_filled, work_emptied,
                   max_staged, miner, taken>>

\* make_work draws the id under control_lock, gen_foobar_work the counter; stage_work pushes the
\* item and broadcasts getq->cond.
SchedStage ==
    /\ sched = "make"
    /\ staged_work' = Append(staged_work, [id |-> total_work, counter |-> counter])
    /\ total_work' = NextId
    /\ counter' = counter + 1
    /\ miner' = IF miner = "asleep" THEN "woken" ELSE miner
    /\ sched' = "read"
    /\ UNCHANGED <<max_queue, work_filled, work_emptied, max_staged, taken, spurious>>

Scheduler == SchedRead \/ SchedLook \/ SchedStage

(***************************************************************************)
(* get_work in the miner thread                                            *)
(***************************************************************************)
\* hash_pop(true) on an empty queue: the scheduler is signalled before the wait.
PopEmpty ==
    /\ miner = "pop"
    /\ staged_work = <<>>
    /\ max_queue' = GrowQueue(work_filled)
    /\ work_filled' = (work_filled /\ max_queue >= opt_queue)
    /\ work_emptied' = TRUE
    /\ SignalScheduler
    /\ miner' = "asleep"
    /\ UNCHANGED <<total_work, counter, staged_work, max_staged, taken, spurious>>

\* The wait times out after ten seconds.
PopTimeout ==
    /\ miner = "asleep"
    /\ miner' = "woken"
    /\ UNCHANGED <<total_work, counter, staged_work, max_queue, work_filled, work_emptied, sched,
                   max_staged, taken, spurious>>

\* Woken with nothing staged, it signals and waits again.
PopAgain ==
    /\ miner = "woken"
    /\ staged_work = <<>>
    /\ SignalScheduler
    /\ miner' = "asleep"
    /\ UNCHANGED <<total_work, counter, staged_work, max_queue, work_filled, work_emptied,
                   max_staged, taken, spurious>>

PopTake ==
    /\ miner \in {"pop", "woken"}
    /\ staged_work # <<>>
    /\ taken' = Head(staged_work)
    /\ staged_work' = Tail(staged_work)
    /\ SignalScheduler
    /\ miner' = "got"
    /\ UNCHANGED <<total_work, counter, max_queue, work_filled, work_emptied, max_staged,
                   spurious>>

GetWork == PopEmpty \/ PopTimeout \/ PopAgain \/ PopTake

(***************************************************************************)
(* Properties                                                              *)
(***************************************************************************)
\* The scheduler keeps the queue short: one item more than max_queue, since it only sleeps when
\* more than that is staged, and one more for every wakeup that nobody signalled, since it does
\* not look again - although it compares with a max_queue it read before it took the lock.
StagedBounded == Len(staged_work) <= max_queue + 1 + spurious

\* A miner thread asleep in hash_pop gets an item while the scheduler has counters left: the two
\* never sleep on each other, whichever of their signals came too early.
MinerFed == (miner = "asleep" /\ counter < MaxCounter) ~> taken # None
=============================================================================
