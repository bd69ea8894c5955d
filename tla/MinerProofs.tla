---------------------------- MODULE MinerProofs ----------------------------
(***************************************************************************)
(* The miner, for any value of --queue, any ring and any number of items,  *)
(* failed sends, nonces, packets and spurious wakeups: the staged queue    *)
(* stays short, the ring and the table of queued work agree, and counters  *)
(* are not mixed up.                                                       *)
(*                                                                         *)
(* StagedBounded is not inductive: the scheduler stages an item without    *)
(* looking, after a comparison with a max_queue it read before it took the *)
(* lock, or after being woken.  IInv says what is known at each of its     *)
(* places.  Only the queue's steps matter: the driver, the reader thread   *)
(* and the device leave staged_work, max_queue and the scheduler alone.    *)
(*                                                                         *)
(* Nor are RingIsQueued and CountersExact: the ring is right because the   *)
(* item it is given is new to it, since counters go from the scheduler     *)
(* through the staged queue and the miner thread's hands in order.         *)
(* DriverInv follows the counters along that way (StagedInv, HeldInv,      *)
(* RingInv), the ids of all the items there are, from the queue to the     *)
(* device's nonces (IdsInv), and the slots still to be sent (OrderInv).    *)
(***************************************************************************)
EXTENDS Miner, SequenceTheorems, FiniteSetTheorems, TLAPS

Staged == Len(staged_work)

QueueTypeOK ==
    /\ staged_work \in Seq(Item)
    /\ total_work \in Nat /\ counter \in Nat
    /\ max_queue \in Nat /\ max_staged \in Nat /\ spurious \in Nat
    /\ sched \in {"read", "look", "make", "asleep"}

\* Finding the item of a nonce draws a natural number of ids.
TableInv == IsFiniteSet(queued_work)

\* What the scheduler compares with is never more than max_queue is by then.
CopyInv == sched = "look" => max_staged <= max_queue

\* Before it stages an item there is room for one, whoever sent it there.
RoomInv == sched = "make" => Staged <= max_queue + spurious

IInv == QueueTypeOK /\ TableInv /\ CopyInv /\ RoomInv /\ StagedBounded

\* What IInv speaks of.
invVars == <<staged_work, queued_work, total_work, counter, max_queue, max_staged, spurious, sched>>

LEMMA InitInv == Init => IInv
  BY WorkQueueAssumption, FS_EmptySet
     DEF Init, TableInv, QueueInit, IInv, QueueTypeOK, CopyInv, RoomInv, StagedBounded, Staged

\* max_queue is only ever raised.
LEMMA GrowQueueRaises ==
  ASSUME max_queue \in Nat, NEW flag
  PROVE  GrowQueue(flag) \in Nat /\ GrowQueue(flag) >= max_queue
  BY WorkQueueAssumption DEF GrowQueue

\* Reading max_queue, and comparing with the copy.
LEMMA SchedulerLooks == IInv /\ (SchedRead \/ SchedLook) /\ UNCHANGED queued_work => IInv'
<1> SUFFICES ASSUME IInv, SchedRead \/ SchedLook, UNCHANGED queued_work PROVE IInv'
  OBVIOUS
<1> USE DEF IInv, QueueTypeOK, TableInv, CopyInv, RoomInv, StagedBounded, Staged
<1>0. Len(staged_work) \in Nat
  BY LenProperties
<1>1. CASE SchedRead
  BY <1>0, <1>1 DEF SchedRead
<1>2. CASE SchedLook /\ QueueFull
  <2>1. max_queue' \in Nat /\ max_queue' >= max_queue
    BY <1>2, GrowQueueRaises DEF SchedLook
  <2> QED
    BY <1>0, <1>2, <2>1 DEF SchedLook
\* Not full: the copy bounds the queue, and max_queue the copy.
<1>3. CASE SchedLook /\ ~QueueFull
  BY <1>0, <1>3 DEF SchedLook, QueueFull
<1> QED
  BY <1>1, <1>2, <1>3

\* An item is staged into the room there is; a wakeup nobody signalled is counted.
LEMMA SchedulerStages == IInv /\ (SchedStage \/ SchedSpurious) /\ UNCHANGED queued_work => IInv'
<1> SUFFICES ASSUME IInv, SchedStage \/ SchedSpurious, UNCHANGED queued_work PROVE IInv'
  OBVIOUS
<1> USE DEF IInv, QueueTypeOK, TableInv, CopyInv, RoomInv, StagedBounded, Staged
<1>0. Len(staged_work) \in Nat
  BY LenProperties
<1>1. CASE SchedStage
  <2> DEFINE item == [id |-> total_work, counter |-> counter]
  <2>1. item \in Item
    BY DEF Item
  <2>2. staged_work' \in Seq(Item) /\ Len(staged_work') = Len(staged_work) + 1
    BY <1>1, <2>1, AppendProperties DEF SchedStage
  <2>3. total_work' \in Nat
    BY <1>1 DEF SchedStage, NextId
  <2> QED
    BY <1>0, <1>1, <2>2, <2>3 DEF SchedStage
<1>2. CASE SchedSpurious
  BY <1>0, <1>2 DEF SchedSpurious
<1> QED
  BY <1>1, <1>2

\* The miner thread signals on an empty queue, or after it took an item: both leave room.
LEMMA MinerPops == IInv /\ GetWork /\ UNCHANGED queued_work => IInv'
<1> SUFFICES ASSUME IInv, GetWork, UNCHANGED queued_work PROVE IInv'
  OBVIOUS
<1> USE DEF IInv, QueueTypeOK, TableInv, CopyInv, RoomInv, StagedBounded, Staged, SignalScheduler
<1>0. Len(staged_work) \in Nat
  BY LenProperties
<1>1. CASE PopEmpty
  <2>1. max_queue' \in Nat /\ max_queue' >= max_queue
    BY <1>1, GrowQueueRaises DEF PopEmpty
  <2>2. Len(staged_work') = 0
    BY <1>1 DEF PopEmpty
  <2> QED
    BY <1>1, <2>1, <2>2 DEF PopEmpty
<1>2. CASE PopTimeout
  BY <1>0, <1>2 DEF PopTimeout
<1>3. CASE PopAgain
  BY <1>3 DEF PopAgain
<1>4. CASE PopTake
  <2>1. staged_work' \in Seq(Item) /\ Len(staged_work') = Len(staged_work) - 1
    BY <1>4, HeadTailProperties DEF PopTake
  <2> QED
    BY <1>0, <1>4, <2>1 DEF PopTake
<1> QED
  BY <1>1, <1>2, <1>3, <1>4 DEF GetWork

\* Steps that leave alone what IInv speaks of.
LEMMA Frame == IInv /\ UNCHANGED invVars => IInv'
  BY DEF invVars, IInv, QueueTypeOK, TableInv, CopyInv, RoomInv, StagedBounded, Staged

\* bitmain_fill moves an item into the table; nothing else of the miner thread's steps matters.
LEMMA MinerThreadStep == IInv /\ MinerThread => IInv'
<1> SUFFICES ASSUME IInv, MinerThread PROVE IInv'
  OBVIOUS
<1>1. CASE HashLoop \/ FillQueue \/ Unqueue \/ ScanHash \/ Close
  <2>1. UNCHANGED invVars
    BY <1>1 DEF HashLoop, FillQueue, Unqueue, ScanHash, Close, invVars, queueRest, driverVars
  <2> QED
    BY <2>1, Frame
<1>2. CASE FillEnter \/ FillTooFew \/ FillOut
  <2>1. UNCHANGED invVars
    BY <1>2 DEF FillEnter, FillTooFew, FillOut, invVars, queueRest, driverVars
  <2> QED
    BY <2>1, Frame
<1>3. CASE FillSend
  <2>1. UNCHANGED invVars
    BY <1>3 DEF FillSend, invVars, queueRest
  <2> QED
    BY <2>1, Frame
<1>4. CASE FillTake
  <2>1. IsFiniteSet(queued_work \ {works[NextSlot]})
    BY FS_RemoveElement DEF IInv, TableInv
  <2>2. IsFiniteSet(queued_work')
    BY <1>4, <2>1, FS_AddElement DEF FillTake, get_queued, Completed
  <2> QED
    BY <1>4, <2>2 DEF FillTake, queueRest, IInv, QueueTypeOK, TableInv, CopyInv, RoomInv,
                      StagedBounded, Staged
<1> QED
  BY <1>1, <1>2, <1>3, <1>4 DEF MinerThread, Fill

\* The reader thread draws an id for a clone, and that is all the queue sees of it.
LEMMA ReaderStep == IInv /\ Reader => IInv'
<1> SUFFICES ASSUME IInv, Reader PROVE IInv'
  OBVIOUS
<1>1. CASE ReadNonce
  <2> DEFINE found(id) == find_work_byid(id)
  <2>1. \A id : Cardinality(found(id)) \in Nat
    <3> TAKE id
    <3>1. IsFiniteSet(found(id))
      BY FS_Subset DEF find_work_byid, IInv, TableInv
    <3> QED
      BY <3>1, FS_CardinalityType
  <2> HIDE DEF found
  <2>2. total_work' = total_work + Cardinality(found(Head(packet.nonces).id))
    BY <1>1 DEF ReadNonce, found
  <2>3. total_work' \in Nat
    BY <2>1, <2>2 DEF IInv, QueueTypeOK
  <2>4. UNCHANGED <<staged_work, queued_work, counter, max_queue, max_staged, spurious, sched>>
    BY <1>1 DEF ReadNonce, driverVars
  <2> QED
    BY <2>3, <2>4 DEF IInv, QueueTypeOK, TableInv, CopyInv, RoomInv, StagedBounded, Staged
<1>2. CASE ReadSpace \/ ReadDevice
  <2>1. UNCHANGED invVars
    BY <1>2 DEF ReadSpace, ReadDevice, invVars, queueVars
  <2> QED
    BY <2>1, Frame
<1> QED
  BY <1>1, <1>2 DEF Reader

LEMMA DeviceStep == IInv /\ (DeviceSearch \/ DeviceReport) => IInv'
<1> SUFFICES ASSUME IInv, DeviceSearch \/ DeviceReport PROVE IInv'
  OBVIOUS
<1>1. UNCHANGED invVars
  BY DEF DeviceSearch, DeviceReport, invVars, queueVars, driverVars
<1> QED
  BY <1>1, Frame

LEMMA NextInv == IInv /\ [Next]_vars => IInv'
<1> SUFFICES ASSUME IInv, [Next]_vars PROVE IInv'
  OBVIOUS
<1>1. CASE QueueStep
  <2>1. UNCHANGED queued_work
    BY <1>1 DEF QueueStep, driverVars
  <2> QED
    BY <1>1, <2>1, SchedulerLooks, SchedulerStages, MinerPops DEF QueueStep, Scheduler
<1>2. CASE MinerThread
  BY <1>2, MinerThreadStep
<1>3. CASE Reader
  BY <1>3, ReaderStep
<1>4. CASE DeviceSearch \/ DeviceReport
  BY <1>4, DeviceStep
<1>5. CASE UNCHANGED vars
  <2>1. UNCHANGED invVars
    BY <1>5 DEF vars, invVars, queueVars, driverVars
  <2> QED
    BY <2>1, Frame
<1> QED
  BY <1>1, <1>2, <1>3, <1>4, <1>5 DEF Next

\* The queue between the scheduler and the miner thread is bounded by max_queue, one item and the
\* wakeups that nobody signalled, whatever --queue says and however the driver and the device
\* interleave with it.
THEOREM StagedBoundedHolds == Spec => []StagedBounded
<1>1. IInv => StagedBounded
  BY DEF IInv
<1> QED
  BY <1>1, InitInv, NextInv, PTL DEF Spec

(***************************************************************************)
(* The ring                                                                *)
(***************************************************************************)
\* The counter of the oldest staged item, and of the next item that the ring is given.
Oldest == counter - Len(staged_work)
Given == IF taken = None /\ unqueued_work = None THEN Oldest ELSE Oldest - 1

Packet == [nonces : Seq(Item), space : Nat]

DriverTypeOK ==
    /\ taken \in Item \cup {None} /\ unqueued_work \in Item \cup {None}
    /\ works \in [Slot -> Item \cup {None}]
    /\ work_array \in 0 .. ARRAY_SIZE
    /\ queued \in 0 .. MAX_WORK_NUM
    /\ fifo_space \in Int
    /\ {fifo, solved, tasks} \subseteq Seq(Item)
    /\ {wire, readbuf} \subseteq Seq(Packet)
    /\ packet \in Packet

\* Items are staged in the order of their counters.
StagedInv ==
    /\ Staged <= counter
    /\ \A k \in 1 .. Staged : staged_work[k].counter = Oldest + k - 1

\* The miner thread holds one item at most, the one that was staged before the oldest.
HeldInv ==
    /\ miner # "got" => taken = None
    /\ miner \in {"pop", "asleep", "woken", "got"} => unqueued_work = None
    /\ taken # None => taken.counter = Oldest - 1
    /\ unqueued_work # None => unqueued_work.counter = Oldest - 1

\* Items in the ring were given before, each to a slot of its own.
RingInv ==
    /\ \A s \in Slot : works[s] # None => works[s].counter < Given
    /\ \A s, t \in Slot : works[s] # None /\ works[s].counter = works[t].counter => s = t

GiveInv == DriverTypeOK /\ StagedInv /\ HeldInv /\ RingInv /\ RingIsQueued

\* The items that are somewhere, as such or as a nonce that was found for them.
Ring == {works[s] : s \in Slot}
Packets == ToSet(wire) \cup ToSet(readbuf) \cup {packet}
Found == ToSet(solved) \cup UNION {ToSet(p.nonces) : p \in Packets}
About == (ToSet(staged_work) \cup {taken, unqueued_work} \cup Ring \cup ToSet(fifo) \cup Found) \ {None}

IdsInv ==
    /\ \A x \in About : x.id < total_work
    /\ \A x, y \in About : x.id = y.id => x.counter = y.counter
    /\ \A s \in submitted : s[1] = s[2]

OrderInv ==
    /\ \A n \in 1 .. Len(tasks) : n <= ARRAY_SIZE => tasks[n].counter = n - 1
    /\ Len(tasks) < ARRAY_SIZE =>
        /\ work_array = Len(tasks)
        /\ \A s \in Len(tasks) .. Len(tasks) + queued - 1 : s < ARRAY_SIZE => works[s].counter = s
        /\ Len(tasks) + queued <= ARRAY_SIZE => Given = Len(tasks) + queued

(***************************************************************************)
(* Batches                                                                 *)
(***************************************************************************)
\* Induction over the slots of a batch is by a least counterexample.
LEMMA Least ==
  ASSUME NEW X \in SUBSET Nat, X # {}
  PROVE  \E m \in X : \A n \in X : m <= n
<1> DEFINE R == {ss \in Nat \X Nat : ss[1] < ss[2]}
<1>1. IsWellFoundedOn(R, Nat)
  BY NatLessThanWellFounded DEF OpToRel
<1>2. \A x, y \in Nat : x < y => <<x, y>> \in R
  OBVIOUS
<1> HIDE DEF R
<1>3. PICK m \in X : \A n \in X : ~(<<n, m>> \in R)
  BY <1>1, WFMin
<1>4. ASSUME NEW n \in X PROVE m <= n
  <2>1. n \in Nat /\ m \in Nat
    OBVIOUS
  <2>2. ~(n < m)
    BY <1>2, <1>3, <2>1
  <2> QED
    BY <2>1, <2>2
<1> QED
  BY <1>4

\* The slot that bitmain_set_txtask looks at after k others.
Index(k) == IF work_array + k <= ARRAY_SIZE THEN work_array + k
                                            ELSE work_array + k - ARRAY_SIZE - 1

\* What is sent after k more slots, given what was sent before.
SentBy(g, k) ==
    IF k = 0 THEN <<>>
    ELSE IF works[Index(k - 1)] = None THEN g[k - 1]
    ELSE Append(g[k - 1], works[Index(k - 1)])

IsSent(n, g) == g = [k \in 0 .. n |-> SentBy(g, k)]

\* The recursion of TxTask is well founded.
LEMMA SentExists == \A n \in Nat : \E g : IsSent(n, g)
<1> SUFFICES ASSUME NEW n0 \in Nat, ~ \E g : IsSent(n0, g) PROVE FALSE
  OBVIOUS
<1> DEFINE X == {n \in Nat : ~ \E g : IsSent(n, g)}
<1>1. PICK m \in X : \A n \in X : m <= n
  <2>1. X \in SUBSET Nat /\ X # {}
    OBVIOUS
  <2> QED
    BY <2>1, Least
<1>2. CASE m = 0
  <2> DEFINE g == [k \in 0 .. 0 |-> <<>>]
  <2>1. \A k \in 0 .. 0 : SentBy(g, k) = <<>>
    BY DEF SentBy
  <2>2. IsSent(0, g)
    BY <2>1 DEF IsSent
  <2> QED
    BY <1>2, <2>2
<1>3. CASE m # 0
  <2>1. m - 1 \in Nat /\ ~(m <= m - 1)
    BY <1>3
  <2>2. PICK g : IsSent(m - 1, g)
    BY <1>1, <2>1
  <2> DEFINE h == [k \in 0 .. m |-> IF k < m THEN g[k] ELSE SentBy(g, m)]
  <2>3. \A k \in 0 .. m : h[k] = SentBy(h, k)
    <3> TAKE k \in 0 .. m
    <3>1. k # 0 => h[k - 1] = g[k - 1]
      BY <1>3
    <3>2. SentBy(h, k) = SentBy(g, k)
      BY <3>1 DEF SentBy
    <3>3. k < m => g[k] = SentBy(g, k)
      BY <2>2, <1>3 DEF IsSent
    <3> QED
      BY <3>2, <3>3, <1>3
  <2>4. IsSent(m, h)
    BY <2>3 DEF IsSent
  <2> QED
    BY <2>4
<1> QED
  BY <1>2, <1>3

LEMMA TxTaskIs ==
  ASSUME NEW n \in Nat
  PROVE  \E g : IsSent(n, g) /\ TxTask(n) = g[n]
<1> DEFINE g == CHOOSE f : IsSent(n, f)
<1>1. IsSent(n, g)
  BY SentExists, Zenon
<1>2. TxTask(n) = g[n]
  BY DEF TxTask, IsSent, SentBy, Index
<1> QED
  BY <1>1, <1>2

\* What is sent are items of the ring, one for a slot at most.
LEMMA SentItems ==
  ASSUME DriverTypeOK, NEW n \in Nat, n <= MAX_WORK_NUM, NEW g, IsSent(n, g)
  PROVE  \A k \in 0 .. n : g[k] \in Seq(Ring \ {None}) /\ Len(g[k]) <= k
<1> DEFINE X == {k \in Nat : k <= n /\ ~(g[k] \in Seq(Ring \ {None}) /\ Len(g[k]) <= k)}
<1> SUFFICES ASSUME X # {} PROVE FALSE
  OBVIOUS
<1>1. PICK m \in X : \A k \in X : m <= k
  BY Least
<1>2. g[m] = SentBy(g, m)
  BY <1>1 DEF IsSent
<1>3. m # 0
  BY <1>1, <1>2, EmptySeq DEF SentBy
<1>4. m - 1 \in Nat /\ m - 1 <= n /\ ~(m <= m - 1)
  BY <1>3
<1>5. g[m - 1] \in Seq(Ring \ {None}) /\ Len(g[m - 1]) <= m - 1
  BY <1>1, <1>4
<1> DEFINE w == works[Index(m - 1)]
<1>6. w \in Ring
  <2>1. ARRAY_SIZE \in Nat /\ MAX_WORK_NUM \in Nat /\ MAX_WORK_NUM <= ARRAY_SIZE
    BY MinerAssumption
  <2>2. work_array \in Nat /\ work_array <= ARRAY_SIZE
    BY <2>1 DEF DriverTypeOK
  <2>3. Index(m - 1) \in Slot
    BY <1>4, <2>1, <2>2 DEF Index, Slot
  <2> QED
    BY <2>3 DEF Ring
<1> HIDE DEF w
<1>7. g[m] = IF w = None THEN g[m - 1] ELSE Append(g[m - 1], w)
  BY <1>2, <1>3 DEF SentBy, w
<1>8. Len(g[m - 1]) \in Nat
  BY <1>5, LenProperties
<1>9. CASE w = None
  BY <1>1, <1>5, <1>7, <1>8, <1>9, <1>4
<1>10. CASE w # None
  <2>1. Append(g[m - 1], w) \in Seq(Ring \ {None}) /\ Len(Append(g[m - 1], w)) = Len(g[m - 1]) + 1
    BY <1>5, <1>6, <1>10, AppendProperties
  <2>2. g[m] = Append(g[m - 1], w)
    BY <1>7, <1>10
  <2>3. Len(g[m]) <= m /\ g[m] \in Seq(Ring \ {None})
    BY <1>4, <1>5, <1>8, <2>1, <2>2
  <2> QED
    BY <1>1, <2>3
<1> QED
  BY <1>9, <1>10

\* While the slots looked at hold items and the end of the ring is not passed, they are sent in
\* the order of the slots; what is looked at later only adds to it.
LEMMA SentInOrder ==
  ASSUME DriverTypeOK, NEW n \in Nat, n <= MAX_WORK_NUM, NEW g, IsSent(n, g),
         NEW q \in Nat, q <= n,
         \A i \in 0 .. q - 1 : Index(i) = work_array + i /\ works[work_array + i] # None
  PROVE  \A k \in 0 .. n : /\ k <= q => Len(g[k]) = k
                           /\ k >= q => Len(g[k]) >= q
                           /\ \A i \in 1 .. q : i <= k => g[k][i] = works[work_array + i - 1]
<1> DEFINE P(k) == /\ k <= q => Len(g[k]) = k
                   /\ k >= q => Len(g[k]) >= q
                   /\ \A i \in 1 .. q : i <= k => g[k][i] = works[work_array + i - 1]
           X == {k \in Nat : k <= n /\ ~P(k)}
<1> SUFFICES ASSUME NEW k0 \in 0 .. n, ~P(k0) PROVE FALSE
  OBVIOUS
<1>1. PICK m \in X : \A k \in X : m <= k
  <2>1. k0 \in X /\ X \in SUBSET Nat
    OBVIOUS
  <2> QED
    BY <2>1, Least
<1>2. g[m] = SentBy(g, m)
  BY <1>1 DEF IsSent
<1>3. m # 0
  <2>1. m = 0 => g[m] = <<>>
    BY <1>2 DEF SentBy
  <2> QED
    BY <1>1, <2>1, EmptySeq
<1>4. m - 1 \in Nat /\ m - 1 <= n /\ ~(m <= m - 1) /\ m \in Nat /\ m <= n
  BY <1>3
<1>5. P(m - 1)
  BY <1>1, <1>4
<1>6. g[m - 1] \in Seq(Ring \ {None})
  BY <1>4, SentItems
<1> DEFINE w == works[Index(m - 1)]
           before == g[m - 1]
<1>7. g[m] = IF w = None THEN before ELSE Append(before, w)
  BY <1>2, <1>3 DEF SentBy
<1>8. w # None => w \in Ring
  <2>1. ARRAY_SIZE \in Nat /\ MAX_WORK_NUM \in Nat /\ MAX_WORK_NUM <= ARRAY_SIZE
    BY MinerAssumption
  <2>2. work_array \in Nat /\ work_array <= ARRAY_SIZE
    BY <2>1 DEF DriverTypeOK
  <2>3. Index(m - 1) \in Slot
    BY <1>4, <2>1, <2>2 DEF Index, Slot
  <2> QED
    BY <2>3 DEF Ring
<1>9. m <= q => w = works[work_array + m - 1] /\ w # None
  <2>1. m <= q => m - 1 \in 0 .. q - 1
    BY <1>4
  <2>2. work_array \in Nat
    BY MinerAssumption DEF DriverTypeOK
  <2>3. work_array + (m - 1) = work_array + m - 1
    BY <1>4, <2>2
  <2> QED
    BY <2>1, <2>3
<1> HIDE DEF w
<1>10. Len(before) \in Nat
  BY <1>6, LenProperties
<1>11. w # None => /\ Len(g[m]) = Len(before) + 1
                   /\ \A i \in 1 .. Len(before) : g[m][i] = before[i]
                   /\ g[m][Len(before) + 1] = w
  BY <1>6, <1>7, <1>8, AppendProperties
<1>12. CASE m <= q
  <2>1. Len(before) = m - 1
    BY <1>4, <1>5, <1>12
  <2>2. Len(g[m]) = m /\ (m >= q => Len(g[m]) >= q)
    BY <1>4, <1>9, <1>11, <1>12, <2>1
  <2>3. \A i \in 1 .. q : i <= m => g[m][i] = works[work_array + i - 1]
    <3> TAKE i \in 1 .. q
    <3>1. i <= m - 1 => before[i] = works[work_array + i - 1] /\ i \in 1 .. Len(before)
      BY <1>5, <2>1, <1>4
    <3>2. i <= m => i <= m - 1 \/ i = m
      BY <1>4
    <3> QED
      BY <1>4, <1>9, <1>11, <1>12, <2>1, <3>1, <3>2
  <2> QED
    BY <1>1, <2>2, <2>3
<1>13. CASE m > q
  <2>1. Len(before) >= q /\ \A i \in 1 .. q : before[i] = works[work_array + i - 1]
    BY <1>4, <1>5, <1>13
  <2>2. Len(g[m]) >= q
    BY <1>7, <1>10, <1>11, <2>1
  <2>3. \A i \in 1 .. q : g[m][i] = before[i]
    BY <1>7, <1>10, <1>11, <2>1
  <2> QED
    BY <1>1, <1>4, <1>13, <2>1, <2>2, <2>3
<1> QED
  BY <1>4, <1>12, <1>13

LEMMA MinOfTwo ==
  ASSUME NEW a \in Int, NEW b \in Int
  PROVE  Min({a, b}) = IF a <= b THEN a ELSE b
  BY DEF Min

LEMMA Constants ==
  /\ ARRAY_SIZE \in Nat /\ MAX_WORK_NUM \in Nat /\ DeviceFifo \in Nat
  /\ 0 < MAX_WORK_NUM /\ MAX_WORK_NUM <= ARRAY_SIZE
  BY MinerAssumption

\* A batch is of items of the ring, one for a slot at most.
LEMMA TxTaskItems ==
  ASSUME DriverTypeOK, NEW n \in Nat, n <= MAX_WORK_NUM
  PROVE  TxTask(n) \in Seq(Ring \ {None}) /\ Len(TxTask(n)) <= n
<1>1. PICK g : IsSent(n, g) /\ TxTask(n) = g[n]
  BY TxTaskIs
<1>2. n \in 0 .. n
  OBVIOUS
<1> QED
  BY <1>1, <1>2, SentItems

\* A batch begins with the items of the slots up to the first empty one, or the end of the ring.
LEMMA TxTaskInOrder ==
  ASSUME DriverTypeOK, NEW n \in Nat, n <= MAX_WORK_NUM,
         NEW q \in Nat, q <= n, work_array + q <= ARRAY_SIZE,
         \A s \in work_array .. work_array + q - 1 : works[s] # None
  PROVE  /\ Len(TxTask(n)) >= q
         /\ q = n => Len(TxTask(n)) = n
         /\ \A i \in 1 .. q : TxTask(n)[i] = works[work_array + i - 1]
<1>1. PICK g : IsSent(n, g) /\ TxTask(n) = g[n]
  BY TxTaskIs
<1>2. work_array \in Nat
  BY Constants DEF DriverTypeOK
<1>3. \A i \in 0 .. q - 1 : Index(i) = work_array + i /\ works[work_array + i] # None
  <2> TAKE i \in 0 .. q - 1
  <2>1. work_array + i \in work_array .. work_array + q - 1 /\ work_array + i <= ARRAY_SIZE
    BY <1>2, Constants
  <2> QED
    BY <2>1 DEF Index
<1>4. n \in 0 .. n /\ n >= q /\ \A i \in 1 .. q : i <= n
  OBVIOUS
<1> DEFINE P(k) == /\ k <= q => Len(g[k]) = k
                   /\ k >= q => Len(g[k]) >= q
                   /\ \A i \in 1 .. q : i <= k => g[k][i] = works[work_array + i - 1]
<1>5. \A k \in 0 .. n : P(k)
  BY <1>1, <1>3, SentInOrder
<1> HIDE DEF P
<1>6. P(n)
  BY <1>4, <1>5
<1> QED
  BY <1>1, <1>4, <1>6 DEF P

LEMMA RingItems == DriverTypeOK => Ring \ {None} \subseteq Item
  BY DEF DriverTypeOK, Ring

\* The batch that bitmain_fill chooses has slots, and not more than there are items queued.
LEMMA SendNum ==
  ASSUME DriverTypeOK, fifo_space > 0
  PROVE  LET n == Min({queued, neednum}) IN n \in Nat /\ n <= queued /\ n <= MAX_WORK_NUM
<1>1. fifo_space \in Int /\ queued \in Nat /\ queued <= MAX_WORK_NUM
  BY Constants DEF DriverTypeOK
<1>2. neednum \in Nat
  BY <1>1, Constants, MinOfTwo DEF neednum
<1>3. Min({queued, neednum}) = IF queued <= neednum THEN queued ELSE neednum
  BY <1>1, <1>2, MinOfTwo
<1> QED
  BY <1>1, <1>2, <1>3, Constants

(***************************************************************************)
(* Types                                                                   *)
(***************************************************************************)
typeVars == <<taken, unqueued_work, works, work_array, queued, fifo_space, fifo, solved, tasks, wire,
              readbuf, packet>>

LEMMA TypeFrame == DriverTypeOK /\ UNCHANGED typeVars => DriverTypeOK'
  BY DEF DriverTypeOK, typeVars

LEMMA NextSlotIs == DriverTypeOK => NextSlot \in Slot
  BY Constants DEF DriverTypeOK, NextSlot, Slot

LEMMA QueueType == QueueTypeOK /\ DriverTypeOK /\ QueueStep => DriverTypeOK'
<1> SUFFICES ASSUME QueueTypeOK, DriverTypeOK, QueueStep PROVE DriverTypeOK'
  OBVIOUS
<1>1. CASE PopTake
  <2>1. taken' \in Item
    BY <1>1, HeadTailProperties DEF PopTake, QueueTypeOK
  <2> QED
    BY <1>1, <2>1 DEF QueueStep, DriverTypeOK, driverVars, readerVars, deviceVars, historyVars
<1>2. CASE ~PopTake
  <2>1. UNCHANGED taken
    BY <1>2 DEF QueueStep, Scheduler, SchedRead, SchedLook, SchedStage, SchedSpurious, GetWork,
                PopEmpty, PopTimeout, PopAgain
  <2>2. UNCHANGED typeVars
    BY <2>1 DEF QueueStep, typeVars, driverVars, readerVars, deviceVars, historyVars
  <2> QED
    BY <2>2, TypeFrame
<1> QED
  BY <1>1, <1>2

LEMMA MinerThreadType == DriverTypeOK /\ MinerThread => DriverTypeOK'
<1> SUFFICES ASSUME DriverTypeOK, MinerThread PROVE DriverTypeOK'
  OBVIOUS
<1>1. CASE HashLoop \/ FillQueue \/ ScanHash \/ Close \/ FillEnter \/ FillTooFew \/ FillOut
  <2>1. UNCHANGED typeVars
    BY <1>1 DEF HashLoop, FillQueue, ScanHash, Close, FillEnter, FillTooFew, FillOut, typeVars,
                driverVars, readerVars, deviceVars, historyVars
  <2> QED
    BY <2>1, TypeFrame
<1>2. CASE Unqueue
  <2>1. unqueued_work' \in Item \cup {None} /\ taken' \in Item \cup {None}
    BY <1>2 DEF Unqueue, DriverTypeOK
  <2> QED
    BY <1>2, <2>1 DEF Unqueue, DriverTypeOK, readerVars, deviceVars, historyVars
<1>3. CASE FillTake
  <2>1. works' \in [Slot -> Item \cup {None}]
    BY <1>3 DEF FillTake, DriverTypeOK
  <2>2. queued' \in 0 .. MAX_WORK_NUM
    <3>1. fifo_space \in Int /\ queued \in Nat /\ queued <= MAX_WORK_NUM
      BY Constants DEF DriverTypeOK
    <3>2. neednum <= MAX_WORK_NUM /\ neednum \in Int
      BY <3>1, Constants, MinOfTwo DEF neednum
    <3> QED
      BY <1>3, <3>1, <3>2, Constants DEF FillTake
  <2>3. unqueued_work' \in Item \cup {None}
    BY <1>3 DEF FillTake
  <2> QED
    BY <1>3, <2>1, <2>2, <2>3 DEF FillTake, DriverTypeOK, readerVars, deviceVars
<1>4. CASE FillSend
  <2> DEFINE n == Min({queued, neednum})
             batch == TxTask(n)
  <2>1. n \in Nat /\ n <= queued /\ n <= MAX_WORK_NUM
    BY <1>4, SendNum DEF FillSend
  <2>2. batch \in Seq(Ring \ {None})
    BY <2>1, TxTaskItems
  <2>3. batch \in Seq(Item)
    BY <2>2, RingItems, SeqMonotonic
  <2>4. queued' = queued - n /\ work_array' = AdvanceArray(n) /\ tasks' = tasks \o batch
        /\ fifo_space' = fifo_space - Len(batch) /\ (fifo' = fifo \o batch \/ fifo' = fifo)
    BY <1>4 DEF FillSend, bitmain_send_data
  <2> HIDE DEF n, batch
  <2>5. tasks' \in Seq(Item) /\ fifo' \in Seq(Item) /\ fifo_space' \in Int
    <3>1. Len(batch) \in Nat
      BY <2>3, LenProperties
    <3>2. fifo \in Seq(Item) /\ tasks \in Seq(Item) /\ fifo_space \in Int
      BY DEF DriverTypeOK
    <3>3. fifo \o batch \in Seq(Item) /\ tasks \o batch \in Seq(Item)
      BY <2>3, <3>2, ConcatProperties
    <3>4. fifo_space - Len(batch) \in Int
      BY <3>1, <3>2
    <3> QED
      BY <2>4, <3>2, <3>3, <3>4
  <2>6. queued' \in 0 .. MAX_WORK_NUM /\ work_array' \in 0 .. ARRAY_SIZE
    BY <2>1, <2>4, Constants DEF DriverTypeOK, AdvanceArray
  <2> QED
    BY <1>4, <2>5, <2>6 DEF FillSend, DriverTypeOK, readerVars
<1> QED
  BY <1>1, <1>2, <1>3, <1>4 DEF MinerThread, Fill

LEMMA ReaderType == DriverTypeOK /\ Reader => DriverTypeOK'
<1> SUFFICES ASSUME DriverTypeOK, Reader PROVE DriverTypeOK'
  OBVIOUS
<1>1. packet.nonces \in Seq(Item) /\ packet.space \in Nat /\ wire \in Seq(Packet)
      /\ readbuf \in Seq(Packet)
  BY DEF DriverTypeOK, Packet
<1>2. CASE ReadNonce
  <2>1. Tail(packet.nonces) \in Seq(Item)
    BY <1>1, <1>2, HeadTailProperties DEF ReadNonce
  <2>2. packet' \in Packet
    BY <1>2, <2>1 DEF ReadNonce, DriverTypeOK, Packet
  <2> QED
    BY <1>2, <2>2 DEF ReadNonce, DriverTypeOK, driverVars, deviceVars, historyVars
<1>3. CASE ReadSpace
  <2>1. packet' \in Packet
    BY <1>3, EmptySeq DEF ReadSpace, NoPacket, Packet
  <2>2. fifo_space' \in Int
    BY <1>1, <1>3 DEF ReadSpace
  <2> QED
    BY <1>3, <2>1, <2>2 DEF ReadSpace, DriverTypeOK, queueVars, deviceVars, historyVars
<1>4. CASE ReadDevice
  <2> DEFINE buffer == (IF reset THEN <<>> ELSE readbuf) \o wire
  <2>1. buffer \in Seq(Packet)
    BY <1>1, EmptySeq, ConcatProperties
  <2>2. \/ readbuf' = buffer /\ packet' = packet
        \/ readbuf' = readbuf /\ packet' = packet
        \/ buffer # <<>> /\ readbuf' = Tail(buffer) /\ packet' = Head(buffer)
    BY <1>4 DEF ReadDevice
  <2> HIDE DEF buffer
  <2>3. buffer # <<>> => Tail(buffer) \in Seq(Packet) /\ Head(buffer) \in Packet
    BY <2>1, HeadTailProperties
  <2>4. readbuf' \in Seq(Packet) /\ packet' \in Packet
    BY <1>1, <2>1, <2>2, <2>3 DEF DriverTypeOK
  <2>5. wire' \in Seq(Packet)
    BY <1>4, EmptySeq DEF ReadDevice
  <2> QED
    BY <1>4, <2>4, <2>5 DEF ReadDevice, DriverTypeOK, queueVars, historyVars
<1> QED
  BY <1>2, <1>3, <1>4 DEF Reader

LEMMA DeviceType == DriverTypeOK /\ (DeviceSearch \/ DeviceReport) => DriverTypeOK'
<1> SUFFICES ASSUME DriverTypeOK, DeviceSearch \/ DeviceReport PROVE DriverTypeOK'
  OBVIOUS
<1>1. fifo \in Seq(Item) /\ solved \in Seq(Item) /\ wire \in Seq(Packet) /\ Len(fifo) \in Nat
  BY LenProperties DEF DriverTypeOK
<1>2. CASE DeviceSearch
  <2>1. Tail(fifo) \in Seq(Item) /\ Append(solved, Head(fifo)) \in Seq(Item)
    BY <1>1, <1>2, HeadTailProperties, AppendProperties DEF DeviceSearch
  <2>2. fifo' \in Seq(Item) /\ solved' \in Seq(Item)
    BY <1>1, <1>2, <2>1 DEF DeviceSearch
  <2> QED
    BY <1>2, <2>2 DEF DeviceSearch, DriverTypeOK, queueVars, driverVars, readerVars, historyVars
<1>3. CASE DeviceReport
  <2> DEFINE p == [nonces |-> solved,
                   space |-> IF Len(fifo) > DeviceFifo THEN 0 ELSE DeviceFifo - Len(fifo)]
  <2>1. p \in Packet
    BY <1>1, Constants DEF Packet
  <2>2. wire' = Append(wire, p) /\ solved' = <<>>
    BY <1>3 DEF DeviceReport
  <2> HIDE DEF p
  <2>3. wire' \in Seq(Packet) /\ solved' \in Seq(Item)
    BY <1>1, <2>1, <2>2, AppendProperties, EmptySeq
  <2> QED
    BY <1>3, <2>3 DEF DeviceReport, DriverTypeOK, queueVars, driverVars, readerVars, historyVars
<1> QED
  BY <1>2, <1>3

LEMMA TypeStep == QueueTypeOK /\ DriverTypeOK /\ [Next]_vars => DriverTypeOK'
<1> SUFFICES ASSUME QueueTypeOK, DriverTypeOK, [Next]_vars PROVE DriverTypeOK'
  OBVIOUS
<1>1. CASE UNCHANGED vars
  <2>1. UNCHANGED typeVars
    BY <1>1 DEF vars, typeVars, queueVars, driverVars, readerVars, deviceVars, historyVars
  <2> QED
    BY <2>1, TypeFrame
<1> QED
  BY <1>1, QueueType, MinerThreadType, ReaderType, DeviceType DEF Next

(***************************************************************************)
(* What the ring is given                                                  *)
(***************************************************************************)
heldVars == <<counter, staged_work, taken, unqueued_work, miner>>
ringVars == <<works, queued_work>>

ItemsInv == StagedInv /\ HeldInv /\ RingInv /\ RingIsQueued

LEMMA GivenIs ==
  ASSUME QueueTypeOK, DriverTypeOK, StagedInv
  PROVE  Staged \in Nat /\ counter \in Nat /\ Oldest \in Nat /\ Oldest = counter - Staged
         /\ Given \in Int
<1>1. Staged \in Nat
  BY LenProperties DEF QueueTypeOK, Staged
<1> QED
  BY <1>1 DEF QueueTypeOK, StagedInv, Oldest, Given, Staged

\* As long as the ring is left alone and Given stays, the ring is still right.
LEMMA RingFrame == RingInv /\ RingIsQueued /\ UNCHANGED ringVars /\ Given' = Given
                     => RingInv' /\ RingIsQueued'
  BY DEF RingInv, RingIsQueued, ringVars

LEMMA HeldFrame == StagedInv /\ HeldInv /\ UNCHANGED heldVars
                     => StagedInv' /\ HeldInv' /\ Given' = Given
  BY DEF StagedInv, HeldInv, heldVars, Staged, Oldest, Given

\* So does a miner thread that moves on without an item, to look for one only when it holds none.
LEMMA HeldMoves ==
  ASSUME StagedInv, HeldInv, UNCHANGED <<counter, staged_work, taken, unqueued_work>>,
         miner # "got", miner' # "got",
         miner' \in {"pop", "asleep", "woken"} =>
             unqueued_work = None \/ miner \in {"pop", "asleep", "woken"}
  PROVE  StagedInv' /\ HeldInv' /\ Given' = Given
  BY DEF StagedInv, HeldInv, Staged, Oldest, Given

\* The scheduler stages the next counter, behind the others.
LEMMA StageItems ==
  ASSUME QueueTypeOK, DriverTypeOK, StagedInv, HeldInv, SchedStage, UNCHANGED unqueued_work
  PROVE  StagedInv' /\ HeldInv' /\ Given' = Given
<1> DEFINE item == [id |-> total_work, counter |-> counter]
<1>0. staged_work \in Seq(Item) /\ item \in Item
  BY DEF QueueTypeOK, Item
<1>1. Staged \in Nat /\ counter \in Nat /\ Oldest = counter - Staged
  BY GivenIs
<1>2. /\ Len(staged_work') = Len(staged_work) + 1
      /\ \A k \in 1 .. Len(staged_work) : staged_work'[k] = staged_work[k]
      /\ staged_work'[Len(staged_work) + 1] = item
  <2>1. staged_work' = Append(staged_work, item)
    BY DEF SchedStage
  <2> QED
    BY <1>0, <2>1, AppendProperties
<1>3. counter' = counter + 1 /\ taken' = taken /\ unqueued_work' = unqueued_work
  BY DEF SchedStage
<1>4. Staged' = Staged + 1 /\ Oldest' = Oldest
  BY <1>1, <1>2, <1>3 DEF Staged, Oldest
<1>5. StagedInv'
  <2>1. ASSUME NEW k \in 1 .. Staged'
        PROVE  staged_work'[k].counter = Oldest' + k - 1
    <3>1. CASE k \in 1 .. Staged
      <4>1. staged_work'[k] = staged_work[k] /\ staged_work[k].counter = Oldest + k - 1
        BY <1>2, <3>1 DEF StagedInv, Staged
      <4> QED
        BY <1>4, <4>1
    <3>2. CASE k = Staged + 1
      <4>1. staged_work'[k] = item
        BY <1>2, <3>2 DEF Staged
      <4> QED
        BY <1>1, <1>4, <3>2, <4>1
    <3> QED
      BY <1>1, <1>4, <3>1, <3>2
  <2>2. Staged' <= counter'
    BY <1>1, <1>3, <1>4 DEF StagedInv
  <2> QED
    BY <2>1, <2>2 DEF StagedInv
<1>6. HeldInv'
  BY <1>3, <1>4 DEF HeldInv, SchedStage
<1> QED
  BY <1>3, <1>4, <1>5, <1>6 DEF Given

\* The miner thread takes the oldest item.
LEMMA TakeItem ==
  ASSUME QueueTypeOK, DriverTypeOK, StagedInv, HeldInv, PopTake, UNCHANGED unqueued_work
  PROVE  StagedInv' /\ HeldInv' /\ Given' = Given
<1>0. staged_work \in Seq(Item) /\ staged_work # <<>>
  BY DEF QueueTypeOK, PopTake
<1>1. Staged \in Nat /\ counter \in Nat /\ Oldest = counter - Staged /\ Oldest \in Nat
  BY GivenIs
<1>2. /\ Len(staged_work') = Len(staged_work) - 1 /\ Len(staged_work) > 0
      /\ \A k \in 1 .. Len(staged_work) - 1 : staged_work'[k] = staged_work[k + 1]
      /\ taken' = staged_work[1] /\ taken' \in Item
  <2>1. staged_work' = Tail(staged_work) /\ taken' = Head(staged_work)
    BY DEF PopTake
  <2>2. Len(staged_work) \in Nat /\ Len(staged_work) # 0
    BY <1>0, EmptySeq, LenProperties
  <2> QED
    BY <1>0, <2>1, <2>2, HeadTailProperties
<1>3. counter' = counter /\ miner' = "got" /\ unqueued_work' = unqueued_work
      /\ miner \in {"pop", "woken"}
  BY DEF PopTake
<1>4. Staged' = Staged - 1 /\ Oldest' = Oldest + 1
  BY <1>1, <1>2, <1>3 DEF Staged, Oldest
<1>5. taken = None /\ unqueued_work = None
  BY <1>3 DEF HeldInv
<1>6. taken'.counter = Oldest' - 1 /\ taken' # None
  <2>1. staged_work[1].counter = Oldest + 1 - 1
    BY <1>1, <1>2 DEF StagedInv, Staged
  <2> QED
    BY <1>1, <1>2, <1>4, <2>1 DEF None
<1>7. StagedInv'
  <2>1. ASSUME NEW k \in 1 .. Staged'
        PROVE  staged_work'[k].counter = Oldest' + k - 1
    <3>1. k + 1 \in 1 .. Staged /\ k \in 1 .. Len(staged_work) - 1
      BY <1>1, <1>4 DEF Staged
    <3>2. staged_work'[k] = staged_work[k + 1] /\ staged_work[k + 1].counter = Oldest + (k + 1) - 1
      BY <1>2, <3>1 DEF StagedInv, Staged
    <3> QED
      BY <1>1, <1>4, <3>2
  <2>2. Staged' <= counter'
    BY <1>1, <1>3, <1>4 DEF StagedInv
  <2> QED
    BY <2>1, <2>2 DEF StagedInv
<1>8. HeldInv'
  BY <1>3, <1>5, <1>6 DEF HeldInv
<1> QED
  BY <1>1, <1>3, <1>4, <1>5, <1>6, <1>7, <1>8 DEF Given

LEMMA QueueItems ==
  QueueTypeOK /\ DriverTypeOK /\ ItemsInv /\ QueueStep => ItemsInv' /\ Given' = Given
<1> SUFFICES ASSUME QueueTypeOK, DriverTypeOK, ItemsInv, QueueStep PROVE ItemsInv' /\ Given' = Given
  OBVIOUS
<1>0. StagedInv /\ HeldInv /\ UNCHANGED unqueued_work /\ UNCHANGED ringVars
  BY DEF ItemsInv, QueueStep, driverVars, ringVars
<1>1. StagedInv' /\ HeldInv' /\ Given' = Given
  <2>1. CASE SchedRead \/ SchedLook \/ SchedSpurious
    <3>1. UNCHANGED heldVars
      BY <1>0, <2>1 DEF SchedRead, SchedLook, SchedSpurious, heldVars
    <3> QED
      BY <1>0, <3>1, HeldFrame
  <2>2. CASE PopEmpty \/ PopTimeout \/ PopAgain
    <3>1. UNCHANGED <<counter, staged_work, taken, unqueued_work>>
          /\ miner \in {"pop", "asleep", "woken"} /\ miner' # "got" /\ miner # "got"
      BY <1>0, <2>2 DEF PopEmpty, PopTimeout, PopAgain
    <3> QED
      BY <1>0, <3>1, HeldMoves
  <2> QED
    BY <1>0, <2>1, <2>2, StageItems, TakeItem DEF QueueStep, Scheduler, GetWork
<1> QED
  BY <1>0, <1>1, RingFrame DEF ItemsInv

\* bitmain_fill gives the ring the next item: it has a counter that none of the ring has, and the
\* table loses the item that the slot loses.
LEMMA TakeRing ==
  ASSUME QueueTypeOK, DriverTypeOK, ItemsInv, FillTake
  PROVE  ItemsInv' /\ Given' = Given + 1 /\ unqueued_work.counter = Given
<1>0. StagedInv /\ HeldInv /\ RingInv /\ RingIsQueued
  BY DEF ItemsInv
<1>1. taken = None /\ unqueued_work # None /\ unqueued_work \in Item
  BY <1>0 DEF FillTake, HeldInv, DriverTypeOK
<1>2. taken' = None /\ unqueued_work' = None /\ UNCHANGED <<counter, staged_work, miner>>
      /\ miner = "take"
  BY <1>1 DEF FillTake, queueRest
<1>3. Oldest \in Nat /\ Oldest' = Oldest /\ Staged' = Staged
  BY <1>0, <1>2, GivenIs DEF Oldest, Staged
<1>4. Given = Oldest - 1 /\ Given' = Oldest /\ unqueued_work.counter = Given
  BY <1>0, <1>1, <1>2, <1>3 DEF Given, HeldInv
<1>5. StagedInv' /\ HeldInv'
  BY <1>0, <1>2, <1>3 DEF StagedInv, HeldInv
<1>6. PICK n \in Slot : n = NextSlot
  BY NextSlotIs
<1> DEFINE w == unqueued_work
<1>7. works' = [works EXCEPT ![n] = w] /\ queued_work' = (queued_work \ {works[n]}) \cup {w}
  BY <1>6 DEF FillTake, get_queued, Completed
<1>8. \A s \in Slot : works'[s] = IF s = n THEN w ELSE works[s]
  BY <1>7 DEF DriverTypeOK
<1>9. \A s \in Slot : works[s] # None => works[s].counter < w.counter /\ works[s].counter \in Nat
  BY <1>0, <1>4 DEF RingInv, DriverTypeOK, Item
<1>10. w.counter \in Nat /\ None.counter = -1
  BY <1>1 DEF Item, None
<1>11. RingInv'
  <2>1. \A s \in Slot : works'[s] # None => works'[s].counter < Given'
    BY <1>3, <1>4, <1>8, <1>9, <1>10
  <2>2. \A s, t \in Slot : works'[s] # None /\ works'[s].counter = works'[t].counter => s = t
    <3> SUFFICES ASSUME NEW s \in Slot, NEW t \in Slot,
                        works'[s] # None, works'[s].counter = works'[t].counter
                 PROVE  s = t
      OBVIOUS
    <3>1. CASE s # n /\ t # n
      BY <1>0, <1>8, <3>1 DEF RingInv
    <3>2. CASE s = n /\ t # n
      <4>1. works[t].counter < w.counter \/ works[t] = None
        BY <1>9
      <4>2. works[t].counter = w.counter
        BY <1>8, <3>2
      <4> QED
        BY <1>9, <1>10, <4>1, <4>2
    <3>3. CASE s # n /\ t = n
      <4>1. works[s] # None /\ works[s].counter = w.counter
        BY <1>8, <3>3
      <4> QED
        BY <1>9, <1>10, <4>1
    <3> QED
      BY <3>1, <3>2, <3>3
  <2> QED
    BY <2>1, <2>2 DEF RingInv
<1>12. RingIsQueued'
  <2>1. \A s \in Slot : works[s] = w => works[s] = None
    BY <1>9, <1>10
  <2>2. \A s, t \in Slot : works'[s] = works'[t] /\ s # t => works'[s] = None
    BY <1>11 DEF RingInv
  <2>3. \A s \in Slot : s # n /\ works[s] = works[n] => works[s] = None
    BY <1>0 DEF RingIsQueued
  <2>4. queued_work = {works[s] : s \in Slot} \ {None}
    BY <1>0 DEF RingIsQueued
  <2>5. \A x : x \in queued_work' <=> x \in {works'[s] : s \in Slot} \ {None}
    <3> TAKE x
    <3>1. ASSUME x \in queued_work' PROVE x \in {works'[s] : s \in Slot} \ {None}
      <4>1. CASE x = w
        BY <1>1, <1>6, <1>8, <4>1
      <4>2. CASE x # w
        <5>1. x \in queued_work /\ x # works[n]
          BY <1>7, <3>1, <4>2
        <5>2. PICK s \in Slot : x = works[s] /\ x # None
          BY <2>4, <5>1
        <5> QED
          BY <1>8, <5>1, <5>2
      <4> QED
        BY <4>1, <4>2
    <3>2. ASSUME x \in {works'[s] : s \in Slot} \ {None} PROVE x \in queued_work'
      <4>1. PICK s \in Slot : x = works'[s] /\ x # None
        BY <3>2
      <4>2. CASE s = n
        BY <1>7, <1>8, <4>1, <4>2
      <4>3. CASE s # n
        BY <1>7, <1>8, <2>3, <2>4, <4>1, <4>3
      <4> QED
        BY <4>2, <4>3
    <3> QED
      BY <3>1, <3>2
  <2>6. queued_work' = {works'[s] : s \in Slot} \ {None}
    BY <2>5
  <2> QED
    BY <2>2, <2>6 DEF RingIsQueued
<1> QED
  BY <1>4, <1>3, <1>5, <1>11, <1>12 DEF ItemsInv

LEMMA MinerThreadItems ==
  QueueTypeOK /\ DriverTypeOK /\ ItemsInv /\ MinerThread
    => ItemsInv' /\ (FillTake \/ Given' = Given)
<1> SUFFICES ASSUME QueueTypeOK, DriverTypeOK, ItemsInv, MinerThread
             PROVE  ItemsInv' /\ (FillTake \/ Given' = Given)
  OBVIOUS
<1>0. StagedInv /\ HeldInv /\ RingInv /\ RingIsQueued
  BY DEF ItemsInv
<1>1. CASE HashLoop \/ FillQueue \/ ScanHash \/ Close \/ FillEnter \/ FillTooFew \/ FillSend \/ FillOut
  <2>1. UNCHANGED <<counter, staged_work, taken, unqueued_work>> /\ UNCHANGED ringVars
    BY <1>1 DEF HashLoop, FillQueue, ScanHash, Close, FillEnter, FillTooFew, FillSend, FillOut,
                queueRest, driverVars, ringVars
  <2>2. miner # "got" /\ miner' # "got"
        /\ (miner' \in {"pop", "asleep", "woken"} => unqueued_work = None)
    BY <1>1 DEF HashLoop, FillQueue, ScanHash, Close, FillEnter, FillTooFew, FillSend, FillOut
  <2> QED
    BY <1>0, <2>1, <2>2, HeldMoves, RingFrame DEF ItemsInv
<1>2. CASE Unqueue
  <2>1. unqueued_work = None /\ unqueued_work' = taken /\ taken' = None /\ miner' = "full"
        /\ UNCHANGED <<counter, staged_work>>
    BY <1>0, <1>2 DEF Unqueue, HeldInv, queueRest
  <2>2. StagedInv' /\ HeldInv' /\ Given' = Given
    BY <1>0, <2>1 DEF StagedInv, HeldInv, Staged, Oldest, Given
  <2>3. UNCHANGED ringVars
    BY <1>2 DEF Unqueue, ringVars
  <2> QED
    BY <1>0, <2>2, <2>3, RingFrame DEF ItemsInv
<1>3. CASE FillTake
  BY <1>3, TakeRing
<1> QED
  BY <1>1, <1>2, <1>3 DEF MinerThread, Fill

LEMMA ItemsStep ==
  QueueTypeOK /\ DriverTypeOK /\ ItemsInv /\ [Next]_vars => ItemsInv' /\ (FillTake \/ Given' = Given)
<1> SUFFICES ASSUME QueueTypeOK, DriverTypeOK, ItemsInv, [Next]_vars
             PROVE  ItemsInv' /\ (FillTake \/ Given' = Given)
  OBVIOUS
<1>1. CASE Reader \/ DeviceSearch \/ DeviceReport \/ UNCHANGED vars
  <2>1. UNCHANGED heldVars /\ UNCHANGED ringVars
    BY <1>1 DEF Reader, ReadNonce, ReadSpace, ReadDevice, DeviceSearch, DeviceReport, vars, heldVars,
                ringVars, queueVars, driverVars
  <2> QED
    BY <2>1, HeldFrame, RingFrame DEF ItemsInv
<1> QED
  BY <1>1, QueueItems, MinerThreadItems DEF Next

(***************************************************************************)
(* Ids                                                                     *)
(***************************************************************************)
\* Ids stay apart when no item appears from nowhere.
LEMMA IdsFrame ==
  ASSUME IdsInv, total_work \in Nat, total_work' \in Nat, total_work' >= total_work,
         About' \subseteq About, About \subseteq Item,
         \A s \in submitted' : s \in submitted \/ s[1] = s[2]
  PROVE  IdsInv'
<1>1. \A x \in About' : x.id < total_work'
  <2> TAKE x \in About'
  <2>1. x \in About /\ x.id \in Nat
    BY DEF Item
  <2>2. x.id < total_work
    BY <2>1 DEF IdsInv
  <2> QED
    BY <2>1, <2>2
<1>2. \A x, y \in About' : x.id = y.id => x.counter = y.counter
  BY DEF IdsInv
<1>3. \A s \in submitted' : s[1] = s[2]
  BY DEF IdsInv
<1> QED
  BY <1>1, <1>2, <1>3 DEF IdsInv

LEMMA SetOf ==
  ASSUME NEW S, NEW u \in Seq(S)
  PROVE  ToSet(u) = {u[k] : k \in 1 .. Len(u)} /\ ToSet(u) \subseteq S
  BY LenProperties DEF ToSet

LEMMA SetOfAppend ==
  ASSUME NEW S, NEW u \in Seq(S), NEW x \in S
  PROVE  ToSet(Append(u, x)) = ToSet(u) \cup {x}
<1>1. Append(u, x) \in Seq(S) /\ Len(Append(u, x)) = Len(u) + 1 /\ Len(u) \in Nat
      /\ (\A k \in 1 .. Len(u) : Append(u, x)[k] = u[k]) /\ Append(u, x)[Len(u) + 1] = x
  BY AppendProperties, LenProperties
<1>2. ToSet(Append(u, x)) = {Append(u, x)[k] : k \in 1 .. Len(u) + 1}
  BY <1>1, SetOf
<1>3. ToSet(u) = {u[k] : k \in 1 .. Len(u)}
  BY SetOf
<1> QED
  BY <1>1, <1>2, <1>3

LEMMA SetOfTail ==
  ASSUME NEW S, NEW u \in Seq(S), u # <<>>
  PROVE  ToSet(Tail(u)) \subseteq ToSet(u) /\ Head(u) \in ToSet(u)
<1>1. Tail(u) \in Seq(S) /\ Len(Tail(u)) = Len(u) - 1 /\ Len(u) \in Nat /\ Head(u) = u[1]
      /\ \A k \in 1 .. Len(u) - 1 : Tail(u)[k] = u[k + 1]
  BY HeadTailProperties, LenProperties
<1>2. Len(u) # 0
  BY EmptySeq
<1>3. ToSet(u) = {u[k] : k \in 1 .. Len(u)} /\ ToSet(Tail(u)) = {Tail(u)[k] : k \in 1 .. Len(u) - 1}
  BY <1>1, SetOf
<1>4. ASSUME NEW k \in 1 .. Len(u) - 1 PROVE Tail(u)[k] \in ToSet(u)
  <2>1. k + 1 \in 1 .. Len(u)
    BY <1>1
  <2> QED
    BY <1>1, <1>3, <2>1
<1> QED
  BY <1>1, <1>2, <1>3, <1>4

LEMMA SetOfConcat ==
  ASSUME NEW S, NEW u \in Seq(S), NEW v \in Seq(S)
  PROVE  ToSet(u \o v) = ToSet(u) \cup ToSet(v)
<1>1. Range(u \o v) = Range(u) \cup Range(v)
  BY RangeConcatenation
<1> QED
  BY <1>1 DEF ToSet, Range

LEMMA SetOfEmpty == ToSet(<<>>) = {}
  BY EmptySeq DEF ToSet

aboutVars == <<staged_work, taken, unqueued_work, works, fifo, solved, wire, readbuf, packet>>

LEMMA AboutFrame == UNCHANGED aboutVars => About' = About
  BY DEF aboutVars, About, Ring, Found, Packets

LEMMA AboutItems == QueueTypeOK /\ DriverTypeOK => About \subseteq Item
<1> SUFFICES ASSUME QueueTypeOK, DriverTypeOK PROVE About \subseteq Item
  OBVIOUS
<1>1. ToSet(staged_work) \subseteq Item /\ ToSet(fifo) \subseteq Item /\ ToSet(solved) \subseteq Item
  BY SetOf DEF QueueTypeOK, DriverTypeOK
<1>2. Packets \subseteq Packet
  BY SetOf DEF DriverTypeOK, Packets
<1>3. \A p \in Packets : ToSet(p.nonces) \subseteq Item
  <2> TAKE p \in Packets
  <2>1. p.nonces \in Seq(Item)
    BY <1>2 DEF Packet
  <2> QED
    BY <2>1, SetOf
<1>4. Ring \ {None} \subseteq Item
  BY RingItems
<1> QED
  BY <1>1, <1>3, <1>4 DEF About, Found, DriverTypeOK

\* What a step that changes items has to show.
LEMMA IdsShrink ==
  ASSUME QueueTypeOK, DriverTypeOK, IdsInv, total_work' = total_work, submitted' = submitted,
         About' \subseteq About
  PROVE  IdsInv'
<1>1. total_work \in Nat /\ total_work' \in Nat /\ total_work' >= total_work
  BY DEF QueueTypeOK
<1>2. \A s \in submitted' : s \in submitted \/ s[1] = s[2]
  OBVIOUS
<1> QED
  BY <1>1, <1>2, AboutItems, IdsFrame

LEMMA QueueIds == QueueTypeOK /\ DriverTypeOK /\ IdsInv /\ QueueStep => IdsInv'
<1> SUFFICES ASSUME QueueTypeOK, DriverTypeOK, IdsInv, QueueStep PROVE IdsInv'
  OBVIOUS
<1>0. UNCHANGED <<unqueued_work, works, fifo, solved, wire, readbuf, packet, submitted>>
  BY DEF QueueStep, driverVars, readerVars, deviceVars
<1>1. Ring' = Ring /\ Found' = Found /\ ToSet(fifo)' = ToSet(fifo)
  BY <1>0 DEF Ring, Found, Packets
<1>2. CASE SchedStage
  <2> DEFINE item == [id |-> total_work, counter |-> counter]
  <2>1. staged_work' = Append(staged_work, item) /\ total_work' = total_work + 1 /\ taken' = taken
    BY <1>2 DEF SchedStage, NextId
  <2>2. item \in Item /\ total_work \in Nat /\ item.id = total_work
    BY DEF QueueTypeOK, Item
  <2> HIDE DEF item
  <2>3. ToSet(staged_work') = ToSet(staged_work) \cup {item}
    BY <2>1, <2>2, SetOfAppend DEF QueueTypeOK
  <2>4. About' \subseteq About \cup {item}
    BY <1>0, <1>1, <2>1, <2>3 DEF About
  <2>5. \A x \in About : x.id \in Nat /\ x.id < total_work
    BY AboutItems DEF IdsInv, Item
  <2>6. \A x \in About' : x.id < total_work'
    BY <2>1, <2>2, <2>4, <2>5
  <2>7. \A x, y \in About' : x.id = y.id => x.counter = y.counter
    <3> SUFFICES ASSUME NEW x \in About', NEW y \in About', x.id = y.id
                 PROVE  x.counter = y.counter
      OBVIOUS
    <3>1. CASE x \in About /\ y \in About
      BY <3>1 DEF IdsInv
    <3>2. CASE x = item /\ y = item
      BY <3>2
    <3>3. CASE x = item /\ y \in About
      BY <2>2, <2>5, <3>3
    <3>4. CASE x \in About /\ y = item
      BY <2>2, <2>5, <3>4
    <3> QED
      BY <2>4, <3>1, <3>2, <3>3, <3>4
  <2> QED
    BY <1>0, <2>6, <2>7 DEF IdsInv
<1>3. CASE PopTake
  <2>1. taken' = Head(staged_work) /\ staged_work' = Tail(staged_work) /\ staged_work # <<>>
        /\ total_work' = total_work
    BY <1>3 DEF PopTake
  <2>2. ToSet(staged_work') \subseteq ToSet(staged_work) /\ taken' \in ToSet(staged_work)
    BY <2>1, SetOfTail DEF QueueTypeOK
  <2>3. About' \subseteq About
    BY <1>0, <1>1, <2>2 DEF About
  <2> QED
    BY <1>0, <2>1, <2>3, IdsShrink
<1>4. CASE ~SchedStage /\ ~PopTake
  <2>1. UNCHANGED <<staged_work, taken, total_work>>
    BY <1>4 DEF QueueStep, Scheduler, SchedRead, SchedLook, SchedSpurious, GetWork, PopEmpty,
                PopTimeout, PopAgain
  <2>2. UNCHANGED aboutVars
    BY <1>0, <2>1 DEF aboutVars
  <2> QED
    BY <1>0, <2>1, <2>2, AboutFrame, IdsShrink
<1> QED
  BY <1>2, <1>3, <1>4

LEMMA MinerThreadIds == QueueTypeOK /\ DriverTypeOK /\ IdsInv /\ MinerThread => IdsInv'
<1> SUFFICES ASSUME QueueTypeOK, DriverTypeOK, IdsInv, MinerThread PROVE IdsInv'
  OBVIOUS
<1>0. UNCHANGED <<total_work, staged_work, solved, wire, readbuf, packet, submitted>>
  BY DEF MinerThread, Fill, HashLoop, FillQueue, Unqueue, ScanHash, Close, FillEnter, FillTake,
         FillTooFew, FillSend, FillOut, queueRest, driverVars, readerVars, deviceVars
<1>1. Found' = Found /\ ToSet(staged_work)' = ToSet(staged_work)
  BY <1>0 DEF Found, Packets
<1>2. CASE HashLoop \/ FillQueue \/ ScanHash \/ Close \/ FillEnter \/ FillTooFew \/ FillOut
  <2>1. UNCHANGED <<taken, unqueued_work, works, fifo>>
    BY <1>2 DEF HashLoop, FillQueue, ScanHash, Close, FillEnter, FillTooFew, FillOut,
                queueRest, driverVars, deviceVars
  <2>2. UNCHANGED aboutVars
    BY <1>0, <2>1 DEF aboutVars
  <2> QED
    BY <1>0, <2>2, AboutFrame, IdsShrink
<1>3. CASE Unqueue
  <2>1. unqueued_work' \in {taken, unqueued_work} /\ taken' = None /\ works' = works /\ fifo' = fifo
    BY <1>3 DEF Unqueue, deviceVars
  <2>2. About' \subseteq About
    BY <1>1, <2>1 DEF About, Ring
  <2> QED
    BY <1>0, <2>2, IdsShrink
<1>4. CASE FillTake
  <2>1. taken' = taken /\ unqueued_work' = None /\ fifo' = fifo
        /\ works' = [works EXCEPT ![NextSlot] = unqueued_work]
    BY <1>4 DEF FillTake, deviceVars
  <2>2. Ring' \subseteq Ring \cup {unqueued_work}
    BY <2>1 DEF Ring, DriverTypeOK
  <2>3. About' \subseteq About
    BY <1>1, <2>1, <2>2 DEF About
  <2> QED
    BY <1>0, <2>3, IdsShrink
<1>5. CASE FillSend
  <2> DEFINE n == Min({queued, neednum})
             batch == TxTask(n)
  <2>1. n \in Nat /\ n <= MAX_WORK_NUM
    BY <1>5, SendNum DEF FillSend
  <2>2. batch \in Seq(Ring \ {None})
    BY <2>1, TxTaskItems
  <2>3. batch \in Seq(Item) /\ ToSet(batch) \subseteq Ring \ {None}
    BY <2>2, RingItems, SeqMonotonic, SetOf
  <2>4. UNCHANGED <<taken, unqueued_work, works>> /\ (fifo' = fifo \o batch \/ fifo' = fifo)
    BY <1>5 DEF FillSend, bitmain_send_data
  <2> HIDE DEF n, batch
  <2>5. fifo \in Seq(Item)
    BY DEF DriverTypeOK
  <2>6. ToSet(fifo') \subseteq ToSet(fifo) \cup Ring
    <3>1. ToSet(fifo \o batch) = ToSet(fifo) \cup ToSet(batch)
      BY <2>3, <2>5, SetOfConcat
    <3> QED
      BY <2>3, <2>4, <3>1
  <2>7. About' \subseteq About
    BY <1>1, <2>4, <2>6 DEF About, Ring
  <2> QED
    BY <1>0, <2>7, IdsShrink
<1> QED
  BY <1>2, <1>3, <1>4, <1>5 DEF MinerThread, Fill

LEMMA ReaderIds == QueueTypeOK /\ TableInv /\ DriverTypeOK /\ RingIsQueued /\ IdsInv /\ Reader => IdsInv'
<1> SUFFICES ASSUME QueueTypeOK, TableInv, DriverTypeOK, RingIsQueued, IdsInv, Reader PROVE IdsInv'
  OBVIOUS
<1>0. packet.nonces \in Seq(Item) /\ wire \in Seq(Packet) /\ readbuf \in Seq(Packet)
      /\ packet \in Packet
  BY DEF DriverTypeOK, Packet
<1>1. UNCHANGED <<staged_work, taken, unqueued_work, works, fifo, solved>>
  BY DEF Reader, ReadNonce, ReadSpace, ReadDevice, queueVars, driverVars, deviceVars
<1>2. Ring' = Ring /\ ToSet(staged_work)' = ToSet(staged_work) /\ ToSet(fifo)' = ToSet(fifo)
      /\ ToSet(solved)' = ToSet(solved)
  BY <1>1 DEF Ring
<1>3. Found' \subseteq Found => About' \subseteq About
  BY <1>1, <1>2 DEF About
<1>4. CASE ReadNonce
  <2> DEFINE nonce == Head(packet.nonces)
             found == find_work_byid(nonce.id)
  <2>1. IsFiniteSet(found)
    BY FS_Subset DEF find_work_byid, TableInv
  <2>2. Cardinality(found) \in Nat /\ total_work \in Nat
    BY <2>1, FS_CardinalityType DEF QueueTypeOK
  <2>3. total_work' = total_work + Cardinality(found) /\ packet.nonces # <<>>
        /\ (submitted' = submitted \cup {<<copy_work(w).counter, nonce.counter>> : w \in found}
              \/ submitted' = submitted)
        /\ packet' = [packet EXCEPT !.nonces = Tail(@)] /\ wire' = wire /\ readbuf' = readbuf
    BY <1>4 DEF ReadNonce, deviceVars
  <2>4. total_work' \in Nat /\ total_work' >= total_work
    BY <2>2, <2>3
  <2>5. packet'.nonces = Tail(packet.nonces)
    BY <1>0, <2>3 DEF Packet
  <2>6. ToSet(packet'.nonces) \subseteq ToSet(packet.nonces) /\ nonce \in ToSet(packet.nonces)
    BY <1>0, <2>3, <2>5, SetOfTail
  <2>7. Found' \subseteq Found
    <3>1. \A p \in Packets' : p \in Packets \/ p = packet'
      BY <2>3 DEF Packets
    <3>2. \A p \in Packets' : ToSet(p.nonces) \subseteq Found
      BY <2>6, <3>1 DEF Found, Packets
    <3> QED
      BY <1>2, <3>2 DEF Found
  <2>8. nonce \in About
    <3>1. nonce \in Found
      BY <2>6 DEF Found, Packets
    <3>2. nonce \in Item
      BY <1>0, <2>6, SetOf
    <3> QED
      BY <3>1, <3>2 DEF About, Item, None
  <2>9. \A w \in found : w \in About /\ w.id = nonce.id
    BY DEF find_work_byid, RingIsQueued, About, Ring
  <2>10. \A w \in found : copy_work(w).counter = nonce.counter
    <3> TAKE w \in found
    <3>1. w \in Item /\ w.counter = nonce.counter
      BY <2>8, <2>9, AboutItems DEF IdsInv
    <3>2. copy_work(w).counter = w.counter
      BY <3>1 DEF copy_work, Item
    <3> QED
      BY <3>1, <3>2
  <2>11. \A s \in submitted' : s \in submitted \/ s[1] = s[2]
    BY <2>3, <2>10
  <2> QED
    BY <1>3, <2>2, <2>4, <2>7, <2>11, AboutItems, IdsFrame
<1>5. CASE ReadSpace
  <2>1. packet' = NoPacket /\ UNCHANGED <<wire, readbuf, total_work, submitted>>
    BY <1>5 DEF ReadSpace, queueVars, deviceVars
  <2>2. ToSet(packet'.nonces) = {}
    BY <2>1, SetOfEmpty DEF NoPacket
  <2>3. Found' \subseteq Found
    BY <1>2, <2>1, <2>2 DEF Found, Packets
  <2> QED
    BY <1>3, <2>1, <2>3, IdsShrink
<1>6. CASE ReadDevice
  <2> DEFINE kept == IF reset THEN <<>> ELSE readbuf
             buffer == kept \o wire
  <2>1. kept \in Seq(Packet) /\ ToSet(kept) \subseteq ToSet(readbuf)
    BY <1>0, EmptySeq, SetOfEmpty
  <2> HIDE DEF kept
  <2>2. buffer \in Seq(Packet) /\ ToSet(buffer) \subseteq ToSet(readbuf) \cup ToSet(wire)
    <3>1. ToSet(kept \o wire) = ToSet(kept) \cup ToSet(wire)
      BY <1>0, <2>1, SetOfConcat
    <3>2. kept \o wire \in Seq(Packet)
      BY <1>0, <2>1, ConcatProperties
    <3> QED
      BY <2>1, <3>1, <3>2
  <2>3. \/ readbuf' = buffer /\ packet' = packet
        \/ readbuf' = readbuf /\ packet' = packet
        \/ buffer # <<>> /\ readbuf' = Tail(buffer) /\ packet' = Head(buffer)
    BY <1>6 DEF ReadDevice, kept
  <2>4. wire' = <<>> /\ UNCHANGED <<total_work, submitted>>
    BY <1>6 DEF ReadDevice, queueVars
  <2> HIDE DEF buffer
  <2>5. buffer # <<>> => ToSet(Tail(buffer)) \subseteq ToSet(buffer) /\ Head(buffer) \in ToSet(buffer)
    BY <2>2, SetOfTail
  <2>6. ToSet(wire') = {}
    BY <2>4, SetOfEmpty
  <2>7. Packets' \subseteq Packets
    BY <2>2, <2>3, <2>5, <2>6 DEF Packets
  <2>8. Found' \subseteq Found
    BY <1>2, <2>7 DEF Found
  <2> QED
    BY <1>3, <2>4, <2>8, IdsShrink
<1> QED
  BY <1>4, <1>5, <1>6 DEF Reader

LEMMA DeviceIds == QueueTypeOK /\ DriverTypeOK /\ IdsInv /\ (DeviceSearch \/ DeviceReport) => IdsInv'
<1> SUFFICES ASSUME QueueTypeOK, DriverTypeOK, IdsInv, DeviceSearch \/ DeviceReport PROVE IdsInv'
  OBVIOUS
<1>0. UNCHANGED <<total_work, staged_work, taken, unqueued_work, works, readbuf, packet, submitted>>
  BY DEF DeviceSearch, DeviceReport, queueVars, driverVars, readerVars
<1>1. Ring' = Ring /\ ToSet(staged_work)' = ToSet(staged_work)
  BY <1>0 DEF Ring
<1>2. fifo \in Seq(Item) /\ solved \in Seq(Item) /\ wire \in Seq(Packet)
  BY DEF DriverTypeOK
<1>3. CASE DeviceSearch
  <2>1. fifo # <<>> /\ fifo' = Tail(fifo) /\ wire' = wire
        /\ (solved' = solved \/ solved' = Append(solved, Head(fifo)))
    BY <1>3 DEF DeviceSearch
  <2>2. ToSet(fifo') \subseteq ToSet(fifo) /\ Head(fifo) \in ToSet(fifo) /\ Head(fifo) \in Item
    BY <1>2, <2>1, SetOfTail, HeadTailProperties
  <2>3. ToSet(solved') \subseteq ToSet(solved) \cup ToSet(fifo)
    <3>1. ToSet(Append(solved, Head(fifo))) = ToSet(solved) \cup {Head(fifo)}
      BY <1>2, <2>2, SetOfAppend
    <3> QED
      BY <2>1, <2>2, <3>1
  <2>4. Packets' = Packets
    BY <1>0, <2>1 DEF Packets
  <2>5. Found' \subseteq Found \cup ToSet(fifo)
    BY <2>3, <2>4 DEF Found
  <2>6. About' \subseteq About
    BY <1>0, <1>1, <2>2, <2>5 DEF About
  <2> QED
    BY <1>0, <2>6, IdsShrink
<1>4. CASE DeviceReport
  <2> DEFINE p == [nonces |-> solved,
                   space |-> IF Len(fifo) > DeviceFifo THEN 0 ELSE DeviceFifo - Len(fifo)]
  <2>1. wire' = Append(wire, p) /\ solved' = <<>> /\ fifo' = fifo
    BY <1>4 DEF DeviceReport
  <2>2. p \in Packet /\ p.nonces = solved
    BY <1>2, LenProperties, Constants DEF Packet
  <2> HIDE DEF p
  <2>3. ToSet(wire') = ToSet(wire) \cup {p} /\ ToSet(solved') = {}
    BY <1>2, <2>1, <2>2, SetOfAppend, SetOfEmpty
  <2>4. \A q \in Packets' : q \in Packets \/ q = p
    BY <1>0, <2>3 DEF Packets
  <2>5. Found' \subseteq Found
    <3>1. \A q \in Packets' : ToSet(q.nonces) \subseteq Found
      BY <2>2, <2>4 DEF Found
    <3> QED
      BY <2>3, <3>1 DEF Found
  <2>6. ToSet(fifo)' = ToSet(fifo)
    BY <2>1
  <2>7. About' \subseteq About
    BY <1>0, <1>1, <2>5, <2>6 DEF About
  <2> QED
    BY <1>0, <2>7, IdsShrink
<1> QED
  BY <1>3, <1>4

LEMMA IdsStep ==
  QueueTypeOK /\ TableInv /\ DriverTypeOK /\ RingIsQueued /\ IdsInv /\ [Next]_vars => IdsInv'
<1> SUFFICES ASSUME QueueTypeOK, TableInv, DriverTypeOK, RingIsQueued, IdsInv, [Next]_vars
             PROVE  IdsInv'
  OBVIOUS
<1>1. CASE UNCHANGED vars
  <2>1. UNCHANGED aboutVars /\ total_work' = total_work /\ submitted' = submitted
    BY <1>1 DEF vars, aboutVars, queueVars, driverVars, readerVars, deviceVars
  <2> QED
    BY <2>1, AboutFrame, IdsShrink
<1> QED
  BY <1>1, QueueIds, MinerThreadIds, ReaderIds, DeviceIds DEF Next

(***************************************************************************)
(* The order of the tasks                                                  *)
(***************************************************************************)
orderVars == <<tasks, work_array, works, queued>>

LEMMA OrderFrame == OrderInv /\ UNCHANGED orderVars /\ Given' = Given => OrderInv'
  BY DEF OrderInv, orderVars

\* The ring's next slot is the next in line until the slots are used up.
LEMMA TakeOrder ==
  ASSUME QueueTypeOK, DriverTypeOK, ItemsInv, OrderInv, FillTake
  PROVE  OrderInv'
<1>1. Given' = Given + 1 /\ unqueued_work.counter = Given
  BY TakeRing
<1>2. Given \in Int
  BY GivenIs DEF ItemsInv
<1>3. queued < neednum /\ works' = [works EXCEPT ![NextSlot] = unqueued_work] /\ queued' = queued + 1
      /\ work_array' = work_array /\ tasks' = tasks
  BY DEF FillTake
<1>4. fifo_space \in Int /\ queued \in Nat /\ Len(tasks) \in Nat
  BY LenProperties, Constants DEF DriverTypeOK
<1>5. queued < MAX_WORK_NUM
  <2>1. neednum <= MAX_WORK_NUM /\ neednum \in Int
    BY <1>4, Constants, MinOfTwo DEF neednum
  <2> QED
    BY <1>3, <1>4, <2>1, Constants
<1> DEFINE L == Len(tasks)
           A == ARRAY_SIZE
<1>6. A \in Nat /\ queued < A
  BY <1>4, <1>5, Constants
<1>7. \A s \in Slot : s # NextSlot => works'[s] = works[s]
  BY <1>3 DEF DriverTypeOK
<1>8. works'[NextSlot] = unqueued_work
  BY <1>3, NextSlotIs DEF DriverTypeOK
<1>9. ASSUME L < A
      PROVE  /\ work_array = L
             /\ \A s \in L .. L + queued : s < A => works'[s].counter = s
             /\ L + queued + 1 <= A => Given + 1 = L + queued + 1
  <2>1. work_array = L /\ (\A s \in L .. L + queued - 1 : s < A => works[s].counter = s)
        /\ (L + queued <= A => Given = L + queued)
    BY <1>9 DEF OrderInv
  <2>2. CASE L + queued < A
    <3>1. NextSlot = L + queued /\ Given = L + queued
      BY <1>4, <1>6, <2>1, <2>2 DEF NextSlot
    <3>2. \A s \in L .. L + queued : works'[s].counter = s
      <4> TAKE s \in L .. L + queued
      <4>1. s \in Slot
        BY <1>4, <1>6, <2>2 DEF Slot
      <4>2. CASE s = L + queued
        BY <1>1, <1>8, <3>1, <4>2
      <4>3. CASE s # L + queued
        <5>1. s \in L .. L + queued - 1 /\ s < A
          BY <1>4, <1>6, <2>2, <4>3
        <5> QED
          BY <1>7, <2>1, <3>1, <4>1, <4>3, <5>1
      <4> QED
        BY <4>2, <4>3
    <3> QED
      BY <1>2, <1>4, <2>1, <3>1, <3>2
  <2>3. CASE L + queued >= A
    <3>1. NextSlot = 0 /\ L >= 1
      BY <1>4, <1>6, <2>1, <2>3 DEF NextSlot
    <3>2. \A s \in L .. L + queued : s < A => works'[s].counter = s
      <4> SUFFICES ASSUME NEW s \in L .. L + queued, s < A PROVE works'[s].counter = s
        OBVIOUS
      <4>1. s \in Slot /\ s # NextSlot /\ s \in L .. L + queued - 1
        BY <1>4, <1>6, <2>3, <3>1 DEF Slot
      <4> QED
        BY <1>7, <2>1, <4>1
    <3> QED
      BY <1>4, <1>6, <2>1, <2>3, <3>2
  <2> QED
    BY <1>4, <1>6, <2>2, <2>3
<1>10. \A n \in 1 .. L : n <= A => tasks[n].counter = n - 1
  BY DEF OrderInv
<1>11. queued' - 1 = queued /\ L + queued + 1 = L + queued' /\ L + queued = L + queued' - 1
  BY <1>3, <1>4
<1> QED
  BY <1>1, <1>3, <1>9, <1>10, <1>11 DEF OrderInv

\* A batch that the ring does not wrap is the next items in line; one that it wraps begins with what
\* was left of them.
LEMMA SendOrder ==
  ASSUME QueueTypeOK, DriverTypeOK, OrderInv, FillSend, Given' = Given
  PROVE  OrderInv'
<1> DEFINE n == Min({queued, neednum})
           batch == TxTask(n)
           L == Len(tasks)
           A == ARRAY_SIZE
<1>1. n \in Nat /\ n <= queued /\ n <= MAX_WORK_NUM
  BY SendNum DEF FillSend
<1>2. batch \in Seq(Ring \ {None})
  BY <1>1, TxTaskItems
<1>3. batch \in Seq(Item)
  BY <1>2, RingItems, SeqMonotonic
<1>4. queued' = queued - n /\ work_array' = AdvanceArray(n) /\ tasks' = tasks \o batch /\ works' = works
  BY DEF FillSend
<1> HIDE DEF n
<1>5. \A q \in Nat : q <= n /\ work_array + q <= A
                     /\ (\A s \in work_array .. work_array + q - 1 : works[s] # None)
                     => /\ Len(batch) >= q
                        /\ q = n => Len(batch) = n
                        /\ \A i \in 1 .. q : batch[i] = works[work_array + i - 1]
  BY <1>1, TxTaskInOrder
<1> HIDE DEF batch
<1>6. tasks \in Seq(Item) /\ L \in Nat /\ Len(batch) \in Nat /\ A \in Nat /\ queued \in Nat
      /\ work_array \in Nat
  BY <1>3, LenProperties, Constants DEF DriverTypeOK
<1>7. /\ Len(tasks') = L + Len(batch)
      /\ \A i \in 1 .. L : tasks'[i] = tasks[i]
      /\ \A i \in 1 .. Len(batch) : tasks'[L + i] = batch[i]
  <2>1. \A i \in 1 .. L : tasks'[i] = tasks[i]
    BY <1>3, <1>4, <1>6, ConcatProperties
  <2>2. Len(tasks') = L + Len(batch)
    BY <1>3, <1>4, <1>6, ConcatProperties
  <2>3. \A i \in 1 .. Len(batch) : tasks'[L + i] = batch[i]
    <3> TAKE i \in 1 .. Len(batch)
    <3>1. L + i \in 1 .. L + Len(batch) /\ L + i > L /\ L + i - L = i
      BY <1>6
    <3> QED
      BY <1>3, <1>4, <1>6, <3>1, ConcatProperties
  <2> QED
    BY <2>1, <2>2, <2>3
<1>8. \A i \in 1 .. L : i <= A => tasks'[i].counter = i - 1
  BY <1>7 DEF OrderInv
<1>9. CASE L >= A
  <2>1. \A i \in 1 .. Len(tasks') : i <= A => tasks'[i].counter = i - 1
    BY <1>6, <1>8, <1>9
  <2>2. ~(Len(tasks') < A)
    BY <1>6, <1>7, <1>9
  <2> QED
    BY <2>1, <2>2 DEF OrderInv
<1>10. CASE L < A
  <2>1. work_array = L /\ (\A s \in L .. L + queued - 1 : s < A => works[s].counter = s)
        /\ (L + queued <= A => Given = L + queued)
    BY <1>10 DEF OrderInv
  <2> DEFINE q == IF L + n <= A THEN n ELSE A - L
  <2>2. q \in Nat /\ q <= n /\ L + q <= A
    BY <1>1, <1>6, <1>10
  <2>3. \A s \in L .. L + q - 1 : works[s].counter = s /\ works[s] # None
    <3> TAKE s \in L .. L + q - 1
    <3>1. s \in L .. L + queued - 1 /\ s < A /\ s \in Nat
      BY <1>1, <1>6, <2>2
    <3>2. works[s].counter = s
      BY <2>1, <3>1
    <3> QED
      BY <3>1, <3>2 DEF None
  <2> HIDE DEF q
  <2>4. /\ Len(batch) >= q
        /\ q = n => Len(batch) = n
        /\ \A i \in 1 .. q : batch[i] = works[L + i - 1]
    BY <1>5, <2>1, <2>2, <2>3
  <2>5. \A i \in 1 .. q : tasks'[L + i].counter = L + i - 1
    <3> TAKE i \in 1 .. q
    <3>1. i \in 1 .. Len(batch) /\ L + i - 1 \in L .. L + q - 1
      BY <1>6, <2>2, <2>4
    <3> QED
      BY <1>7, <2>3, <2>4, <3>1
  <2>6. \A i \in 1 .. L + q : i <= A => tasks'[i].counter = i - 1
    <3> SUFFICES ASSUME NEW i \in 1 .. L + q, i <= A PROVE tasks'[i].counter = i - 1
      OBVIOUS
    <3>1. CASE i <= L
      BY <1>8, <3>1
    <3>2. CASE i > L
      <4>1. i - L \in 1 .. q /\ L + (i - L) = i
        BY <1>6, <2>2, <3>2
      <4> QED
        BY <2>5, <4>1
    <3> QED
      BY <1>6, <3>1, <3>2
  <2>7. CASE L + n <= A
    <3>1. q = n /\ Len(batch) = n /\ Len(tasks') = L + n
      BY <1>7, <2>4, <2>7 DEF q
    <3>2. work_array' = L + n
      BY <1>1, <1>4, <1>6, <2>1, <2>7 DEF AdvanceArray
    <3>3. \A i \in 1 .. Len(tasks') : i <= A => tasks'[i].counter = i - 1
      BY <2>6, <3>1
    <3>4. L + n + queued' = L + queued /\ L + n + queued' - 1 = L + queued - 1
      BY <1>1, <1>4, <1>6
    <3>5. \A s \in L + n .. L + n + queued' - 1 : s < A => works'[s].counter = s
      <4> TAKE s \in L + n .. L + n + queued' - 1
      <4>1. s \in L .. L + queued - 1
        BY <1>1, <1>6, <3>4
      <4> QED
        BY <1>4, <2>1, <4>1
    <3>6. L + n + queued' <= A => Given' = L + n + queued'
      BY <2>1, <3>4
    <3> QED
      BY <3>1, <3>2, <3>3, <3>5, <3>6 DEF OrderInv
  <2>8. CASE ~(L + n <= A)
    <3>1. q = A - L
      BY <2>8 DEF q
    <3>2. Len(tasks') >= A /\ L + q = A /\ Len(tasks') \in Nat
      BY <1>6, <1>7, <2>4, <3>1
    <3>3. \A i \in 1 .. Len(tasks') : i <= A => tasks'[i].counter = i - 1
      BY <1>6, <2>6, <3>2
    <3>4. ~(Len(tasks') < A)
      BY <1>6, <3>2
    <3> QED
      BY <3>3, <3>4 DEF OrderInv
  <2> QED
    BY <2>7, <2>8
<1> QED
  BY <1>6, <1>9, <1>10

LEMMA OrderStep ==
  QueueTypeOK /\ DriverTypeOK /\ ItemsInv /\ OrderInv /\ [Next]_vars => OrderInv'
<1> SUFFICES ASSUME QueueTypeOK, DriverTypeOK, ItemsInv, OrderInv, [Next]_vars PROVE OrderInv'
  OBVIOUS
<1>1. CASE FillTake
  BY <1>1, TakeOrder
<1>2. CASE FillSend
  <2>1. UNCHANGED <<counter, staged_work, taken, unqueued_work>>
    BY <1>2 DEF FillSend, queueRest
  <2>2. Given' = Given
    BY <2>1 DEF Given, Oldest
  <2> QED
    BY <1>2, <2>2, SendOrder
<1>3. CASE ~FillTake /\ ~FillSend
  <2>1. UNCHANGED orderVars
    <3>1. CASE QueueStep \/ Reader \/ DeviceSearch \/ DeviceReport \/ UNCHANGED vars
      BY <3>1 DEF QueueStep, Reader, ReadNonce, ReadSpace, ReadDevice, DeviceSearch, DeviceReport,
                  vars, orderVars, driverVars, historyVars
    <3>2. CASE MinerThread
      BY <1>3, <3>2 DEF MinerThread, Fill, HashLoop, FillQueue, Unqueue, ScanHash, Close, FillEnter,
                        FillTooFew, FillOut, orderVars, driverVars, historyVars
    <3> QED
      BY <3>1, <3>2 DEF Next
  <2>2. Given' = Given
    BY <1>3, ItemsStep
  <2> QED
    BY <2>1, <2>2, OrderFrame
<1> QED
  BY <1>1, <1>2, <1>3

(***************************************************************************)
(* The theorems                                                            *)
(***************************************************************************)
DriverInv == DriverTypeOK /\ ItemsInv /\ IdsInv /\ OrderInv

LEMMA InitDriver == Init => DriverInv
<1> SUFFICES ASSUME Init PROVE DriverInv
  OBVIOUS
<1> USE DEF Init, QueueInit
<1>1. Staged = 0 /\ Oldest = 0 /\ Given = 0 /\ Len(tasks) = 0
  <2>1. Len(<<>>) = 0
    OBVIOUS
  <2>2. Len(staged_work) = 0 /\ Len(tasks) = 0 /\ counter = 0 /\ taken = None /\ unqueued_work = None
    BY <2>1
  <2>3. Oldest = 0
    BY ONLY <2>2 DEF Oldest
  <2> QED
    BY <2>2, <2>3 DEF Staged, Given
<1>2. DriverTypeOK
  <2>1. NoPacket \in Packet
    BY EmptySeq DEF NoPacket, Packet
  <2> QED
    BY <2>1, Constants, EmptySeq DEF DriverTypeOK
<1>3. RingIsQueued /\ RingInv
  BY DEF RingIsQueued, RingInv
<1>4. StagedInv /\ HeldInv
  BY <1>1 DEF StagedInv, HeldInv
<1>5. OrderInv
  BY <1>1, Constants DEF OrderInv
<1>6. IdsInv
  <2>1. Ring \subseteq {None}
    BY DEF Ring
  <2>2. Found = {}
    BY SetOfEmpty DEF Found, Packets, NoPacket
  <2>3. About = {}
    BY <2>1, <2>2, SetOfEmpty DEF About
  <2> QED
    BY <2>3 DEF IdsInv
<1> QED
  BY <1>2, <1>3, <1>4, <1>5, <1>6 DEF DriverInv, ItemsInv

LEMMA NextDriver == IInv /\ DriverInv /\ [Next]_vars => DriverInv'
  BY TypeStep, ItemsStep, IdsStep, OrderStep DEF IInv, DriverInv, ItemsInv

\* For a ring of any size, and any interleaving of the scheduler, the miner thread, the reader and
\* the device, the ring and the table of queued work agree.
THEOREM RingIsQueuedHolds == Spec => []RingIsQueued
<1>1. DriverInv => RingIsQueued
  BY DEF DriverInv, ItemsInv
<1> QED
  BY <1>1, InitInv, NextInv, InitDriver, NextDriver, PTL DEF Spec

LEMMA OrderIsExact == DriverInv => CountersExact
<1> SUFFICES ASSUME DriverInv PROVE CountersExact
  OBVIOUS
<1>0. Len(tasks) \in Nat /\ ARRAY_SIZE \in Nat /\ queued \in Nat
  BY LenProperties, Constants DEF DriverInv, DriverTypeOK
<1>1. \A s \in submitted : s[1] = s[2]
  BY DEF DriverInv, IdsInv
<1>2. ASSUME Len(tasks) + queued <= ARRAY_SIZE
      PROVE  /\ \A n \in 1 .. Len(tasks) : tasks[n].counter = n - 1
             /\ \A n \in 0 .. queued - 1 : works[Len(tasks) + n].counter = Len(tasks) + n
  <2>1. \A n \in 1 .. Len(tasks) : tasks[n].counter = n - 1
    BY <1>0, <1>2 DEF DriverInv, OrderInv
  <2>2. ASSUME NEW n \in 0 .. queued - 1 PROVE works[Len(tasks) + n].counter = Len(tasks) + n
    <3>1. Len(tasks) < ARRAY_SIZE /\ Len(tasks) + n \in Len(tasks) .. Len(tasks) + queued - 1
          /\ Len(tasks) + n < ARRAY_SIZE
      BY <1>0, <1>2
    <3> QED
      BY <3>1 DEF DriverInv, OrderInv
  <2> QED
    BY <2>1, <2>2
<1> QED
  BY <1>1, <1>2 DEF CountersExact

\* Nonces reach the server with the counter of the item they were found for, and the device is given
\* the counters in order, each once, until the slots of the ring are used up.
THEOREM CountersExactHolds == Spec => []CountersExact
  BY OrderIsExact, InitInv, NextInv, InitDriver, NextDriver, PTL DEF Spec
=============================================================================
