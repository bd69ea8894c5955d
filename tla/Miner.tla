------------------------------- MODULE Miner -------------------------------
(***************************************************************************)
(* The miner of custom_cgminer: the work queue of cgminer.c composed with  *)
(* the bitmain driver (driver-bitmain.c) and the device.  The miner thread *)
(* runs hash_queued_work: it holds at most one unqueued item, bitmain_fill *)
(* moves it into a slot of a ring and sends the ring's items in batches.   *)
(* The reader thread (bitmain_get_results) applies what the device sends.  *)
(*                                                                         *)
(* info->qlock is held while the miner thread is in bitmain_fill; a        *)
(* section under cgpu->qlock is one step.  The bytes of a packet are the   *)
(* subject of RxBuffer: here a packet is its nonces and its fifo_space,    *)
(* and a status packet is one without nonces.  work_block is always 0, so  *)
(* that no nonce is stale; statistics and sleeps are left out.             *)
(***************************************************************************)
EXTENDS WorkQueue, SequencesExt, FiniteSetsExt

CONSTANTS
    ARRAY_SIZE,         \* BITMAIN_ARRAY_SIZE: slots of the ring
    MAX_WORK_NUM,       \* BITMAIN_MAX_WORK_NUM: items of a batch
    MAX_WORK_QUEUE_NUM,
    MAX_DEAL_QUEUE_NUM, \* items worth a batch
    SEND_FULL_SPACE,
    ERROR_LIMIT,        \* 1000 in the code
    DeviceFifo,         \* items the device holds
    MaxErrors,          \* bound: sends that fail
    MaxNonces,          \* bound: nonces the device finds
    MaxWire             \* bound: packets the reader has not read yet

ASSUME MinerAssumption ==
    /\ {ARRAY_SIZE, MAX_WORK_NUM, MAX_WORK_QUEUE_NUM, MAX_DEAL_QUEUE_NUM} \subseteq Nat \ {0}
    /\ MAX_WORK_NUM <= ARRAY_SIZE
    /\ {SEND_FULL_SPACE, ERROR_LIMIT, DeviceFifo, MaxErrors, MaxNonces, MaxWire} \subseteq Nat

VARIABLES
    unqueued_work, queued_work,                     \* cgpu
    works, work_array, queued,                      \* its ring
    fifo_space, send_full_space, errorcount, reset, \* info
    shutdown, ret,
    reader, readbuf, packet,                        \* the reader thread
    fifo, solved, wire,                             \* the device
    errors, nonces,                                 \* what the bounds count
    tasks,              \* every item put into a token, in order
    submitted           \* counter sent to the server, counter the nonce is of

driverVars == <<unqueued_work, queued_work, works, work_array, queued, fifo_space, send_full_space,
                errorcount, reset, shutdown, ret>>
readerVars == <<reader, readbuf, packet, submitted>>
deviceVars == <<fifo, solved, wire, nonces>>
historyVars == <<errors, tasks>>
vars == <<queueVars, driverVars, readerVars, deviceVars, historyVars>>

\* bitmain_prepare allocates more slots than ARRAY_SIZE; one more is ever looked at.
Slot == 0 .. ARRAY_SIZE

NoPacket == [nonces |-> <<>>, space |-> 0]

Init ==
    /\ QueueInit
    /\ unqueued_work = None
    /\ queued_work = {}
    /\ works = [s \in Slot |-> None]
    /\ work_array = 0
    /\ queued = 0
    /\ fifo_space = DeviceFifo
    /\ send_full_space = 0
    /\ errorcount = 0
    /\ reset = FALSE
    /\ shutdown = FALSE
    /\ ret = FALSE
    /\ reader = "read"
    /\ readbuf = <<>>
    /\ packet = NoPacket
    /\ fifo = <<>>
    /\ solved = <<>>
    /\ wire = <<>>
    /\ errors = 0
    /\ nonces = 0
    /\ tasks = <<>>
    /\ submitted = {}

queueRest == <<total_work, counter, staged_work, max_queue, work_filled, work_emptied, sched, max_staged, spurious>>

(***************************************************************************)
(* The miner thread: hash_queued_work and fill_queue                       *)
(***************************************************************************)
HashLoop ==
    /\ miner = "loop"
    /\ miner' = IF shutdown THEN "close" ELSE "fill"
    /\ UNCHANGED <<queueRest, taken, driverVars, readerVars, deviceVars, historyVars>>

\* Looks at unqueued_work without the lock.
FillQueue ==
    /\ miner = "fill"
    /\ miner' = IF unqueued_work = None THEN "pop" ELSE "full"
    /\ UNCHANGED <<queueRest, taken, driverVars, readerVars, deviceVars, historyVars>>

\* Looks again, with the lock, and discards the item when another is there.
Unqueue ==
    /\ miner = "got"
    /\ unqueued_work' = IF unqueued_work = None THEN taken ELSE unqueued_work
    /\ taken' = None
    /\ miner' = "full"
    /\ UNCHANGED <<queueRest, queued_work, works, work_array, queued, fifo_space, send_full_space,
                   errorcount, reset, shutdown, ret, readerVars, deviceVars, historyVars>>

\* bitmain_scanhash hands the count of nonces to the hashmeter.
ScanHash ==
    /\ miner = "scan"
    /\ miner' = "loop"
    /\ UNCHANGED <<queueRest, taken, driverVars, readerVars, deviceVars, historyVars>>

\* bitmain_shutdown joins the reader, and then a thread that was never created: the join
\* fails or the program crashes.
Close ==
    /\ miner = "close"
    /\ reader = "done"
    /\ \E outcome \in {"closed", "crashed"} : miner' = outcome
    /\ reset' = FALSE
    /\ UNCHANGED <<queueRest, taken, unqueued_work, queued_work, works, work_array, queued, fifo_space,
                   send_full_space, errorcount, shutdown, ret, readerVars, deviceVars, historyVars>>

(***************************************************************************)
(* bitmain_fill, under info->qlock                                         *)
(***************************************************************************)
neednum == Min({fifo_space, MAX_WORK_NUM})

FillEnter ==
    /\ miner = "full"
    /\ ret' = (fifo_space <= 0 \/ queued >= MAX_WORK_QUEUE_NUM)
    /\ miner' = IF fifo_space <= 0 THEN "out" ELSE "take"
    /\ UNCHANGED <<queueRest, taken, unqueued_work, queued_work, works, work_array, queued, fifo_space,
                   send_full_space, errorcount, reset, shutdown, readerVars, deviceVars, historyVars>>

\* The slot of the next item: past the end of the ring it is 0.
NextSlot == IF work_array + queued >= ARRAY_SIZE THEN 0 ELSE work_array + queued

\* Mutant: the item stays in the table.
KeepsCompleted(work) == queued_work

\* work_completed unlinks an item from the table.
Completed(work) == queued_work \ {work}

\* get_queued moves the unqueued item into the table of queued work.
get_queued(table) == table \cup {unqueued_work}

\* The item takes its slot; the one found there is completed.
FillTake ==
    /\ miner = "take"
    /\ queued < neednum
    /\ unqueued_work # None
    /\ queued_work' = get_queued(Completed(works[NextSlot]))
    /\ works' = [works EXCEPT ![NextSlot] = unqueued_work]
    /\ queued' = queued + 1
    /\ unqueued_work' = None
    /\ UNCHANGED <<queueRest, miner, taken, work_array, fifo_space, send_full_space, errorcount, reset,
                   shutdown, ret, readerVars, deviceVars, errors, tasks>>

\* Nothing more to take, and too little for a batch.
FillTooFew ==
    /\ miner = "take"
    /\ fifo_space > 0
    /\ unqueued_work = None
    /\ queued < neednum
    /\ queued < MAX_DEAL_QUEUE_NUM
    /\ miner' = "out"
    /\ UNCHANGED <<queueRest, taken, driverVars, readerVars, deviceVars, historyVars>>

\* bitmain_set_txtask: n slots from work_array on, the empty ones skipped; the index wraps after
\* ARRAY_SIZE.
TxTask(n) ==
    LET index(k) == IF work_array + k <= ARRAY_SIZE THEN work_array + k
                                                    ELSE work_array + k - ARRAY_SIZE - 1
        sent[k \in 0 .. n] ==
            IF k = 0 THEN <<>>
            ELSE IF works[index(k - 1)] = None THEN sent[k - 1]
            ELSE Append(sent[k - 1], works[index(k - 1)])
    IN  sent[n]

\* Mutant: the slot advances by one less than was sent.
AdvancesLess(n) == IF n > 1 THEN work_array + n - 1 ELSE work_array + n

AdvanceArray(n) ==
    IF work_array + n > ARRAY_SIZE THEN work_array + n - ARRAY_SIZE ELSE work_array + n

\* bitmain_write goes on until every byte of the token is written, or a write fails: a token of
\* which a part was written is never completed, and the device drops it.
bitmain_send_data(batch) ==
    /\ fifo' = fifo \o batch
    /\ errorcount' = 0

SendFails ==
    /\ errors < MaxErrors
    /\ errors' = errors + 1
    /\ reset' = TRUE
    /\ errorcount' = IF errorcount + 1 > ERROR_LIMIT THEN 0 ELSE errorcount + 1
    /\ shutdown' = (shutdown \/ errorcount + 1 > ERROR_LIMIT)

FillSend ==
    /\ miner = "take"
    /\ fifo_space > 0
    /\ queued >= neednum \/ (unqueued_work = None /\ queued >= MAX_DEAL_QUEUE_NUM)
    /\ LET sendnum == Min({queued, neednum})
           batch == TxTask(sendnum)
       IN  /\ queued' = queued - sendnum
           /\ send_full_space' = send_full_space + sendnum
           /\ work_array' = AdvanceArray(sendnum)
           /\ tasks' = tasks \o batch
           /\ fifo_space' = fifo_space - Len(batch)
           /\ \/ /\ batch = <<>>
                 /\ miner' = "out"
                 /\ UNCHANGED <<errorcount, reset, shutdown, ret, errors, fifo>>
              \/ /\ batch # <<>>
                 /\ bitmain_send_data(batch)
                 /\ miner' = "take"
                 /\ UNCHANGED <<reset, shutdown, ret, errors>>
              \/ /\ batch # <<>>
                 /\ SendFails
                 /\ ret' = TRUE
                 /\ miner' = "out"
                 /\ UNCHANGED fifo
    /\ UNCHANGED <<queueRest, taken, unqueued_work, queued_work, works, readerVars, solved, wire, nonces>>

\* The rest of bitmain_fill: the status token, when it is time, and the throttle.
FillOut ==
    /\ miner = "out" \/ (miner = "take" /\ fifo_space <= 0)
    /\ LET tired == send_full_space > SEND_FULL_SPACE
           Return(r) == IF r \/ tired THEN "scan" ELSE "fill"
       IN  /\ send_full_space' = IF tired THEN 0 ELSE send_full_space
           /\ ret' = FALSE
           /\ \/ /\ miner' = Return(ret)
                 /\ UNCHANGED <<errorcount, reset, shutdown, errors>>
              \/ /\ errorcount' = 0
                 /\ miner' = Return(ret \/ fifo_space <= 0)
                 /\ UNCHANGED <<reset, shutdown, errors>>
              \/ /\ SendFails
                 /\ miner' = Return(TRUE)
    /\ UNCHANGED <<queueRest, taken, unqueued_work, queued_work, works, work_array, queued, fifo_space,
                   readerVars, deviceVars, tasks>>

Fill == FillEnter \/ FillTake \/ FillTooFew \/ FillSend \/ FillOut

QlockFree == miner \notin {"take", "out"}

(***************************************************************************)
(* The reader thread: bitmain_get_results                                  *)
(***************************************************************************)
find_work_byid(id) == {w \in queued_work : w.id = id}

\* The clone keeps the id that make_work drew for it, the rest is the item's.
copy_work(w) == [w EXCEPT !.id = total_work]

\* clone_queued_work_byid; the clone's counter goes to the server with the nonce, or is dropped
\* when the socket would block.
ReadNonce ==
    /\ reader = "nonces"
    /\ packet.nonces # <<>>
    /\ LET nonce == Head(packet.nonces)
           found == find_work_byid(nonce.id)
       IN  /\ total_work' = total_work + Cardinality(found)
           /\ \/ submitted' = submitted \cup {<<copy_work(w).counter, nonce.counter>> : w \in found}
              \/ UNCHANGED submitted
    /\ packet' = [packet EXCEPT !.nonces = Tail(@)]
    /\ UNCHANGED <<counter, staged_work, max_queue, work_filled, work_emptied, sched,
                   max_staged, miner, taken, spurious, driverVars, reader, readbuf, deviceVars,
                   historyVars>>

\* fifo_space is what the device had when it sent the packet.
ReadSpace ==
    /\ reader = "nonces"
    /\ packet.nonces = <<>>
    /\ QlockFree
    /\ fifo_space' = packet.space
    /\ packet' = NoPacket
    /\ reader' = "read"
    /\ UNCHANGED <<queueVars, unqueued_work, queued_work, works, work_array, queued, send_full_space,
                   errorcount, reset, shutdown, ret, readbuf, submitted, deviceVars,
                   historyVars>>

\* After a failed send everything that was read before is discarded.  The device is read; the
\* next turn parses one packet.
ReadDevice ==
    /\ reader = "read"
    /\ LET buffer == (IF reset THEN <<>> ELSE readbuf) \o wire
       IN  \/ /\ shutdown
              /\ reader' = "done"
              /\ readbuf' = buffer
              /\ UNCHANGED packet
           \/ /\ ~shutdown
              /\ buffer = <<>>
              /\ UNCHANGED <<reader, readbuf, packet>>
           \/ /\ ~shutdown
              /\ buffer # <<>>
              /\ reader' = "nonces"
              /\ packet' = Head(buffer)
              /\ readbuf' = Tail(buffer)
    /\ reset' = FALSE
    /\ wire' = <<>>
    /\ UNCHANGED <<queueVars, unqueued_work, queued_work, works, work_array, queued, fifo_space,
                   send_full_space, errorcount, shutdown, ret, submitted, fifo, solved, nonces,
                   historyVars>>

Reader == ReadNonce \/ ReadSpace \/ ReadDevice

(***************************************************************************)
(* The device                                                              *)
(***************************************************************************)
\* An item is searched; a nonce may be found.
DeviceSearch ==
    /\ fifo # <<>>
    /\ fifo' = Tail(fifo)
    /\ \/ UNCHANGED <<solved, nonces>>
       \/ /\ nonces < MaxNonces
          /\ nonces' = nonces + 1
          /\ solved' = Append(solved, Head(fifo))
    /\ UNCHANGED <<queueVars, driverVars, readerVars, wire, historyVars>>

DeviceReport ==
    /\ Len(wire) < MaxWire
    /\ wire' = Append(wire, [nonces |-> solved,
                             space |-> IF Len(fifo) > DeviceFifo THEN 0 ELSE DeviceFifo - Len(fifo)])
    /\ solved' = <<>>
    /\ UNCHANGED <<queueVars, driverVars, readerVars, fifo, nonces, historyVars>>

(***************************************************************************)
(* The specification                                                       *)
(***************************************************************************)
QueueStep ==
    /\ Scheduler \/ SchedSpurious \/ GetWork
    /\ UNCHANGED <<driverVars, readerVars, deviceVars, historyVars>>

MinerThread == HashLoop \/ FillQueue \/ Unqueue \/ ScanHash \/ Close \/ Fill

Next == QueueStep \/ MinerThread \/ Reader \/ DeviceSearch \/ DeviceReport

\* Every thread runs, and the device searches and reports.
Fairness ==
    /\ WF_vars(Scheduler /\ UNCHANGED <<driverVars, readerVars, deviceVars, historyVars>>)
    /\ WF_vars(GetWork /\ UNCHANGED <<driverVars, readerVars, deviceVars, historyVars>>)
    /\ WF_vars(MinerThread)
    /\ WF_vars(Reader)
    /\ WF_vars(DeviceSearch)
    /\ WF_vars(DeviceReport)

Spec == Init /\ [][Next]_vars /\ Fairness

(***************************************************************************)
(* Properties                                                              *)
(***************************************************************************)
\* The ring and the table of queued work name the same items, every item in one slot: work_completed
\* never leaves a slot that points to a freed item, nor an item that no slot will ever free.
RingIsQueued ==
    /\ queued_work = {works[s] : s \in Slot} \ {None}
    /\ \A s, t \in Slot : works[s] = works[t] /\ s # t => works[s] = None

\* Counters are not mixed up.  A nonce reaches the server with the counter of the item it was found
\* for, although items and clones draw their ids from one counter while slots are reused.  And until
\* the ring is used up once, the device is given every counter, in order and once, failed sends
\* apart: batches neither skip nor repeat an item.
CountersExact ==
    /\ \A s \in submitted : s[1] = s[2]
    /\ Len(tasks) + queued <= ARRAY_SIZE =>
        /\ \A n \in 1 .. Len(tasks) : tasks[n].counter = n - 1
        /\ \A n \in 0 .. queued - 1 : works[Len(tasks) + n].counter = Len(tasks) + n
=============================================================================
