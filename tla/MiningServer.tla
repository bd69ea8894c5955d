---------------------------- MODULE MiningServer ----------------------------
(***************************************************************************)
(* mining_server/server.nw and its clients (custom_cgminer/cgminer.c, and  *)
(* sample_client.nw).  A miner says hello, is told the counter to start    *)
(* at, works through the counters from there on and pushes every nonce it  *)
(* finds.  The server appends the (counter, nonce) pairs to the work file, *)
(* keeps the highest counter it has seen and saves it, every SAVE_EVERY    *)
(* nonces, in the status file from which it restarts.                      *)
(*                                                                         *)
(* A counter has at most one nonce here, so the pair is its counter.  A    *)
(* record of the work file is RECORD words; stdio hands the words to the   *)
(* disk when its buffer of BUFSIZ words is full, wherever that is in a     *)
(* record.  nanomsg is external: a PUSH socket without room or without a   *)
(* peer refuses the message, what is in flight may be lost when either     *)
(* side dies, and a request without an answer is sent again.               *)
(***************************************************************************)
EXTENDS Integers, Sequences

CONSTANTS
    Miner,
    MAX_COUNTER,    \* bound: the miners stop generating work there
    SAVE_EVERY,     \* 1000 in the code
    RECORD,         \* 3 words of 4 bytes in the code
    BUFSIZ,         \* words in the buffer of work_file
    NET_CAP,        \* messages that fit between miners and server
    MAX_SERVER_CRASH, MAX_MINER_CRASH

ASSUME MiningAssumption ==
    /\ MAX_COUNTER \in Nat /\ SAVE_EVERY \in Nat
    /\ RECORD \in Nat \ {0} /\ BUFSIZ \in Nat /\ BUFSIZ >= RECORD
    /\ NET_CAP \in Nat \ {0}
    /\ MAX_SERVER_CRASH \in Nat /\ MAX_MINER_CRASH \in Nat

Counter == 0 .. MAX_COUNTER

\* The state of a file on disk: it does not exist, or it has some contents.
NoFile == {}
FileOf(contents) == {contents}

VARIABLES
    spc,                \* server: "poll", "check", "write", "flush", "down" or "dead"
    counter, nonce_received, last_counter_saved,
    work_buf,           \* words buffered by stdio
    work_disk,          \* words in the work file
    status,             \* status file: NoFile, FileOf(<<>>) or FileOf(<<counter>>)
    mpc,                \* miner: "start", "waiting", "mining"
    next,               \* miner: foobar counter of its next work item
    inflight,           \* miner: counters it is working on
    hello,              \* miners whose request waits for an answer
    greeting,           \* miner -> {} or {the counter it was told}
    net,                \* pushed nonces on their way
    worked,             \* counters the chips are done with (history)
    dropped,            \* counters a miner took and threw away (history)
    scrashes, mcrashes

server == <<spc, counter, nonce_received, last_counter_saved, work_buf>>
files == <<work_disk, status>>
miners == <<mpc, next, inflight>>
network == <<hello, greeting, net>>
history == <<worked, dropped>>
vars == <<server, files, miners, network, history, scrashes, mcrashes>>

Init ==
    /\ spc = "poll" /\ counter = 0 /\ nonce_received = 0 /\ last_counter_saved = 0
    /\ work_buf = <<>> /\ work_disk = <<>> /\ status = NoFile
    /\ mpc = [m \in Miner |-> "start"]
    /\ next = [m \in Miner |-> 0]
    /\ inflight = [m \in Miner |-> {}]
    /\ hello = {} /\ greeting = [m \in Miner |-> {}] /\ net = <<>>
    /\ worked = {} /\ dropped = {}
    /\ scrashes = 0 /\ mcrashes = 0

-----------------------------------------------------------------------------
(* The server. *)

\* The words of the record of counter c.
Words(c) == [i \in 1 .. RECORD |-> <<c, i>>]

\* fwrite: a record that does not fit fills the buffer, which goes to disk, and
\* the rest of the record starts the next buffer.
Fwrite(c) ==
    LET all == work_buf \o Words(c)
    IN  IF Len(all) > BUFSIZ
        THEN /\ work_disk' = work_disk \o SubSeq(all, 1, BUFSIZ)
             /\ work_buf' = SubSeq(all, BUFSIZ + 1, Len(all))
        ELSE work_buf' = all /\ UNCHANGED work_disk

\* The counter after a nonce for counter c.
HighestCounter(c) == IF c > counter THEN c ELSE counter

\* Mutant: the miner is told to start beyond the highest counter seen.
GreetBeyond == counter + 2

\* The start value a miner is told.
GreetCounter == counter

\* Mutant: the request is read and not answered.
NoAnswer(m) == greeting

\* nn_send on the REP socket.
Answer(m) == [greeting EXCEPT ![m] = {GreetCounter}]

\* One turn of the main loop: nn_poll says which sockets are ready, a request is
\* answered, then a nonce is stored, then the status is looked at.  (A poll that
\* times out changes nothing.)
ServerTurn ==
    /\ spc = "poll"
    /\ hello # {} \/ net # <<>>
    /\ \/ /\ hello = {}
          /\ UNCHANGED <<hello, greeting>>
       \/ \E m \in hello :
             /\ hello' = hello \ {m}
             /\ greeting' = Answer(m)
    /\ \/ /\ net = <<>>
          /\ UNCHANGED <<net, counter, nonce_received, work_buf, work_disk>>
       \/ /\ net # <<>>
          /\ net' = Tail(net)
          /\ counter' = HighestCounter(Head(net))
          /\ Fwrite(Head(net))
          /\ nonce_received' = nonce_received + 1
    /\ spc' = "check"
    /\ UNCHANGED <<last_counter_saved, status, miners, history, scrashes, mcrashes>>

\* Nothing to save yet.
NoSave ==
    /\ spc = "check"
    /\ ~(nonce_received > last_counter_saved + SAVE_EVERY)
    /\ spc' = "poll"
    /\ UNCHANGED <<counter, nonce_received, last_counter_saved, work_buf, files, miners,
                   network, history, scrashes, mcrashes>>

\* fopen(status_filename, "w") empties the status file.
OpenStatus ==
    /\ spc = "check"
    /\ nonce_received > last_counter_saved + SAVE_EVERY
    /\ status' = FileOf(<<>>)
    /\ spc' = "write"
    /\ UNCHANGED <<counter, nonce_received, last_counter_saved, work_buf, work_disk, miners,
                   network, history, scrashes, mcrashes>>

\* fwrite and fclose: the counter is in the status file.
WriteStatus ==
    /\ spc = "write"
    /\ status' = FileOf(<<counter>>)
    /\ spc' = "flush"
    /\ UNCHANGED <<counter, nonce_received, last_counter_saved, work_buf, work_disk, miners,
                   network, history, scrashes, mcrashes>>

\* Mutant: the counter, not the number of nonces, is remembered.
MarkCounter == counter

\* The number of nonces at the last save.
SaveMark == nonce_received

\* fflush(work_file), only now.
FlushWork ==
    /\ spc = "flush"
    /\ last_counter_saved' = SaveMark
    /\ work_disk' = work_disk \o work_buf
    /\ work_buf' = <<>>
    /\ spc' = "poll"
    /\ UNCHANGED <<counter, nonce_received, status, miners, network, history, scrashes, mcrashes>>

\* The server is stopped, by hand or by a failure: it has no other way to end,
\* and what stdio buffers is lost.
ServerStop ==
    /\ spc \in {"poll", "check", "write", "flush"}
    /\ scrashes < MAX_SERVER_CRASH
    /\ scrashes' = scrashes + 1
    /\ spc' = "down"
    /\ counter' = 0 /\ nonce_received' = 0 /\ last_counter_saved' = 0 /\ work_buf' = <<>>
    /\ net' \in {net, <<>>}
    /\ \E again \in SUBSET {m \in Miner : greeting[m] # {}} :
         /\ hello' = hello \cup again
         /\ greeting' = [m \in Miner |-> IF m \in again THEN {} ELSE greeting[m]]
    /\ UNCHANGED <<files, miners, history, mcrashes>>

\* The server starts again: cold, from the saved counter, or not at all when the
\* status file has nothing to read.
ServerStart ==
    /\ spc = "down"
    /\ \/ status = NoFile /\ counter' = 0 /\ spc' = "poll"
       \/ \E saved \in status :
             IF saved = <<>> THEN spc' = "dead" /\ UNCHANGED counter
                             ELSE spc' = "poll" /\ counter' = saved[1]
    /\ UNCHANGED <<nonce_received, last_counter_saved, work_buf, files, miners, network,
                   history, scrashes, mcrashes>>

-----------------------------------------------------------------------------
(* The miners. *)

\* nn_send of an empty request.
Hello(m) ==
    /\ mpc[m] = "start"
    /\ mpc' = [mpc EXCEPT ![m] = "waiting"]
    /\ hello' = hello \cup {m}
    /\ UNCHANGED <<server, files, next, inflight, greeting, net, history, scrashes, mcrashes>>

\* The greeting arrives: work starts at its counter.
Greeted(m) ==
    /\ mpc[m] = "waiting"
    /\ \E c \in greeting[m] : next' = [next EXCEPT ![m] = c]
    /\ greeting' = [greeting EXCEPT ![m] = {}]
    /\ mpc' = [mpc EXCEPT ![m] = "mining"]
    /\ UNCHANGED <<server, files, inflight, hello, net, history, scrashes, mcrashes>>

\* gen_foobar_work: a work item for the next counter.
GenWork(m) ==
    /\ mpc[m] = "mining"
    /\ next[m] < MAX_COUNTER
    /\ inflight' = [inflight EXCEPT ![m] = @ \cup {next[m]}]
    /\ next' = [next EXCEPT ![m] = @ + 1]
    /\ UNCHANGED <<server, files, mpc, network, history, scrashes, mcrashes>>

\* The PUSH socket takes the message.
Sendable == spc \notin {"down", "dead"} /\ Len(net) < NET_CAP

\* A work item is done, in whatever order the chips answer: without a nonce, or
\* with one that submit_nonce_direct pushes, or drops when nn_send would block.
FinishWork(m, c) ==
    /\ c \in inflight[m]
    /\ inflight' = [inflight EXCEPT ![m] = @ \ {c}]
    /\ worked' = worked \cup {c}
    /\ \/ UNCHANGED net
       \/ Sendable /\ net' = Append(net, c)
    /\ UNCHANGED <<server, files, mpc, next, hello, greeting, dropped, scrashes, mcrashes>>

\* The driver throws an item away that never reached the chips (Miner has the cases:
\* its batch was not sent, or its slot of the ring was used again).
DropWork(m, c) ==
    /\ c \in inflight[m]
    /\ inflight' = [inflight EXCEPT ![m] = @ \ {c}]
    /\ dropped' = dropped \cup {c}
    /\ UNCHANGED <<server, files, mpc, next, network, worked, scrashes, mcrashes>>

\* The miner dies, with the items it has, and its monitor starts it again.
MinerRestart(m) ==
    /\ mpc[m] # "start"
    /\ mcrashes < MAX_MINER_CRASH
    /\ mcrashes' = mcrashes + 1
    /\ mpc' = [mpc EXCEPT ![m] = "start"]
    /\ inflight' = [inflight EXCEPT ![m] = {}]
    /\ dropped' = dropped \cup inflight[m]
    /\ next' = [next EXCEPT ![m] = 0]
    /\ hello' = hello \ {m} /\ greeting' = [greeting EXCEPT ![m] = {}]
    /\ UNCHANGED <<server, files, net, worked, scrashes>>

-----------------------------------------------------------------------------
ServerNext == ServerTurn \/ NoSave \/ OpenStatus \/ WriteStatus \/ FlushWork \/ ServerStart
MinerNext(m) ==
    \/ Hello(m) \/ Greeted(m) \/ GenWork(m)
    \/ \E c \in inflight[m] : FinishWork(m, c) \/ DropWork(m, c)

Next == ServerNext \/ ServerStop \/ \E m \in Miner : MinerNext(m) \/ MinerRestart(m)

\* The server and the miners keep running; nothing forces a crash.
Fairness == WF_vars(ServerNext) /\ \A m \in Miner : WF_vars(MinerNext(m))

Spec == Init /\ [][Next]_vars
FairSpec == Spec /\ Fairness

-----------------------------------------------------------------------------
(* Properties. *)

\* Counters, words, files and messages stay in range; stdio buffers at most BUFSIZ words.
TypeOK ==
    /\ spc \in {"poll", "check", "write", "flush", "down", "dead"}
    /\ counter \in Counter /\ nonce_received \in Nat /\ last_counter_saved \in Nat
    /\ work_buf \in Seq(Counter \X (1 .. RECORD))
    /\ Len(work_buf) <= BUFSIZ
    /\ work_disk \in Seq(Counter \X (1 .. RECORD))
    /\ status \in {NoFile, FileOf(<<>>)} \cup {FileOf(<<c>>) : c \in Counter}
    /\ mpc \in [Miner -> {"start", "waiting", "mining"}]
    /\ next \in [Miner -> Counter]
    /\ inflight \in [Miner -> SUBSET Counter]
    /\ hello \in SUBSET Miner
    /\ greeting \in [Miner -> SUBSET Counter]
    /\ net \in Seq(Counter)
    /\ worked \in SUBSET Counter /\ dropped \in SUBSET Counter
    /\ scrashes \in 0 .. MAX_SERVER_CRASH /\ mcrashes \in 0 .. MAX_MINER_CRASH

\* Only a miner can leave a gap.  Whatever stops of the server, files it restarts from, lost
\* messages and nonces out of order: when a miner is told to start at a counter, every counter
\* below has been worked on, or a miner has it in work, or one took it and threw it away.
NoCounterSkipped ==
    \A m \in Miner : \A c \in greeting[m] : \A d \in 0 .. c - 1 :
        d \in worked \/ d \in dropped \/ \E n \in Miner : d \in inflight[n]

\* A miner that asks is answered, unless the server cannot start.
HelloAnswered == \A m \in Miner : mpc[m] = "waiting" ~> (mpc[m] # "waiting" \/ spc = "dead")

\* The words, read in records of RECORD as the splitter does, are pairs the server
\* received.
Aligned(w) ==
    \A i \in DOMAIN w : w[i][2] = ((i - 1) % RECORD) + 1 /\ w[i][1] = w[i - w[i][2] + 1][1]

\* The work file is "a list of (counter, nonce) pairs": the words on disk followed
\* by the buffered ones are whole records.
WorkFileAligned == Aligned(work_disk \o work_buf)

\* It is, wherever stdio cuts a record in two, as long as the server is not stopped.
AlignedUntilStop == scrashes = 0 => WorkFileAligned

\* The server saves everything every SAVE_EVERY nonces: back at the poll no more
\* than that many are unsaved, and with none unsaved both files are up to date.
SavedInTime ==
    spc = "poll" =>
        /\ nonce_received - last_counter_saved <= SAVE_EVERY
        /\ nonce_received = last_counter_saved /\ nonce_received > 0
             => work_buf = <<>> /\ status = FileOf(<<counter>>)

\* As long as the server is not stopped its files are whole, and never far behind what it received.
FilesUpToDate == AlignedUntilStop /\ SavedInTime

\* Stopping the server never leaves a status file that it refuses to start from.
CanRestart == spc # "dead"

=============================================================================
