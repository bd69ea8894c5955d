------------------------------ MODULE Splitter ------------------------------
(***************************************************************************)
(* preprocessing/splitter.c: an MPI program that reads a file of preimages *)
(* (rank 0), hashes them (ranks 2 .. size-1) and writes each one into the  *)
(* dictionary file of its partitioning key (rank 1).                       *)
(*                                                                         *)
(* A preimage is its position in the input file, so that a preimage mined  *)
(* twice is two entries.  A block is the set of positions it holds; the    *)
(* dictionaries are sorted later, the order inside one is irrelevant.      *)
(*                                                                         *)
(* MPI, which is external: messages of one sender to one receiver are      *)
(* matched in the order they were sent.  MPI_Send may return at once (the  *)
(* message is buffered) or only when the receiver has matched the message; *)
(* `sync' holds the tags for which the library at hand does the latter.    *)
(***************************************************************************)
EXTENDS Integers, Sequences, FiniteSets

CONSTANTS
    N,                  \* preimages in the input file
    Mapper,             \* the ranks 2 .. size-1
    n_slots,            \* 1 << bits dictionary files
    KeyOf,              \* position -> partitioning key, or Invalid
    Invalid,            \* compute_full_hash returned false
    READER_BUFFER_SIZE,
    WRITER_BUFFER_SIZE,
    SendModes           \* the sets of tags MPI_Send may be synchronous for

Slot == 0 .. n_slots - 1
Pos == 1 .. N

Tag == {"READER_REQUEST", "NONCE_BLOCK", "HASH_BLOCK", "EOF", "KEY"}

ASSUME SplitterAssumption ==
    /\ N \in Nat
    /\ IsFiniteSet(Mapper) /\ Mapper # {}
    /\ n_slots \in Nat \ {0}
    /\ Invalid \notin Slot
    /\ KeyOf \in [Pos -> Slot \cup {Invalid}]
    /\ READER_BUFFER_SIZE \in Nat \ {0}
    /\ WRITER_BUFFER_SIZE \in Nat \ {0}
    /\ SendModes \subseteq SUBSET Tag /\ SendModes # {}

\* MPI_Comm_size - 2
n_mapper == Cardinality(Mapper)

VARIABLES
    sync,               \* tags whose MPI_Send waits for the receiver
    toReader,           \* messages in flight, per mapper
    toMapper,
    toWriter,
    rpc, rpos, rblock, reof,            \* reader
    mpc, mblock, output, mslot, meof,   \* mappers
    wpc, wsrc, wslot, n_eof, file       \* writer

chans == <<toReader, toMapper, toWriter>>
reader == <<rpc, rpos, rblock, reof>>
mapper == <<mpc, mblock, output, mslot, meof>>
writer == <<wpc, wsrc, wslot, n_eof, file>>
vars == <<sync, chans, reader, mapper, writer>>

\* Every message carries a tag, a slot number and a block; the fields a tag
\* does not use are 0 and {}.
Msg(tag, slot, block) == [tag |-> tag, slot |-> slot, block |-> block]

\* MPI_Send of the last message of channel c has returned.
Returned(c) == c # <<>> => c[Len(c)].tag \notin sync

Put(c, m, msg) == [c EXCEPT ![m] = Append(@, msg)]
Get(c, m) == [c EXCEPT ![m] = Tail(@)]

Init ==
    /\ sync \in SendModes
    /\ toReader = [m \in Mapper |-> <<>>]
    /\ toMapper = [m \in Mapper |-> <<>>]
    /\ toWriter = [m \in Mapper |-> <<>>]
    /\ rpc = "fread" /\ rpos = 0 /\ rblock = {} /\ reof = 0
    /\ mpc = [m \in Mapper |-> "map"]
    /\ mblock = [m \in Mapper |-> {}]
    /\ output = [m \in Mapper |-> [s \in Slot |-> {}]]
    /\ mslot = [m \in Mapper |-> 0]
    /\ meof = [m \in Mapper |-> FALSE]
    /\ wpc = "key" /\ wsrc = {} /\ wslot = 0 /\ n_eof = 0
    /\ file = [s \in Slot |-> {}]

-----------------------------------------------------------------------------
(* Rank 0, the reader. *)

\* The reader's last MPI_Send has returned.
ReaderReady == \A m \in Mapper : Returned(toMapper[m])

\* Mutant: a short read at the end of the file is taken for a full one.
FreadFull == READER_BUFFER_SIZE

\* The items fread returns: a full buffer, or what is left of the file.
FreadItems == IF N - rpos < READER_BUFFER_SIZE THEN N - rpos ELSE READER_BUFFER_SIZE

\* fread fills the buffer; an empty read at the end of the file ends the loop.
ReaderFread ==
    /\ rpc = "fread"
    /\ ReaderReady
    /\ LET n_items == FreadItems
       IN  /\ rpc' = IF n_items = 0 THEN "eof" ELSE "recv"
           /\ rblock' = (rpos + 1) .. (rpos + n_items)
           /\ rpos' = rpos + n_items
    /\ UNCHANGED <<sync, chans, reof, mapper, writer>>

\* A request, of whichever mapper, is answered with the block just read.
ReaderServe(m) ==
    /\ rpc = "recv"
    /\ toReader[m] # <<>>
    /\ toReader' = Get(toReader, m)
    /\ toMapper' = Put(toMapper, m, Msg("NONCE_BLOCK", 0, rblock))
    /\ rpc' = "fread" /\ rblock' = {}
    /\ UNCHANGED <<sync, toWriter, rpos, reof, mapper, writer>>

\* Mutant: the loop that answers EOF is one round short.
OneEofShort == n_mapper - 1

\* The rounds of the loop that answers EOF, one per mapper.
EofRounds == n_mapper

\* After the last block, that many requests are answered with EOF.
ReaderEof(m) ==
    /\ rpc = "eof"
    /\ reof < EofRounds
    /\ ReaderReady
    /\ toReader[m] # <<>>
    /\ toReader' = Get(toReader, m)
    /\ toMapper' = Put(toMapper, m, Msg("EOF", 0, {}))
    /\ reof' = reof + 1
    /\ UNCHANGED <<sync, toWriter, rpc, rpos, rblock, mapper, writer>>

ReaderDone ==
    /\ rpc = "eof"
    /\ reof = EofRounds
    /\ ReaderReady
    /\ rpc' = "done"
    /\ UNCHANGED <<sync, chans, rpos, rblock, reof, mapper, writer>>

-----------------------------------------------------------------------------
(* Ranks 2 .. size-1, the mappers. *)

MapperReady(m) == Returned(toReader[m]) /\ Returned(toWriter[m])

\* The block is exhausted (or there was none yet): ask for the next one.
MapperRequest(m) ==
    /\ mpc[m] = "map"
    /\ mblock[m] = {}
    /\ MapperReady(m)
    /\ toReader' = Put(toReader, m, Msg("READER_REQUEST", 0, {}))
    /\ mpc' = [mpc EXCEPT ![m] = "recv"]
    /\ UNCHANGED <<sync, toMapper, toWriter, reader, mblock, output, mslot, meof, writer>>

\* A block of preimages, or EOF: then every output buffer is flushed.
MapperRecv(m) ==
    /\ mpc[m] = "recv"
    /\ MapperReady(m)
    /\ toMapper[m] # <<>>
    /\ LET msg == Head(toMapper[m])
       IN  /\ mpc' = [mpc EXCEPT ![m] = IF msg.tag = "EOF" THEN "key" ELSE "map"]
           /\ meof' = [meof EXCEPT ![m] = msg.tag = "EOF"]
           /\ mblock' = [mblock EXCEPT ![m] = msg.block]
    /\ toMapper' = Get(toMapper, m)
    /\ mslot' = [mslot EXCEPT ![m] = 0]
    /\ UNCHANGED <<sync, toReader, toWriter, reader, output, writer>>

\* The buffer just extended is full.
FlushDue(buf) == Cardinality(buf) = WRITER_BUFFER_SIZE

\* One turn of the hashing loop: an invalid preimage is skipped, a valid one
\* goes to the buffer of its slot, and a full buffer is flushed at once.
MapperHash(m) ==
    /\ mpc[m] = "map"
    /\ MapperReady(m)
    /\ \E i \in mblock[m] :
         /\ \A j \in mblock[m] : i <= j
         /\ mblock' = [mblock EXCEPT ![m] = @ \ {i}]
         /\ \/ /\ KeyOf[i] = Invalid
               /\ UNCHANGED <<mpc, output, mslot>>
            \/ /\ KeyOf[i] # Invalid
               /\ LET slot == KeyOf[i]
                      buf  == output[m][slot] \cup {i}
                  IN  /\ output' = [output EXCEPT ![m][slot] = buf]
                      /\ mslot' = [mslot EXCEPT ![m] = slot]
                      /\ mpc' = [mpc EXCEPT ![m] =
                            IF FlushDue(buf) THEN "key" ELSE "map"]
    /\ UNCHANGED <<sync, chans, reader, meof, writer>>

\* A flush is two messages: the slot number, then the block.
MapperSendKey(m) ==
    /\ mpc[m] = "key"
    /\ MapperReady(m)
    /\ toWriter' = Put(toWriter, m, Msg("KEY", mslot[m], {}))
    /\ mpc' = [mpc EXCEPT ![m] = "block"]
    /\ UNCHANGED <<sync, toReader, toMapper, reader, mblock, output, mslot, meof, writer>>

\* Mutant: output_size[slot] is not reset after a flush.
OutputKept(m) == output

\* output_size[slot] = 0
OutputEmptied(m) == [output EXCEPT ![m][mslot[m]] = {}]

\* Where the final flush ends.
LastSlot == n_slots - 1

\* The block, and output_size[slot] = 0.  After EOF the flush goes on with the
\* next slot, otherwise the mapper returns to its preimages.
MapperSendBlock(m) ==
    /\ mpc[m] = "block"
    /\ MapperReady(m)
    /\ toWriter' = Put(toWriter, m, Msg("HASH_BLOCK", 0, output[m][mslot[m]]))
    /\ output' = OutputEmptied(m)
    /\ mslot' = [mslot EXCEPT ![m] = IF meof[m] /\ @ < LastSlot THEN @ + 1 ELSE @]
    /\ mpc' = [mpc EXCEPT ![m] = IF ~meof[m] THEN "map"
                                 ELSE IF mslot[m] < LastSlot THEN "key" ELSE "eof"]
    /\ UNCHANGED <<sync, toReader, toMapper, reader, mblock, meof, writer>>

MapperSendEof(m) ==
    /\ mpc[m] = "eof"
    /\ MapperReady(m)
    /\ toWriter' = Put(toWriter, m, Msg("EOF", 0, {}))
    /\ mpc' = [mpc EXCEPT ![m] = "done"]
    /\ UNCHANGED <<sync, toReader, toMapper, reader, mblock, output, mslot, meof, writer>>

-----------------------------------------------------------------------------
(* Rank 1, the writer. *)

\* Mutant: the first EOF ends the writer.
FirstEof == n_eof > 0

\* Every mapper has said EOF.
AllEof == ~(n_eof < n_mapper)

\* MPI_Recv(ANY_SOURCE, ANY_TAG) into a slot number.  Matching a HASH_BLOCK
\* here is an MPI error (the message is longer than the buffer): abort.
WriterRecvKey(m) ==
    /\ wpc = "key"
    /\ ~AllEof
    /\ toWriter[m] # <<>>
    /\ LET msg == Head(toWriter[m])
       IN  \/ /\ msg.tag = "EOF"
              /\ n_eof' = n_eof + 1
              /\ UNCHANGED <<wpc, wsrc, wslot>>
           \/ /\ msg.tag # "EOF"
              /\ wpc' = IF msg.tag = "KEY" THEN "block" ELSE "aborted"
              /\ wsrc' = {m}
              /\ wslot' = msg.slot
              /\ UNCHANGED n_eof
    /\ toWriter' = Get(toWriter, m)
    /\ UNCHANGED <<sync, toReader, toMapper, reader, mapper, file>>

\* The mapper whose slot number was received last.
FromKeySource(m) == m \in wsrc

\* MPI_Recv(status.MPI_SOURCE, HASH_BLOCK_TAG): the first block of that
\* source, appended to the file of the slot received before it.
WriterRecvBlock(m) ==
    /\ wpc = "block"
    /\ FromKeySource(m)
    /\ \E k \in 1 .. Len(toWriter[m]) :
         /\ toWriter[m][k].tag = "HASH_BLOCK"
         /\ \A j \in 1 .. k - 1 : toWriter[m][j].tag # "HASH_BLOCK"
         /\ file' = [file EXCEPT ![wslot] = @ \cup toWriter[m][k].block]
         /\ toWriter' = [toWriter EXCEPT ![m] =
                            SubSeq(@, 1, k - 1) \o SubSeq(@, k + 1, Len(@))]
    /\ wpc' = "key" /\ wsrc' = {}
    /\ UNCHANGED <<sync, toReader, toMapper, reader, mapper, wslot, n_eof>>

\* The loop over messages is left and the files are closed.
WriterClose ==
    /\ wpc = "key"
    /\ AllEof
    /\ wpc' = "done"
    /\ UNCHANGED <<sync, chans, reader, mapper, wsrc, wslot, n_eof, file>>

-----------------------------------------------------------------------------
\* MPI_Finalize: everyone is through, the program exits.
AllDone == rpc = "done" /\ wpc = "done" /\ \A m \in Mapper : mpc[m] = "done"
Finalized == AllDone /\ UNCHANGED vars

ReaderNext == ReaderFread \/ ReaderDone \/ \E m \in Mapper : ReaderServe(m) \/ ReaderEof(m)
MapperNext(m) ==
    \/ MapperRequest(m) \/ MapperRecv(m) \/ MapperHash(m)
    \/ MapperSendKey(m) \/ MapperSendBlock(m) \/ MapperSendEof(m)
WriterNext == WriterClose \/ \E m \in Mapper : WriterRecvKey(m) \/ WriterRecvBlock(m)

Next == ReaderNext \/ (\E m \in Mapper : MapperNext(m)) \/ WriterNext \/ Finalized

\* Every rank is a process of its own that the operating system schedules.
Fairness ==
    /\ WF_vars(ReaderNext)
    /\ \A m \in Mapper : WF_vars(MapperNext(m))
    /\ WF_vars(WriterNext)

Spec == Init /\ [][Next]_vars
FairSpec == Spec /\ Fairness

-----------------------------------------------------------------------------
(* Properties. *)

MsgType == [tag : Tag, slot : Slot, block : SUBSET Pos]

\* Messages, buffers, positions and the counters of all three roles stay in range.
TypeOK ==
    /\ sync \in SUBSET Tag
    /\ toReader \in [Mapper -> Seq(MsgType)]
    /\ toMapper \in [Mapper -> Seq(MsgType)]
    /\ toWriter \in [Mapper -> Seq(MsgType)]
    /\ rpc \in {"fread", "recv", "eof", "done"}
    /\ rpos \in 0 .. N /\ rblock \in SUBSET Pos /\ reof \in 0 .. n_mapper
    /\ mpc \in [Mapper -> {"map", "recv", "key", "block", "eof", "done"}]
    /\ mblock \in [Mapper -> SUBSET Pos]
    /\ output \in [Mapper -> [Slot -> SUBSET Pos]]
    /\ mslot \in [Mapper -> Slot]
    /\ meof \in [Mapper -> BOOLEAN]
    /\ wpc \in {"key", "block", "done", "aborted"}
    /\ wsrc \in SUBSET Mapper /\ wslot \in Slot /\ n_eof \in 0 .. n_mapper
    /\ file \in [Slot -> SUBSET Pos]

\* The places that hold entry i, from the input file to the dictionaries.
Holders(i) ==
    {"unread" : j \in {rpos} \cap (0 .. i - 1)}
    \cup {"reader" : j \in rblock \cap {i}}
    \cup {<<"mapper", m>> : m \in {n \in Mapper : i \in mblock[n]}}
    \cup {<<"output", p>> : p \in {q \in Mapper \X Slot : i \in output[q[1]][q[2]]}}
    \cup {<<"file", s>> : s \in {t \in Slot : i \in file[t]}}
    \cup (UNION {{<<"toMapper", m, k>> : k \in {j \in DOMAIN toMapper[m] : i \in toMapper[m][j].block}}
                 : m \in Mapper})
    \cup (UNION {{<<"toWriter", m, k>> : k \in {j \in DOMAIN toWriter[m] : i \in toWriter[m][j].block}}
                 : m \in Mapper})

\* A valid entry is at every moment in exactly one place: no message, buffer
\* reset or flush loses or duplicates it (an invalid one vanishes when hashed).
EntriesConserved ==
    \A i \in Pos :
        /\ Cardinality(Holders(i)) <= 1
        /\ KeyOf[i] # Invalid => Holders(i) # {}

\* The two receives of the writer stay in step with each mapper's pairs of
\* messages: its wildcard receive never matches a block, and a block is
\* stored under the slot number that preceded it.
WriterInStep ==
    /\ wpc # "aborted"
    /\ \A s \in Slot : \A i \in file[s] : KeyOf[i] = s

\* When the writer closes its files, every valid preimage of the input is in
\* the dictionary of its key, although EOFs and blocks of the mappers interleave.
SplitComplete == wpc = "done" => \A s \in Slot : file[s] = {i \in Pos : KeyOf[i] = s}

\* A mapper's buffer has room for the entry that hashing the next preimage adds.
OutputHasRoom ==
    \A m \in Mapper : mpc[m] = "map" =>
        \A s \in Slot : Cardinality(output[m][s]) < WRITER_BUFFER_SIZE

\* The splitter neither loses, doubles nor misplaces a preimage, at any moment and in the end, and
\* no mapper writes past its buffers.
SplitExact == EntriesConserved /\ WriterInStep /\ SplitComplete /\ OutputHasRoom

\* The split ends: requests, blocks and EOFs leave nobody waiting, whether
\* MPI_Send buffers or waits for the receiver.
Termination == <>AllDone

\* What the splitter promises: the dictionaries only grow, by entries of their
\* key that are not stored yet, and are closed when complete.
Partition == INSTANCE DictPartition WITH Entry <- Pos, closed <- wpc = "done"
RefinesPartition == Partition!Spec

=============================================================================
