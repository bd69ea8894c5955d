# A verification project for 3XOR-mining

The repository computes partial 3XORs on SHA-256: three inputs, of the kinds
foo, bar and foobar, whose hashes xor to a value with many leading zeros.  It is
a chain of programs that run for weeks on several machines and talk through
files, MPI and sockets.  What can go wrong is rarely inside a function: it is a
crash between two writes, a message matched with the wrong receive, a rank that
skips what the others do, a thread that reports while another does, a table
exactly full.  This project models those programs in TLA+, checks the models
with TLC and proves some of the results with TLAPS.

## 1. The system

```
 ASIC boards                 mining server            splitter  -> dictionaries (per kind, per key)
 custom_cgminer  -- nonces -->  work file   --------> sorter    -> sorted dictionaries
        ^                       status file           merger    -> hash files (one per key)
        +----- greeting --------+                     slicer    -> slices of foobar (matrix + words)
                                                      grouper   -> one file per task group
                                                          |
                                                          v
          post-processing  <--  solution files  <--  do_task_group (MPI)
                                                        -> iterated_joux_task (OpenMP)
                                                           -> slice table, matrix product
```

### Inventory

| component (source) | state | operations | talks to | hard behaviour | correct when |
|---|---|---|---|---|---|
| mining server (`mining_server/server.nw`) | counter, number of nonces, work file, status file | poll, greet, store a nonce, save the status, start | miners (nanomsg REQ/REP and PUSH/PULL), disk | stopped at any point, stdio buffering, nonces out of order | only a miner can leave a gap in the counters, the files can be read after a restart |
| miner: queue and scheduler (`custom_cgminer/cgminer.c`) | next counter, staged work, `max_queue`, unqueued and queued work | hello, generate work, stage, hand to the device, submit a nonce | server, device driver | two threads and two condition variables, values read before the lock, spurious wakeups, drops when the socket blocks, restarts by a monitor | neither thread sleeps for ever, the queue stays short, items are made for consecutive counters |
| bitmain driver (`custom_cgminer/driver-bitmain.c`) | ring of work slots, what the device has room for, receive buffer | options, detection, fill, send, parse packets, submit nonces | miner's queue, USB | slots reused while results are on their way, failed sends, packets cut anywhere, noise, options left unset | a nonce is attributed to the item it was found for, no packet is lost or applied twice |
| devices and watchdog (`cgminer.c`) | enabled or not, status, times of the last report, semaphore | mine, report, judge, disable, enable, end | driver, API | fields shared without a lock, posts nobody waits for | disabling and enabling take effect, a thread that waits is not called sick |
| locks (`custom_cgminer/miner.h`) | a mutex and a read-write lock | read, write, intermediate, promote, downgrade | all threads | operations in several steps | exclusion, also across a downgrade, and no writer starves |
| API (`custom_cgminer/api.c`) | connection, joined request, reply buffer, groups and addresses | all commands, joins, quit, restart | clients, main program, multicast thread | a reply is put together by many hands; threads that outlive what they use | replies parse, readers only read, every request ends |
| splitter (`preprocessing/splitter.c`) | read position, mappers' buffers, dictionaries | read, hash, flush, write | MPI ranks | wildcard receives, sends that may wait, EOF counting | every valid preimage is in the dictionary of its key exactly once, and the program ends |
| sorter, merger (`sorter.c`, `merger.c`) | sorted runs, loser tree | sort, merge, deduplicate | files | sentinel values, equal hashes, empty runs | the output is the sorted set of hashes |
| slicer (`slicer.c`) | a basis of GF(2)^64, lists of the words left | transpose, echelonize, find equations, permute, invert, write | files | random choices, rank defects, the last words | every hash is in a slice whose matrix sends it to leading zeros |
| checkers (`dict_checker.c`, `hash_checker.c`, `slice_checker.c`) | none | check one file | files | none | they accept what the tools write |
| grouper (`grouper.py`, `run_grouper.py`) and pipeline driver (`preprocess.py`) | file names, times | concatenate, decide what to redo | files, all tools | crashes, files that arrive or change while a tool runs, equal times | nothing half done is taken for done |
| task groups (`ijoux/do_task_group.c`) | group of each rank, solutions, solution files | check, load, work, gather, save | MPI ranks, disk | each rank decides on its own whether to skip; crashes and resubmission | ranks agree on collective calls, files are whole |
| one task (`ijoux/joux_v3.c`, `ijoux/common.c`) | scratch space, preselected pairs, lists of solutions | product, partition, join, check, lift | OpenMP threads | shared list without a lock, sizes that are only probably enough | it reports the intersection |
| slice table (`ijoux/datastructures.h`) | 512 words | build, look up | one task | displacement cycles, fall-back, 0 as free entry | it answers membership, and both loops end |
| hashing and post-processing (`preprocessing/hasher.*`, `postprocessing/`), single tasks (`ijoux/do_task.c`) | none | build a block, cut a hash, look up preimages, count zeros | files | three programs that must build the same block; searching on part of a hash | what is found is printed, what is printed is a 3XOR |
| the rest (`forger.c`, statistics, other drivers of cgminer, `util.c`, USB, `lib`, `ccan`) | | | | test data, inherited code, mostly not built | |

`api.c` is commented out in cgminer's `Makefile.am`: a build of this commit has no
API.  It is modelled because the file is the repository's, and because its
commands are the only way to disable a device.

The hazards that come with these behaviours, each at its line and with the
properties that would catch it, are listed in `PROJECT.json`.

## 2. Modules

| module | models | abstract specification / instances |
|---|---|---|
| `Splitter` | `preprocessing/splitter.c` | implements `DictPartition`; `MCSplitter`; proofs in `SplitterProofs` |
| `TaskGrid` | index arithmetic and files of `ijoux/do_task_group.c`, `preprocessing/grouper.py`, `run_grouper.py` | extended by the next |
| `TaskGroup` | the MPI program `ijoux/do_task_group.c`, job after job | `MCTaskGroup`; proofs in `TaskGroupProofs` |
| `Merger` | `preprocessing/merger.c`, `hash_checker.c`, and what `sorter.c` guarantees | part of `MCPreprocess`; proofs in `MergerProofs` |
| `Slicer` | `preprocessing/slicer.c`, `slice_checker.c` | over `GF2`; part of `MCPreprocess`; proofs in `PreprocessProofs` |
| `Pipeline` | `preprocessing/preprocess.py`, `run_grouper.py` | part of `MCPreprocess`; proofs in `PreprocessProofs` |
| `Solutions` | `hasher.h`, `hasher.c`, `dict_checker.c`, `do_task.c`, `post_processing.c`, `gen_foobar_work` | over `GF2`; part of `MCPreprocess`; proofs in `PreprocessProofs` |
| `MiningServer` | `mining_server/server.nw` and the miner as its client | cfgs of its own; proofs in `MiningServerProofs` |
| `WorkQueue` | scheduler and staged work of `cgminer.c` | extended by `Miner` |
| `Miner` | the miner thread, the ring of `driver-bitmain.c`, its receiving thread, and the device | composes `WorkQueue` with the driver; `MCMiner`; proofs in `MinerProofs` |
| `Locks` | the cglock of `miner.h` | extended by `MCCgminer`; proofs in `CgminerProofs` |
| `DeviceLife` | `miner_thread`, the watchdog, enabling and disabling, `kill_work` | part of `MCCgminer` |
| `BitmainSetup`, `Crc16` | options, detection and configuration of a device; the checksum | part of `MCCgminer` |
| `RxBuffer` | the receive buffer of `driver-bitmain.c` | part of `MCCgminer`; proofs in `CgminerProofs` |
| `Api`, `ApiReply`, `ApiData` | the API thread; the shape of every reply; the lists and strings of a reply | parts of `MCCgminer`; proofs in `CgminerProofs` |
| `CuckooTable` | `ijoux/datastructures.h` | extended by `MCTask`; proofs in `TaskProofs` |
| `GF2` | words and matrices over GF(2) | used by the next two, by `Slicer` and by `Solutions` |
| `Matmul` | `matmul_init` and `gemv` of `ijoux/joux_v3.c` | checked against `naive_gemv` of `GF2`; extended by `MCTask`; proofs in `TaskProofs` |
| `JouxTask` | the rest of `ijoux/joux_v3.c` and the result list of `ijoux/common.c` | uses the results on `Matmul` and `CuckooTable`; extended by `MCTask`, with inputs from `JouxInputs`; `MCJouxTask` for two runs of its own; proofs in `TaskProofs` |

**Parts.**  `MCTask`, `MCPreprocess` and `MCCgminer` each hold several components
that share no state.  A behaviour of such a module is a behaviour of one part:
the variable `part` says which and never changes, the variables of the other
parts keep a fixed value, and each property is that of the component for
behaviours of its part.  Fairness is the component's own, restated for the
part's steps.  The components themselves know nothing of this and are complete
specifications.

Definitions keep the names of the code (`n_eof`, `output`, `all_solutions`,
`tsize`, `preselected`, ...).  Definitions marked `Mutant` are plausible bugs;
each replaces one definition in a run that must then fail, which shows that the
property it goes with depends on that line.

### Splitter

Rank 0 reads blocks of preimages and gives one to each mapper that asks; a
mapper hashes, sorts entries into one buffer per dictionary and flushes a full
buffer to rank 1 as two messages, the slot number and the block; after the end
of the file each mapper flushes everything and says EOF to the writer, which
closes its files after as many EOFs as there are mappers.

The state is the reader's position and block, each mapper's block and buffers,
the writer's two receives and the dictionaries, and one sequence of messages per
direction and mapper.  A preimage is its position in the file, so that losing
and duplicating are visible.  Every `MPI_Recv` and `MPI_Send` is an action.  MPI
is external: messages between two ranks are matched in order, and `MPI_Send`
either returns at once or waits for the receiver.  Which of the two is left to
the MPI library: `SendModes` lists the combinations considered (nothing
waits, blocks wait, everything waits), and a rank whose last message must be
matched before `MPI_Send` returns does nothing else.  A wildcard receive that
matches a block is an MPI error (`aborted`).

`DictPartition` says what the split is for, without ranks or messages: blocks of
entries that are nowhere yet move into the dictionary of their key, and the
dictionaries are closed when every valid entry is in one.

### TaskGrid and TaskGroup

Task (x, y) of the grid is about list x of foo, list y of bar and the slices of
list x ^ y of foobar.  `TaskGrid` has the way from there to the ranks: a job is
`tg_per_job` groups, a group a square of `cpu_grid_size * per_core_grid_size`
tasks, a rank does a smaller square of it; grouper has put the lists of such a
square side into one file with a table of offsets (`GroupFile`), a rank reads
three of these files and takes them apart (`load_tg_data`), and `tg_task_work`
pairs lists r and s with the slices of r ^ s.  A word is opaque, and the triples
that xor to zero are a constant; what a task does with its three lists is
`JouxTask`'s matter and here the set of its solutions.  A solution carries the
index that the task was given.

`TaskGroup` is the program.  All ranks run the same loop over the groups of a
job.  Each looks on its own for the group's solution file and skips the group
when it can open it; otherwise it loads (collective operations), works, waits
in a barrier and gathers; rank 0 then creates, writes and closes the file.  A
rank other than 0 may leave the gather before rank 0 has written anything, and
looks for the file of the next group meanwhile.  Collective calls are counted
per rank, since MPI matches them by order: two ranks in the same call must be in
the same operation.  A crash ends all ranks, the files survive, and the job is
submitted again; when a job has ended the next one is submitted.  The creation of
the file, what `fwrite` lets through and the rest at `fclose` are three steps.

### Merger

One turn of the main loop is `Emit` (write the buffer out if it is full, append
or count the entry), `Fetch` (refill if needed, next entry or sentinel) and one
`Play` for each node on the way to the root.  Files and input buffers are what
is left of them to read.  The inputs are any the instance lists, sorted by hash
as `sorter.c` leaves them; their number is the instance's too.

### MiningServer

The server's loop is `ServerTurn` (poll, answer, store) followed by `NoSave` or
by the three steps that save the status (`OpenStatus` truncates, `WriteStatus`,
`FlushWork`).  It can be stopped between any two of them; it has no other end.
A record is `RECORD` words, and stdio hands `BUFSIZ` words to the disk when they
are there, wherever that is in a record.  The miner says hello, is greeted with
a counter, generates a work item for each counter from there on, and finishes
them in any order, each with or without a nonce; the push is dropped when the
socket would block.  It may also throw an item away (`DropWork`): `bitmain_fill`
does so with a batch that could not be sent and with what a slot of the ring held
before, and a restart with all it has (`MinerRestart`).  nanomsg is external: a
request without an answer is sent again, what is in flight may be lost when the
server stops.  `worked` and `dropped` are history variables: the counters whose
items the chips are done with, and those whose items a miner threw away.

### WorkQueue and Miner

`WorkQueue` has one action for each section under `stgd_lock` and for each value
read outside it: the scheduler reads `max_queue` (`SchedRead`), compares it under
the lock and sleeps or goes on (`SchedLook`), makes and stages an item
(`SchedStage`); the miner thread finds the queue empty (`PopEmpty`), waits, times
out, is woken to nothing (`PopAgain`) or takes an item (`PopTake`).  A signal is
heard only by a thread that sleeps.  `SchedSpurious` is a wakeup nobody signalled:
`pthread_cond_wait` is called there without a loop.

`Miner` composes it with `hash_queued_work`, `fill_queue`, `bitmain_fill` and
`bitmain_get_results`.  `fill_queue` looks at `unqueued_work` without the lock,
blocks in `get_work` and looks again (`FillQueue`, `GetWork`, `Unqueue`).
`bitmain_fill` gives a slot of the ring to each item (`FillTake`), sends a batch
(`FillSend`) that may fail (`SendFails`), and counts errors up to the reset.
The receiving thread finds the item of a nonce by its id (`ReadNonce`), clones it
(drawing a fresh id) and submits; then it takes over `fifo_space` (`ReadSpace`).
The device searches items in order and reports nonces and room at its own pace, so
that a nonce may arrive after its slot was given away.  `tasks` and `submitted` are
history variables.

### Locks, DeviceLife

A thread of `Locks` takes the steps of a cglock operation one at a time; what it
has or where it is inside an operation is `at[t]`, what POSIX holds is `mutex`,
`writer` and `readers`.  POSIX is external, and may admit readers while a writer
waits.

`DeviceLife` has the mining thread's loop with its reports, the watchdog, which
reads a device's fields (`WatchLook`), judges (`WatchJudge`) and writes
(`WatchWrite`) in separate steps, and the handlers that disable and enable, the
latter with a post to the semaphore (`EnablePost`).  Times are ticks, counted up
to the first value that no longer matters.

### BitmainSetup, Crc16, RxBuffer

`BitmainSetup` goes from options to a device that mines: every test of
`get_options` and `get_option_freq`, `bitmain_initialize` with its four tries to
find the status in reads of any size after whatever was left on the wire, the
configuration token with the widths of its fields, and what remains of a device
whose initialization failed.  Variables that no option sets are not initialised by
the code: they have any value in `Garbage`.  `Crc16` has the code's tables and the
division they stand for.

`RxBuffer` is the loop that cuts bytes into packets (`Parse`, `Read`).  Bytes know
which packet they belong to, so that loss, repetition and mixing are visible.  The
buffer keeps what is beyond its offset, since the parser looks there.

### Api, ApiReply, ApiData

`Api` is one connection after another: accept with the address table, the loop
over joined commands (`DoCommand`), `send_result`, the end by quit or restart, and
the multicast thread that may use the address table after it was freed.
`ApiReply` has one operator for each of the handlers: what it adds to the
buffer, as the sequence of its JSON marks, whether it leaves a list open and
whether it changes the miner; `Json` is the grammar.  The fields that a reply
reports are left out.  `ApiData` has the circular list a reply is built from
(`AddData`, `AddExtra`), `print_data`, which frees it while it prints into a string
that grows, and the buffer the string is copied to, with sizes.

### Slicer

One action for each step of a search: `StartRound` (transposition and the start of
the echelon form), `Pivot` and `SwapColumn` (random or next in order), `Echelonized`,
`RankChecked` (`check_rank_defect`), `Permute`, `Weighed`, and then
`filter_active`, and for a slice `Draw` and `Invert` of the padded matrix and
`SaveSlice`.  Random numbers are choices, and so is the clock that ends a search;
the choice of the best row keeps the code's order.  Failed assertions are the
place `assert`, the message "the impossible happened" is `impossible`.

### Pipeline

The driver's stages for one kind, each with the test that decides whether a file
is made again (`AlreadySplit`, `UpToDate`), the start of the tool, which creates its
outputs, and its end, which completes them.  Meanwhile preimage files arrive,
dictionaries are sorted by hand (created and completed in two steps), the clock
ticks or does not, and the running tool crashes.  A file's content is the set of
preimage files it holds all entries of.  `hurt` names the outputs that a crash, or
an input changed under a running tool, has spoilt.

### Solutions

Blocks are digits in a template, built by the miner on one side and the splitter
and checkers on the other; SHA-256 is any function, asked block by block.  The
splitter cuts hashes into slot and partial hash, `do_task` joins the slots i, j and
i ^ j, `post_processing` finds the preimages and counts zeros.  Words, slots and the
indices of tasks are sets of bits, as in `GF2`.

### CuckooTable

`Kick` is one round of `cuckoo_insert`, with the element in hand and the entry
it goes to as state; after `2 * CM_HASH_SIZE` rounds `GiveUp` clears the table
and `LinearInsert` fills it again.  The hash functions are chosen freely in the
initial state, subject to mapping 0 to 0, as those of the code do.  A linear
insertion into a full table is the state `hang`.

### GF2, Matmul

A word is the set of positions of its ones; `NumberOf` is the number that
some bits of it spell, `TopValue` that of the leading ones.  `Matmul` is the Gray-code walk that
fills the tables, one action per turn of the inner loop, groups of rows in any
order as the parallel loop allows, against `naive_gemv`.

### JouxTask

`Gemm`, `Dispatch` (per word and thread), `Subjoin` (per chunk of the dynamic
schedule and thread), `Look`/`Store`/`Copy`/`Load`/`Bump` (per solution and thread),
`Lift` and `EndSlice` are the phases of `process_slice`; `Partitioned`, `Joined`
and `Checked` are the barriers at their ends.  `report_solution` in phase 4 is
called by several threads on one list without a lock.  That is a data race: the
model splits it into the test (and `realloc`), the choice of the entry, the copy of
the struct, one word at a time, and the load and the write-back of `size++`, and
lets store and increment use the size read first or a fresh one, which are the
outcomes a compiled program can have.  Two threads that copy into one entry may
leave words of both; the words are copied in order, since another order gives the
same mixtures.  A store out of bounds, or a block reallocated while a thread copies
into it, ends in `undefined`, a probe of a full table in `hang`.  Words that nobody
wrote are `Garbage`.

Two results are used and not modelled again: the product is `naive_gemv`
(`Matmul`), and the lookup is exact but for 0 (`CuckooTable`), where `hit0` says
whether 0 happens to meet a free entry.  subjoin's own table is represented by
the words that probing meets, every earlier word with the same leading bits:
linear probing meets what it inserted (`LookupsExact` of `TaskProofs`).

`MCTask` extends `CuckooTable`, `Matmul` and `JouxTask`; the names of the first two that the
third has as well say so (`TableInit`, `TableStep`, `tableVars`; `ProductInit`, `ProductStep`,
`productVars`; `build` is where `cuckoo_build` is, `Found` its lookup).

## 3. What the runs check

| run | instance | distinct states | result |
|---|---|---|---|
| `splitter` | 5 preimages, 2 mappers, 2 slots, buffers of 2, 3 send modes | 14 884 | all hold |
| `task_group` | an 8 x 8 grid, 2 jobs of 2 groups, 4 ranks with 4 tasks of each group, 2 crashes | 43 895 | all hold |
| `task_group_skip` | the same, 1 crash | | `SkippedIsDone` violated |
| `mining_server` | 2 miners, counters to 2, records of 2 words in a buffer of 3, 2 stops, 1 miner restart | 132 932 | all hold |
| `mining_server_restart`, `mining_server_torn` | 1 miner, counters to 4, 1 stop | | `CanRestart`, `WorkFileAligned` violated |
| `miner` | 4 counters, a ring that four items wrap, batches of 2, 1 failed send, 1 nonce, 1 spurious wakeup | 1 215 206 | all hold |
| `task` | a table of 3 entries with all hash functions and all lists of up to 4 words; 6-bit products of 4096 matrices; 97 joins on 6-bit words of which 4 bits vary with 2 threads | 601 360 | all hold |
| `preprocess` | 22 683 inputs of 1, 2, 3 or 5 files for the merger; all lists of up to 3 words and one of 4 for the slicer; 2 preimage files, 2 runs and 1 crash for the driver; 4 preimages with every hash of 7 | 529 579 | all hold |
| `cgminer` | 3 threads on a lock; 10 configurations and every command and join for the API; replies of 2 nodes; a device toggled 3 times; 73 sets of options; packets of 4, 5 and 4 bytes with 2 bytes of noise | 155 362 | all hold |
| `joux_task_race`, `joux_task_grow` | see below | | `TaskExact`, `ResultGrows` violated |

**splitter.** `SplitExact`, of four parts: a valid preimage is in exactly one place
at any moment (file, block, message, buffer, dictionary); the wildcard receive
never meets a block, and no block is stored under the slot number of another
mapper; when the writer closes its files they are complete; and hashing one more
preimage never overruns a buffer.  `Termination`: nobody is left waiting, in any
send mode.  `RefinesPartition`: the program implements `DictPartition`, its liveness
included.

**task_group.** `CollectivesMatch`: although each rank looks for the file at its
own time, no two of them are ever in the same collective call for different
operations or groups.  (The file of group g appears only after every rank has
passed the barrier of g, hence after every rank has looked for it.)
`FilesExact`: a file never holds another group's solutions; a group that rank 0 has
left behind without skipping it has all its solutions on disk; and when all jobs
have ended without a crash the files hold exactly the solutions of the whole grid,
each with the numbers of the lists its words are in.  What that needs of the
sizes (powers of two, `tg_per_job` dividing the number of groups) is
`GridAssumption`, of which the code checks little; what it needs of the lists
(disjoint, and a triple that xors to zero has list numbers that do) is
`InputAssumption`.  `CompleteIsKept`: a complete file is never opened for writing again.  `JobsEnd`: no rank waits for one that skipped.

**mining_server.** `NoCounterSkipped`: only a miner can leave a gap.  With two miners,
stops and restarts on both sides, lost nonces and nonces out of order, a miner is
told to start at a counter below which every counter has been worked on, is in some
miner's work, or was taken by a miner that threw it away.  The last case is a
disagreement with the documentation, see below.  `FilesUpToDate`: back at the poll no more than
`SAVE_EVERY` nonces are unsaved, with none unsaved both files are up to date, and
before the first stop the work file is whole records.  `HelloAnswered`: a miner
that asks is answered unless the server cannot start.

**miner.** `StagedBounded`: one item more than `max_queue` and one for each spurious
wakeup, although the scheduler compares with a value it read before it took the
lock.  `MinerFed`: scheduler and miner thread never sleep on each other.
`RingIsQueued`: ring and table of queued work name the same items, whatever slot
`bitmain_fill` replaces.  `CountersExact`: a nonce reaches the server with the counter
of the item it was found for, also when its slot was given away; and until the
ring wraps the device gets every counter once, in order.

**task.** `LookupExact`: whichever table was built, its lookup answers membership
for every word other than 0.  `TableUsable`: a list that fits is stored, and with a
free entry left a lookup in a linear table stops.  `TableProduct`: the tables
compute the product.  `JoinExact`: after the joins the threads hold between them,
as a bag, exactly the pairs that agree on the leading bits, whichever thread had
which words and partitions.  `ReportsExact`: with at most one report per slice a
task reports exactly its solutions; racing reports may lose one, leave an entry that
nobody wrote, or one that mixes several, but every entry written is whole and each
of its words is in its place and comes from a report of the same slice (pairs of
equal words are reports, too).
`InBounds`: a task that meets the sizes (`Fits`, a condition on the input) neither
writes out of bounds nor hangs.  `TaskEnds`.

**preprocess.** `MergeExact`: the output is the sorted list of the inputs' hashes,
each once, without 0 and without the sentinel, which `hash_checker` accepts; at the
head of the loop Q is the least of what is in the tree and still unread; written,
collisions and duplicates add up to the entries.  `EveryInputPlays`: every input
has exactly one entry in the tree.  `SlicesSound`: every set of equations found can
be padded to an invertible matrix, `slice_checker` accepts every slice, the slices
together are the input, and they fit the space allocated before the first is
known.  `DamageIsLocal`: what no tool crashed on, and nobody changed while it was
read, is complete or will be made again, also when several files have the same
time.  `SolutionsTraced`: the search on 64 bits within slots misses nothing and
invents nothing, dict_checker agrees with the splitter, and `print_result` does not
count too few zeros.  `MergerEnds`, `SlicingEnds`.

**cgminer.** `LockExcludes`, `WriterServed`: the cglock.  `ReplyIsJson`: however a
reply is put together it is one JSON object, sent once, but for the requests named
in the property.  `ReadersOnlyRead`: a client of group R changes nothing, whatever it
joins (a client whose group is undefined, or that a later entry matches as well, counts
as one that may have more).  `RequestsEnd`: requests are done with, quit and restart end the program, or the
multicast thread crashes it first.
`DataPrinted`: lists are printed whole and in order and freed, no string is written
past its end.  `EnableObeyed`: a device that stays disabled stops, one that stays
enabled is not left asleep.  `WatchdogJust`: a thread is not found sick while it
waits for work, and one that keeps reporting is found well.  `SetupExact`: the
status is found as soon as it is there, and never anything else; nothing is
configured before; parameters and checksum are right.  `PacketsExact`,
`PacketsDrain`: packets are accepted once and in order, all of them without noise,
and none waits for bytes that follow it.

`splitter` also checks its type invariant; that of `JouxTask` is part of
`ReportsExact`; those of the other modules with proofs are part of the inductive
invariants.

### Disagreements found

Each is a run that must fail, and is listed under `findings` with its quotation.

1. `task_group_skip`: the solution file is the checkpoint and exists from
   `fopen` on; a crash before `fclose` leaves a group that is skipped for ever
   though its solutions are lost.
2. `mining_server_restart`: the status file is truncated before it is written;
   a stop in between leaves a server that refuses to start.
3. `mining_server_torn`: stdio spills its buffer in the middle of a record; a
   stop then leaves half a record and the next server appends behind it, so that
   everything after it is read shifted.
4. `joux_task_race`: two threads that report at once lose a solution, or count
   an entry that nobody wrote or that has words of both.
5. `joux_task_grow`: `realloc` is given `2 * capacity` bytes rather than
   entries, of which the list has `48 * capacity` already.

More of them are not runs, but show in what the passing properties exclude, or
were met while modelling:

* The server keeps the highest counter of any nonce it received and tells the next
  miner to start there.  Chips answer out of order, and a miner drops what it holds
  when it restarts, when a send fails and when a slot is used again: the counters of
  these items may be below the highest, and no start value covers them again, although
  the server "must keep providing accurate start values" (`server.nw`:295).
  `NoCounterSkipped` says that there is no other gap.
* A lookup of 0 meets a free entry, which holds 0, and says yes
  (`datastructures.h`:38 and :50; the join hands it 0 whenever a word is in both
  lists): `LookupExact` is about other words, and `ReportsExact` excludes pairs of
  equal words.  Likewise the merger never writes the hash 0.
* `chernoff_bound` passes a real number to `ROUND`, whose parameter is an integer
  (`joux_v3.c`:72, :81): with the code's constants a list of 1 to 9 words gets
  buckets without an entry, one of the ways in which a task does not meet the sizes
  (`Fits`) that `InBounds` requires.
* A slot past the end of the ring is 0 rather than reduced by the ring's size
  (`driver-bitmain.c`:1752): an item not sent yet may be replaced, hence "until the
  ring wraps" in `CountersExact`, and against the comment at `cgminer.c`:46-48.
* The comment "This should never happen" (`driver-bitmain.c`:1282) is about an
  overflow of the receive buffer, but only one packet is parsed for every read.
* A device is closed by joining a thread that was never created
  (`Close` of `Miner`), a failed initialization leaves a freed device in the list
  (`Failed` of `BitmainSetup`), the number of chains is tested against 0 only though the
  message says 1 to 8, and a frequency is cut to 16 bits.
* Nothing sets `successful_connect` (`cgminer.c`:950): `kill_work` stops no thread.
  `temp_old` is always 0: overheating is never noticed.
* The API's replies to lcd, stats, some pools and a join of plus signs only are not
  JSON, a malformed request after a joined one is answered twice (`ReplyIsJson` names
  them), and `tidyup` frees the table of addresses without resetting its length.
* `print_result` uses the kind of an inner scope's variable and counts one zero too
  many when the fourth word is a power of two (`ReportedBits`).
* `preprocess.py` passes an option that `slicer` does not know.  A dictionary that is
  sorted while it is merged makes a hash file that looks up to date (`hurt`).

### Bounds, and why they are enough

* Two mappers are the fewest whose pairs of messages can be confused, and two
  slots the fewest to confuse.  With 5 preimages and buffers of 2 there are a
  full block and a short one, a buffer that fills while hashing, one that is
  only flushed at the end, an empty flush and an invalid preimage.
* Four ranks, a square of two, allow ranks that are ahead of rank 0 and others
  behind it; two jobs of two groups have a group before and after the one being
  saved, in the same job and across jobs; two crashes, a crash during the
  recovery from a crash.  Ranks and tasks are grids of side 2, so that rows and
  columns can be confused at every level.  Groups have two solutions of one rank,
  one solution of each of two ranks, none, and one in the last task of the grid;
  lists have one or two words, so that the offsets in the files differ.
* A ring of three slots is wrapped by four items in batches of two, so that slots
  are reused with items of the first turn at the device and a nonce on its way; one
  failed send makes batches repeat, one spurious wakeup overfills the queue.
* Words of three bits, lists of up to three words and one of four with rank two: lists
  whose rank is less than the number of rows wanted, repeated rounds, the last slice.
  Two iterations of a search see a better row and a worse one.  One random trial is
  followed by the ordered one.
* Two preimage files and one slot: dictionaries of a slot may be sorted in part.
  Two runs, the second of which may follow a crash; three points in time, so that files are older, equal
  or newer.
* Four jobs, two of which share a counter, and digits of base 4, so that a carry
  happens; hashes with and without the top bit of word 4, valid and not; partial
  hashes that are equal in different slots.
* Three threads: a writer, one that waits to be promoted, and a reader that arrives.
  Thresholds of two and three ticks, a retry of one, and three toggles, so that a
  disabled device is enabled, disabled and enabled once more.  Packets of two lengths
  in a buffer that overflows with noise, reads of four bytes that end inside a header.
  Options on both sides of every limit.
* One, two, three and five inputs have trees of different shapes: no node, one,
  a full one and one with leaves on two levels.  Buffers of two entries are
  refilled, exhausted and empty; an output buffer of one hash is full at every
  other turn.  Files may be empty, repeat entries, share hashes with each other
  and contain 0 and the sentinel.
* `BUFSIZ = 3` with records of 2 words makes stdio spill in the middle of a
  record, as 4096 bytes do with records of 12.  `SAVE_EVERY = 1` makes saving
  happen several times: two miners work on the same two counters, and it happens after
  a stop.  `NET_CAP = 2` lets nonces overtake in the chips and a push be dropped.  Two
  miners are the fewest of which one is greeted with a counter that rests on the
  other's work.
* Three entries and lists of four words contain a full table, an overfull one,
  repeated elements and cycles of displacements; all pairs of hash functions are
  tried.
* Two groups of three rows contain a carry between two groups and a Gray code
  whose order differs from counting.
* Two threads race; `CAPACITY = 2` is reached; `HASH_SIZE = 3` is exceeded by
  some of the tasks, and so are the buckets: those tasks are the ones `Fits`
  excludes, and TLC visits them too (`undefined` and `hang` are reached).
  The two tasks' worth of slices check that nothing of a slice is left to the
  next.
* Crashes, restarts and counters are bounded by constants (`MaxCrash`,
  `MAX_SERVER_CRASH`, `MAX_MINER_CRASH`, `MAX_COUNTER`, `MaxCounter`, `MaxSpurious`,
  `MaxErrors`, `MaxNonces`, `MaxTime`, `MaxRuns`, `MaxToggles`, `MaxNoise`, ...), which
  appear in guards.  Runs end where a bound on counters is reached (`MiningServer`,
  `Miner`) or a part has done its work (`MCPreprocess`, `MCCgminer`), and do not check for
  deadlock then; `MCSplitter`, `MCTaskGroup` and `MCTask` do.

### Fairness

Weak fairness of the steps of each process: MPI ranks, server and miners are
operating-system processes that are scheduled as long as they can go on, and
OpenMP threads run until the end of their region.  The threads of cgminer run as
well: scheduler, miner and receiving thread, mining thread and watchdog, the API's
thread once it has a request, a thread that holds or waits for a lock; the device
goes on searching, bytes it sent can be read, and the miner thread's waits time out
after ten seconds, as the code asks.  Clients may stay away.  The merger and the
slicer are sequential programs.  Nothing is assumed of crashes, stops and restarts of miners, which are never required to happen, nor of
which message a wildcard receive picks.  `JobsEnd` holds because the number of
crashes is finite; with unboundedly many a job need not end.

## 4. What is proved

TLAPS proves these for every value of the constants that the modules' `ASSUME`s
allow.  Where a property is not inductive the invariant that carries it is named,
with the reason it is needed.

**Splitter.**

* `TypeCorrect`: positions, slots, counters and messages stay in range for any
  number of preimages, mappers and slots.  Inductive as it stands: the reader's EOF
  counter stays below `n_mapper` by its guard and the writer's by the guard of its
  loop, and a flush moves to the next slot only below the last.
* `SplitExactHolds`: `Spec => []SplitExact`, all four parts.  The invariant is
  `ControlInv` (where reader, mappers and requests can be, and that a flush goes
  through the slots in order), `PairInv` (what a mapper has sent to the writer is a
  sequence of pairs, slot number and block of that slot, of which the writer may have
  taken the first half), `CountInv` (the writer's EOF counter is the number of mappers
  that are through, so that it closes only after all of them), `BufferInv` (a
  buffer that is full is flushed before the next preimage is hashed) and `EntryInv`
  (each valid preimage is in one place of one of the places there are).
* `PartitionRefined`: initial states of `Splitter` are ones of `DictPartition`, and every
  step is a step of it or a stutter: the writer storing a block moves it, the
  last EOF closes.  That the dictionaries are closed only when they are complete is
  where the invariant above is needed.  The fairness of `DictPartition` is left to TLC.

**TaskGroup.**

* `CollectivesMatchHolds`, `CompleteIsKeptHolds`, `FilesExactHolds`, from one invariant.
  `ControlInv` says that the number of collective calls of a rank is three for every
  group it has been through and did not skip, plus its place in the present one
  (`CallInv`), that nobody is out of a barrier that someone has not called and rank 0 out of
  no gather before all are out of the barrier (`OrderInv`), and that there is no file of
  a group that is worked on until rank 0 opens it (`FileInv`): since all ranks look
  before the barrier and the file comes after it, they all saw the same.  `DataInv`
  says whose data ranks and messages hold, `DiskInv` what files can hold,
  `FirstRunInv` that without a crash nothing is skipped.  The grid is any that
  `GridAssumption` allows, with any number of ranks, jobs, groups and crashes.
* `FilesExactHolds` rests on two facts about the arithmetic of the code.  A rank finds in
  the file of a group, by its table of offsets, the lists that grouper put there
  (`GroupFileReadsBack`), by induction over the lists of the file.  And list x ^ y is at
  place a ^ b of file i ^ j (`XorNoSplits`): for a power of two d the xor of two numbers is
  that of their quotients by d and that of their remainders (`PowersSplit`), by induction
  over the powers.  That the groups tile the grid needs that powers of two divide
  each other (`QuotientOfPowers`, `ProductOfPowers`).

**Merger.**

* `TypeCorrect` and `InputsPlay`: the merger stays inside its tree and buffers (the node
  above leaf j is below P, a full buffer is emptied before it grows), and every
  input has exactly one entry in the tree: `Play`, the only step that moves
  entries, exchanges the origins of two.
* `MergeExactHolds`: `Spec => []MergeExact`, for any number of inputs, any sorted
  dictionaries and any buffer sizes.  `Tree` says that the loser at a node is no
  smaller than what won on one of its sides, and who is on its way up (`TreeInv`,
  `SiftInv`), from which Q is least at the head of the loop (`LeastInv`); `OrderInv` adds that what
  is unread is no smaller than what was read of the same input, and how Q relates to
  the last hash written; `OutputInv` that the output is increasing and what has been emitted;
  `CountInv` that written, collisions and duplicates add up.

**MiningServer.**

* `TypeCorrect` and `CountersNeverSkipped`: `Spec => []NoCounterSkipped` for any
  number of miners, stops and losses.  A greeting is safe because the server's
  counter is; the counter is because the nonces on their way are; these because
  the work items in the miner are; these because the miner started from a
  greeting.  `IInv` therefore says of *every* counter on this round trip (server,
  status file, greetings, the miners' next counters, work items, nonces in
  flight) that all counters below it have been taken (`Taken`: worked on, dropped, or
  in a miner's work): each action moves one such counter, takes the higher of two, goes
  back to 0 or takes the next one, and what is taken stays so (`TakenGrows`).
* `FilesKeepUp`: `Spec => []FilesUpToDate`, for any size of records, buffer and interval.
  `FileInv` relates the two counts of nonces, the buffer and the status file at each place
  of the loop (`SaveInv`), and says that disk and buffer together are whole records as
  long as nothing was lost (`WholeRecords`), which is more than the property says of the disk.

**CuckooTable** (`TaskProofs`).

* `TypeCorrect` and `LookupsExact`: `Spec => []LookupExact` for any table size, hash
  functions and list.  Before a failure every entry is at one of its element's two
  places, the element in hand is on its way to one of its own, and every element
  dealt with is in the table or in hand (`CuckooInv`); after a failure, probing meets
  every element dealt with before a free entry (`LinearInv`), which an insertion
  preserves because it only fills a free entry; and the table never holds a word
  that is not of the list (`SoundInv`).

**JouxTask** (`TaskProofs`).

* `JoinExactHolds`: `Spec => []JoinExact`, for any lists, slices and sizes, any numbers of
  threads and partitions.  `PartInv` says that a counter has moved from the start of its
  bucket by as many words as its thread has come across in that partition (`Counted`), and that, if
  the buckets fit, the bucket lists just these words (`Filled`): buckets are apart
  (`Places`) and each word is of one thread's share.  `JoinInv` says that the pairs joined so far
  are shared out among the threads and that each has its own, once, in `preselected`
  (`Holding`).  Lists and bags are not compared by induction: a list enumerates a
  set when there is a bijection from its positions (`Enumerates`), a notion that
  survives concatenation, filtering and `FlattenSeq`, and that gives the bag in the end.
* `InBoundsHolds`: `Spec => []InBounds`, that is, never "undefined" and never "hang" in a task
  that `Fits`.  Buckets, tables and `preselected` have room by what `JoinExactHolds` rests on.  In
  phase 4 the size of the shared list may lose updates but is never above the number of
  reports that are over (`Checks`); these are among the hits; and the hits are in
  injection with the pairs that the slice has to report (`HitsBound`), since a product by
  M is linear (`Linear`) and M is injective: a word of the slice found by `Lookup` comes from a
  solution, and 0 from equal words.  The room of the task's list is counted slice by slice (`UpTo`).
* `ReportsExactHolds`: `Spec => []ReportsExact`.  Its first part is ranges (`RangeInv`), among them that
  what phase 3 reads of `scratch` is words even where a bucket has run over into the next
  (`Written`), so that every triple is of words.  The second: however copies
  overlap, each word of an entry is that of some report in its place (`Mixtures`); an entry
  that is written in part is one that a thread is still copying (`Copies`, with `WordInv`
  for where the threads are), so that after the barrier entries are whole or not written
  at all (`Reported`), and lifting keeps them so word by word (`EntryInv`, `LiftedReport`:
  Minv undoes M, and products are linear).  The third, for at most one report per slice: its thread is alone in phase 4, finds
  the list empty and leaves its triple at its head (`Begun`, `Alone`); a slice without a report
  that is looked up has no solution (`CheckedBrings`); so the result lists once the solutions of
  the slices covered, and perhaps pairs of equal words (`SparseInv`, `Complete`), which
  `Answer` tells apart by their xor (`SolutionEntry`).
* All three start from two lemmas about leading bits: those of a word spell a number below
  2^p, hence that of a partition (`WordsHavePartitions`), and words that agree in them are in the
  same one (`SamePartition`).

**Matmul** (`TaskProofs`).

* `TableProductHolds`: `ProductSpec => []TableProduct`, for any matrix, any width of the words and
  of the groups and any interleaving of the groups.  `GroupInv` says that `tmp` is the product of
  the rows that the last code selects and that the entries for the codes so far are right.
  `ffs` and `Gray` recur to the half of their argument; so does the set of the ones of
  a number (`Ones`), and three inductions over halves show that a code differs from the one before
  in its number's first one (`GrayStep`), that every number is a code (`GrayOnto`), hence no
  entry is left out, and that the codes of `BYTE` bits stay in the table (`KBits`).  The bits
  of a byte spell the entry for its rows (`ByteRows`), and since products are linear that of a
  word is the xor of those of its bytes (`PartsOfProduct`).  It is this theorem that lets
  `JouxTask` take `naive_gemv` for what `gemv` computes.

**Pipeline** (`PreprocessProofs`).

* `DamageIsLocalHolds`: `MCSpec => []DamageIsLocal`, for any number of preimage files,
  slots, runs and crashes and any clock; the run has one slot.  The property is silent
  about files a tool is working on; the induction is not: it needs what the merger was
  given (`InputsInv`: one slot's dictionaries, and none sorted since unless that is
  noted), and that no file is newer than the clock (`ClockInv`), so that what
  completes now is never older than what depends on it.  `DictInv`, `HashInv` and
  `GroupInv` are the three parts of the property, stated while the other tools work.

**Slicer** (`PreprocessProofs`).

* `SlicesSoundHolds`: `MCSpec => []SlicesSound`, for any width of the words, any list and
  `--l`, any random choices and any length of the search; the run has words of three bits.
  The property speaks of slices that are made; the invariant follows the search.
  - `EchelonInv`: at column j the first j columns of T are those of the identity, the
    columns tried after it are zero from row j on, E is independent, and T is E times the
    vectors, up to their order, which `swap_columns` changes.  So when `echelonize` ends the
    rows below the pivots are zero (`EchelonEnds`), and those rows of E are all the
    equations that the vectors satisfy (`FreeSpan`).
  - `EquationsInv`: the equations are independent and span all that the active
    vectors satisfy.  From this the rank of a later round is exactly W - k (`RankEnough`,
    `RankExact`): `check_rank_defect` has something to add in the first round only.
  - `BestInv`: the best equation is in the span of none of the others and leaves
    at least W - k - 1 vectors (`Divides`); some row is lighter than the matrix is wide
    (`SomeRowIsLight`), so that a search never ends without one.
  - `SliceInv` and `InvertInv`: independent equations can be completed (`Completed`, by
    counting what they span), a transposed invertible matrix is invertible
    (`TransposedIndependent`), and Gauss-Jordan finds a pivot in every column of one
    (`InvertPivots`).
  - `CountInv` and `SizeInv`: no vector is lost, and every slice but the last has at least
    W - l of them, which is what the size of the output rests on.

  All of it comes from parity: the product by an array of rows is linear (`OnePlus`), and
  independent rows are as many as what they span is the subsets of (`SpanSize`).  The
  passes over the lists (`Permuted`, `filter_active`) are folds; that a fold takes its steps in
  order is shown by a least counterexample (`FoldExists`, `FoldSteps`).

**Solutions** (`PreprocessProofs`).

* `SolutionsTracedHolds`: `MCSpec => []SolutionsTraced`, for any width of the words, number of
  key bits, jobs and answers of SHA256; the run has words of three bits and four jobs.
  `EntriesInv` says that the entries are the valid jobs with what SHA256 answered for the
  miner, because both sides build one block (`SameBlock`); `SolutionsInv` that what the tasks report
  is exactly the joins of three entries; `TracedInv` what is looked up for each.  What carries
  the property is `JoinsAreSolutions`, bit by bit: slots and partial hashes together are all bits of the
  words 4 to 6, and the top bit of word 4 is not lost in that of word 6, which is 0 in a valid hash.

**Miner.**

* `StagedBoundedHolds`: `Spec => []StagedBounded` for the whole miner, any `--queue`
  and any number of items.  The bound is not inductive, since an item is
  staged without looking.  The invariant says what is known when the scheduler
  gets there: the copy of `max_queue` it compares with is not above `max_queue`, which
  only grows (`CopyInv`), and there is room for one item after a comparison, a
  signal, which follows an item taken or an empty queue, or a counted spurious
  wakeup (`RoomInv`).
* `RingIsQueuedHolds` and `CountersExactHolds`, for any ring, batch sizes, queue and
  behaviour of the device.  `DriverInv` follows the counters on their way: staged items
  are consecutive (`StagedInv`), the miner thread holds at most the one before them
  (`HeldInv`), the ring has only earlier ones, each once (`RingInv`): so the item
  that `bitmain_fill` gives to a slot is new to it.  `IdsInv` is about every item there is, from the queue to a nonce in a
  packet: equal ids, equal counters, so that a nonce finds its own item or none.
  `OrderInv` is about the slots still to be sent, before the ring wraps.

**custom cgminer** (`CgminerProofs`).

* `PacketsExactHolds`: `MCSpec => []PacketsExact`, for any packets, noise, pieces, resets
  and sizes.  The first half needs that the first bytes of packets still to be looked at, in
  the buffer or on the wire, are in order and later than all that was accepted
  (`RxInv`, `InOrder`); the second that buffer and wire are what is left of the packets
  after those accepted, cut inside one of them at most.
* `ReadersOnlyReadHolds`: `MCSpec => ReadersOnlyRead`, for any addresses, groups, commands
  joined and miners.  `ApiInv`: a connection has another group than R, and has changed
  something, only if an entry of `--api-allow` gives its client more.  Of each of the
  handlers R may call it is shown that its reply changes nothing.
* `ReplyIsJsonHolds`: `MCSpec => []ReplyIsJson`, for any miner, options, addresses and
  requests.  A reply is followed mark by mark: what each function adds leads a reader of
  JSON from one state to another, whatever else is open (`Path`), and paths compose
  (`PathConcat`).  Every handler leads from an open object to an open object, its lists by
  least counterexample.  The invariant `JsonInv` is about the buffer: between two commands of
  a joined request it leads to an object with its last list closed, and after the last one
  what `send_result` adds closes everything.
* `LockExcludesHolds`: `Spec => []LockExcludes` for any number of threads.
  The property speaks of the places of the threads only; `LockInv` ties the
  places to what POSIX holds: a thread has the mutex exactly when its place is one
  of `Owners`, the lock for writing when it is at "write", one for reading when it is
  reading or in the last half of a downgrade, and a lock for writing excludes those
  for reading.
* `DataPrintedHolds`: `MCSpec => []DataPrinted`, for any values, nodes, strings and sizes.
  `ListInv` sees each circular list as a sequence of distinct nodes, linked both ways, that
  an addition extends (`RingGrows`), a concatenation joins to another (`RingsJoin`) and a removal
  shortens (`RingShrinks`); `PrintInv` that what is printed and what is left are the two
  parts of what was made; `StringInv` bounds strings and buffers.  The walk of a list and
  the fold of `add_item_buf` are shown by least counterexamples.

The assumptions are the `ASSUME`s of the modules: sizes are positive, the
functions given as constants have their types, `BUFSIZ` is at least one record,
lists of the slice table have no 0, dictionaries to merge are sorted; of the grid
what section 3 says; a batch of work fits the ring (`MAX_WORK_NUM <= ARRAY_SIZE`: 8 to 64
against 16384 in `driver-bitmain.h`); a read fits the receive buffer behind what one
leaves in it.  Each is evaluated by TLC in a run.

**Only model-checked.**

* What holds under fairness: `Termination`, `JobsEnd`, `MergerEnds`, `HelloAnswered`,
  `TableUsable`, `TaskEnds`, `SlicingEnds`, `MinerFed`, `WriterServed`, `RequestsEnd`,
  `EnableObeyed`, `WatchdogJust`, `PacketsDrain`, and the fairness of `DictPartition` in
  `RefinesPartition`.  Liveness and `ENABLED` are out of the prover's reach.
* `SetupExact`: half of it is a checksum, a fold over bits with a table of 256 entries, and the
  library's induction theorems have an operator for a parameter and cannot be used.  Where a proof
  needs an induction nevertheless it is by a least counterexample (`Least`), and the recursion is
  a recursive function (`xor` of `TaskGrid`, `Gray` of `Matmul`, `TxTask` of `Miner`, `Nested` of
  `ApiReply`) or a fold (`Permuted` of `Slicer`, `add_item_buf` of `ApiData`); but xor and
  shifts on bytes are not arithmetic that the provers know.

## 5. What is not modelled

* Errors of the file system and of allocation, which end the program with a
  message; arguments of the programs; timing and statistics; wording.
* The SHA-256 functions and the parsing of kinds: a preimage has some key or is
  invalid, whichever (`KeyOf`).
* The words' contents in `Splitter`, `TaskGroup` and `MiningServer`.
* USB transfers, log files and cgminer's conversions (`usbutils.c`, `util.c`,
  `logging.c`): I/O inherited from cgminer, behind the operations that the models use.
* Drivers that this fork does not build (`driver-bmsc.c`, `driver-avalon2.c`,
  `driver-hashratio.c`), written for interfaces its `cgminer.c` no longer has.
* The fields that a reply of the API reports, and the pool commands' effect on pools:
  this fork has no pools.
* Test data and statistics (`forger.c`, `slice_stats.c`, `stats.py`, `slice_check.py`,
  `make.py`), which no program of the pipeline reads.
* `klist.c` is not in the repository: cgminer's lists of items are modelled from their
  use.
* The order of bytes in a nonce, which `hasher.h`:24 swaps and `cgminer.c`:1763 makes
  little endian: the blocks of `Solutions` carry no nonce, each job has one.
* What comes after a failed `execv`: a restart of `Api` ends the program, while
  `app_restart` returns when `execv` fails (`cgminer.c`:1007-1008).
* A status packet that was left whole on the wire by an earlier session: the noise of
  `BitmainSetup` is never a packet.  Its status may on the other hand have 200 chains,
  which `parse_rxstatus` rejects.
* Steps between which only the thread's own data are touched are one action:
  `make_work`, `gen_foobar_work` and staging (`SchedStage`), and taking an item and
  completing the one before it in its slot (`FillTake`, two sections under `qlock`; the
  receiving thread cannot tell, since the new item is not sent yet).
* Vendored code: gnulib, ccan, uthash, SHA-256.

## 6. Plan

The modules of the first plan are written.  Of the 24 invariants that the runs check
23 are theorems without hypotheses, and two of the action properties.  What is left to
prove is `SetupExact`, the last item of section 4.

## 7. Running it

`tlc -config MCSplitter.cfg MCSplitter` and so on, with the module and
configuration that `PROJECT.json` names for a run; `tlapm SplitterProofs.tla`, and
the same with `TaskGroupProofs`, `MergerProofs`, `MiningServerProofs`,
`TaskProofs`, `PreprocessProofs`, `MinerProofs` and `CgminerProofs`, check the proofs.
