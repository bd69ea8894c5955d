------------------------------ MODULE Pipeline ------------------------------
(***************************************************************************)
(* preprocessing/preprocess.py: the driver of the preprocessing.  It finds *)
(* out from the existence of files and their modification times what is    *)
(* left to do, and runs splitter, merger, slicer and grouper; sorter is    *)
(* run by hand.  Preimage files arrive, dictionaries are sorted and a tool *)
(* may crash at any time.                                                  *)
(*                                                                         *)
(* One kind of preimages.  The content of a file is the set of the         *)
(* preimage files it holds all entries of: a file being written, or left   *)
(* by a crash, holds none.  The clock is as coarse as the file system's    *)
(* may be: any number of steps take place at one time.                     *)
(***************************************************************************)
EXTENDS Integers, FiniteSets, FiniteSetsExt

CONSTANTS
    Preimage,       \* names of preimage files
    Slots,          \* 1 << args.k
    MaxTime,        \* bound: the clock
    MaxRuns,        \* bound: runs of the driver
    MaxCrashes      \* bound: tools that crash

\* The number of slots, and the bounds.
PipelineAssumption ==
    /\ Slots \in Nat \ {0}
    /\ {MaxTime, MaxRuns, MaxCrashes} \subseteq Nat

VARIABLES
    now, preimages,
    dict, sorted,           \* of a preimage file and a slot
    hash,                   \* of a slot
    group,                  \* one task group file: a content for every slot
    stage, todo,            \* the driver: what it does and what that still has to look at
    inputs,                 \* the files the running tool was given
    runs, crashes,
    hurt                    \* outputs a crash, or a change of the inputs meanwhile, has spoilt

files == <<preimages, dict, sorted, hash, group>>
driver == <<stage, todo, inputs, runs>>
vars == <<now, files, driver, crashes, hurt>>

Slot == 0 .. Slots - 1
NoFile == [mtime |-> -1, content |-> {}]
Written(content) == [mtime |-> now, content |-> content]
Exists(f) == f.mtime >= 0

Init ==
    /\ now = 0
    /\ preimages = {}
    /\ dict = [f \in Preimage \X Slot |-> NoFile]
    /\ sorted = [f \in Preimage \X Slot |-> NoFile]
    /\ hash = [s \in Slot |-> NoFile]
    /\ group = NoFile
    /\ stage = "idle"
    /\ todo = {}
    /\ inputs = {}
    /\ runs = 0
    /\ crashes = 0
    /\ hurt = {}

(***************************************************************************)
(* The driver                                                              *)
(***************************************************************************)
Start ==
    /\ stage \in {"idle", "end", "aborted"}
    /\ runs < MaxRuns
    /\ runs' = runs + 1
    /\ stage' = "split"
    /\ todo' = preimages
    /\ UNCHANGED <<now, files, inputs, crashes, hurt>>

\* splitting: the dictionary of the last slot says that a file has been split.
AlreadySplit(p) == Exists(dict[<<p, Slots - 1>>])

Split(p) ==
    /\ stage = "split"
    /\ p \in todo
    /\ todo' = todo \ {p}
    /\ IF AlreadySplit(p) THEN UNCHANGED <<stage, inputs, dict>>
       ELSE /\ stage' = "splitting"
            /\ inputs' = {p}
            /\ dict' = [f \in DOMAIN dict |-> IF f[1] = p THEN Written({}) ELSE dict[f]]
    /\ UNCHANGED <<now, preimages, sorted, hash, group, runs, crashes, hurt>>

SplitDone ==
    /\ stage = "splitting"
    /\ dict' = [f \in DOMAIN dict |-> IF f[1] \in inputs THEN Written({f[1]}) ELSE dict[f]]
    /\ stage' = "split"
    /\ inputs' = {}
    /\ UNCHANGED <<now, preimages, sorted, hash, group, todo, runs, crashes, hurt>>

EndSplit ==
    /\ stage = "split"
    /\ todo = {}
    /\ stage' = "merge"
    /\ todo' = Slot
    /\ UNCHANGED <<now, files, inputs, runs, crashes, hurt>>

\* Mutant: an output as old as its input will do.
NotOlder(output, ins) == Exists(output) /\ \A f \in ins : f.mtime <= output.mtime

\* An output newer than all of its inputs is left alone.
UpToDate(output, ins) == Exists(output) /\ \A f \in ins : f.mtime < output.mtime

SortedIn(s) == {p \in Preimage : Exists(sorted[<<p, s>>])}

Merge(s) ==
    /\ stage = "merge"
    /\ s \in todo
    /\ todo' = todo \ {s}
    /\ IF SortedIn(s) = {} \/ UpToDate(hash[s], {sorted[<<p, s>>] : p \in SortedIn(s)})
       THEN UNCHANGED <<stage, inputs, hash, hurt>>
       ELSE /\ stage' = "merging"
            /\ inputs' = {<<p, s>> : p \in SortedIn(s)}
            /\ hash' = [hash EXCEPT ![s] = Written({})]
            /\ hurt' = hurt \ {<<"hash", s>>}
    /\ UNCHANGED <<now, preimages, dict, sorted, group, runs, crashes>>

MergeDone ==
    /\ stage = "merging"
    /\ LET s == (CHOOSE f \in inputs : TRUE)[2]
       IN  hash' = [hash EXCEPT ![s] = Written(UNION {sorted[f].content : f \in inputs})]
    /\ stage' = "merge"
    /\ inputs' = {}
    /\ UNCHANGED <<now, preimages, dict, sorted, group, todo, runs, crashes, hurt>>

EndMerge ==
    /\ stage = "merge"
    /\ todo = {}
    /\ \E next \in {"slice", "group"} : stage' = next       \* --slice
    /\ UNCHANGED <<now, files, todo, inputs, runs, crashes, hurt>>

\* slicing: the slicer is called with --target-dir, which it does not know; no slice file ever
\* comes of it, and the driver ends.
Slice ==
    /\ stage = "slice"
    /\ stage' = IF \E s \in Slot : Exists(hash[s]) THEN "aborted" ELSE "group"
    /\ UNCHANGED <<now, files, todo, inputs, runs, crashes, hurt>>

\* grouping_kind: with a hash file missing either os.stat fails, or grouper does, after the shell
\* has created its output.
Group ==
    /\ stage = "group"
    /\ \/ /\ \E s \in Slot : ~Exists(hash[s])
          /\ stage' = "aborted"
          /\ IF Exists(group) THEN UNCHANGED <<group, hurt>>
             ELSE /\ group' = Written({})
                  /\ hurt' = hurt \ {<<"group">>}
       \/ /\ \A s \in Slot : Exists(hash[s])
          /\ IF UpToDate(group, {hash[s] : s \in Slot})
             THEN /\ stage' = "end"
                  /\ UNCHANGED <<group, hurt>>
             ELSE /\ stage' = "grouping"
                  /\ group' = Written({})
                  /\ hurt' = hurt \ {<<"group">>}
    /\ UNCHANGED <<now, preimages, dict, sorted, hash, todo, inputs, runs, crashes>>

GroupDone ==
    /\ stage = "grouping"
    /\ group' = Written({<<s, hash[s].content>> : s \in Slot})
    /\ stage' = "end"
    /\ UNCHANGED <<now, preimages, dict, sorted, hash, todo, inputs, runs, crashes, hurt>>

Driver == \/ \E p \in Preimage : Split(p)
          \/ \E s \in Slot : Merge(s)
          \/ SplitDone \/ EndSplit \/ MergeDone \/ EndMerge \/ Slice \/ Group \/ GroupDone

(***************************************************************************)
(* The rest of the world                                                   *)
(***************************************************************************)
Tick == now < MaxTime /\ now' = now + 1 /\ UNCHANGED <<files, driver, crashes, hurt>>

Arrive(p) ==
    /\ p \notin preimages
    /\ preimages' = preimages \cup {p}
    /\ UNCHANGED <<now, dict, sorted, hash, group, driver, crashes, hurt>>

Merging(s) == stage = "merging" /\ \E f \in inputs : f[2] = s

\* sorter reads a dictionary, creates its output, and closes it.
OpenSorted(p, s) ==
    /\ Exists(dict[<<p, s>>])
    /\ ~Exists(sorted[<<p, s>>])
    /\ sorted' = [sorted EXCEPT ![<<p, s>>] = Written({})]
    /\ hurt' = IF Merging(s) THEN hurt \cup {<<"hash", s>>} ELSE hurt
    /\ UNCHANGED <<now, preimages, dict, hash, group, driver, crashes>>

CloseSorted(p, s) ==
    /\ Exists(sorted[<<p, s>>])
    /\ sorted[<<p, s>>].content # dict[<<p, s>>].content
    /\ sorted' = [sorted EXCEPT ![<<p, s>>] = Written(dict[<<p, s>>].content)]
    /\ hurt' = IF Merging(s) THEN hurt \cup {<<"hash", s>>} ELSE hurt
    /\ UNCHANGED <<now, preimages, dict, hash, group, driver, crashes>>

\* The tool that runs crashes, and check_returncode ends the driver.
Crash ==
    /\ stage \in {"splitting", "merging", "grouping"}
    /\ crashes < MaxCrashes
    /\ crashes' = crashes + 1
    /\ hurt' = hurt \cup (CASE stage = "splitting" -> {<<"dict", p>> : p \in inputs}
                            [] stage = "merging"   -> {<<"hash", f[2]>> : f \in inputs}
                            [] stage = "grouping"  -> {<<"group">>})
    /\ stage' = "aborted"
    /\ inputs' = {}
    /\ UNCHANGED <<now, files, todo, runs>>

World == \/ Tick \/ Crash
         \/ \E p \in Preimage : Arrive(p)
         \/ \E p \in Preimage, s \in Slot : OpenSorted(p, s) \/ CloseSorted(p, s)

Next == Start \/ Driver \/ World

Spec == Init /\ [][Next]_vars

(***************************************************************************)
(* Properties                                                              *)
(***************************************************************************)
\* What a tool does not crash on, and nobody changes under it, is right: a dictionary is complete;
\* a hash file that the driver would leave alone holds exactly the dictionaries sorted so far, and
\* a group file it would leave alone its hash files, whatever else crashed or came in between and
\* however many files have the same time.
DamageIsLocal ==
    /\ stage # "splitting" =>
          \A f \in DOMAIN dict : Exists(dict[f]) /\ <<"dict", f[1]>> \notin hurt => dict[f].content = {f[1]}
    /\ stage # "merging" =>
          \A s \in Slot :
              <<"hash", s>> \notin hurt /\ UpToDate(hash[s], {sorted[<<p, s>>] : p \in SortedIn(s)}) =>
                  hash[s].content = UNION {sorted[<<p, s>>].content : p \in SortedIn(s)}
    /\ stage \notin {"merging", "grouping"} /\ <<"group">> \notin hurt
       /\ (\A s \in Slot : Exists(hash[s])) /\ UpToDate(group, {hash[s] : s \in Slot}) =>
              group.content = {<<s, hash[s].content>> : s \in Slot}
=============================================================================
