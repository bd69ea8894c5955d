-------------------------- MODULE PreprocessProofs --------------------------
(***************************************************************************)
(* Three parts of MCPreprocess, proved for all values of their constants.  *)
(*                                                                         *)
(* The driver of the preprocessing leaves no damage unseen, for any number *)
(* of preimage files and slots, of runs and crashes, and any clock         *)
(* (Pipeline).  DamageIsLocal says nothing of files a tool is working on,  *)
(* so that it is not inductive: the induction needs to know what the tool  *)
(* was given, and that no file is newer than the clock, so that what is    *)
(* written now is never older than what depends on it.                     *)
(*                                                                         *)
(* The slicer makes every slice, for any width of the words, list, l and   *)
(* random choices (Slicer).  SlicesSound says nothing of a search under    *)
(* way: the induction needs what the matrices of echelonize are worth at   *)
(* every column, and that the equations found so far are independent and   *)
(* are all that the active vectors satisfy, which is linear algebra over   *)
(* GF(2).                                                                  *)
(*                                                                         *)
(* The way of a preimage, for any words, jobs and answers of SHA256        *)
(* (Solutions).  SolutionsTraced says nothing of what the tasks report     *)
(* before it is traced: the induction needs that it is exactly the joins   *)
(* of the entries, and these exactly the valid jobs.                       *)
(***************************************************************************)
EXTENDS MCPreprocess, FiniteSetTheorems, SequenceTheorems, TLAPS

Slot == Driver!Slot
FilesOf(contents) == [mtime : Int, content : contents]

\* The files, and what the running tool was given.
PipelineTypeOK ==
    /\ now \in Nat
    /\ preimages \subseteq PreimageFile
    /\ {dict, sorted} \subseteq [PreimageFile \X Slot -> FilesOf(SUBSET PreimageFile)]
    /\ hash \in [Slot -> FilesOf(SUBSET PreimageFile)]
    /\ group \in FilesOf(SUBSET (Slot \X SUBSET PreimageFile))
    /\ stage \in {"idle", "split", "splitting", "merge", "merging", "slice", "group", "grouping",
                  "end", "aborted"}
    /\ stage = "splitting" => inputs \subseteq PreimageFile
    /\ stage = "merging" => inputs \subseteq PreimageFile \X Slot

\* No file is newer than the clock.
ClockInv ==
    /\ \A f \in PreimageFile \X Slot : dict[f].mtime <= now /\ sorted[f].mtime <= now
    /\ \A s \in Slot : hash[s].mtime <= now
    /\ group.mtime <= now

Sources(s) == {sorted[<<p, s>>] : p \in Driver!SortedIn(s)}

\* The merger works on one slot, and nothing was sorted there since it began unless that is noted.
InputsInv ==
    stage = "merging" =>
        \E s \in Slot :
            /\ inputs # {}
            /\ \A f \in inputs : f[2] = s
            /\ <<"hash", s>> \notin hurt => inputs = {<<p, s>> : p \in Driver!SortedIn(s)}

\* DamageIsLocal, also while a tool works on other files.
DictInv ==
    \A f \in PreimageFile \X Slot :
        /\ Driver!Exists(dict[f])
        /\ <<"dict", f[1]>> \notin hurt
        /\ ~(stage = "splitting" /\ f[1] \in inputs)
        => dict[f].content = {f[1]}

HashInv ==
    \A s \in Slot :
        ~Driver!Merging(s) /\ <<"hash", s>> \notin hurt /\ Driver!UpToDate(hash[s], Sources(s)) =>
            hash[s].content = UNION {sorted[<<p, s>>].content : p \in Driver!SortedIn(s)}

GroupInv ==
    /\ stage # "grouping"
    /\ <<"group">> \notin hurt
    /\ \A s \in Slot : Driver!Exists(hash[s])
    /\ Driver!UpToDate(group, {hash[s] : s \in Slot})
    => group.content = {<<s, hash[s].content>> : s \in Slot}

PipelineInv == PipelineTypeOK /\ ClockInv /\ InputsInv /\ DictInv /\ HashInv /\ GroupInv

(***************************************************************************)
(* Facts about files                                                       *)
(***************************************************************************)
\* What is written now has its content and the time of the clock.
LEMMA WrittenIs ==
  ASSUME NEW content
  PROVE  /\ Driver!Written(content).mtime = now
         /\ Driver!Written(content).content = content
  BY DEF Driver!Written

LEMMA WrittenType ==
  ASSUME NEW S, now \in Nat, NEW content \in S
  PROVE  Driver!Written(content) \in FilesOf(S)
  BY DEF Driver!Written, FilesOf

\* Outputs are noted apart from each other.
LEMMA NotedApart ==
  /\ \A p, s : <<"dict", p>> # <<"hash", s>>
  /\ \A p : <<"dict", p>> # <<"group">>
  /\ \A s : <<"hash", s>> # <<"group">>
  /\ \A s, t : s # t => <<"hash", s>> # <<"hash", t>>
  OBVIOUS

\* An output that is no newer than one of its inputs is not up to date.
LEMMA Outdated ==
  ASSUME NEW output, NEW ins, NEW f \in ins, output.mtime \in Int, f.mtime \in Int,
         output.mtime <= f.mtime
  PROVE  ~Driver!UpToDate(output, ins)
  BY DEF Driver!UpToDate

LEMMA FileTypes ==
  ASSUME PipelineTypeOK
  PROVE  /\ \A p \in PreimageFile, s \in Slot :
              /\ dict[<<p, s>>] \in FilesOf(SUBSET PreimageFile) /\ dict[<<p, s>>].mtime \in Int
              /\ sorted[<<p, s>>] \in FilesOf(SUBSET PreimageFile) /\ sorted[<<p, s>>].mtime \in Int
         /\ \A s \in Slot : hash[s] \in FilesOf(SUBSET PreimageFile) /\ hash[s].mtime \in Int
         /\ group.mtime \in Int
  BY DEF PipelineTypeOK, FilesOf

(***************************************************************************)
(* The induction: one lemma for the steps that leave the files alone, and  *)
(* one for each step that does not                                         *)
(***************************************************************************)
LEMMA PipelineInit == Driver!Init => PipelineInv
<1> SUFFICES ASSUME Driver!Init PROVE PipelineInv
  OBVIOUS
<1> USE DEF Driver!Init
<1>0. Driver!NoFile = [mtime |-> -1, content |-> {}]
  BY DEF Driver!NoFile
<1>1. PipelineTypeOK
  BY <1>0 DEF PipelineTypeOK, FilesOf, Slot
<1>2. ClockInv
  BY <1>0 DEF ClockInv, Slot
<1>3. InputsInv
  BY DEF InputsInv
<1>4. DictInv
  BY <1>0 DEF DictInv, Driver!Exists, Slot
<1>5. HashInv
  BY <1>0 DEF HashInv, Driver!UpToDate, Driver!Exists, Slot
<1>6. GroupInv
  BY <1>0 DEF GroupInv, Driver!UpToDate, Driver!Exists
<1> QED
  BY <1>1, <1>2, <1>3, <1>4, <1>5, <1>6 DEF PipelineInv

LEMMA QuietStep ==
  ASSUME PipelineInv, now' \in Nat, now <= now', preimages' \subseteq PreimageFile,
         dict' = dict, sorted' = sorted, hash' = hash, group' = group, hurt' = hurt,
         \/ stage' = stage /\ inputs' = inputs
         \/ /\ stage \notin {"splitting", "merging", "grouping"}
            /\ stage' \in {"idle", "split", "merge", "slice", "group", "end", "aborted"}
  PROVE  PipelineInv'
<1> USE DEF PipelineInv
<1>1. PipelineTypeOK'
  BY DEF PipelineTypeOK
<1>2. ClockInv'
  BY FileTypes DEF PipelineTypeOK, ClockInv, FilesOf
<1>3. InputsInv'
  BY DEF InputsInv, Driver!SortedIn, Driver!Exists
<1>4. DictInv'
  BY DEF DictInv, Driver!Exists
<1>5. HashInv'
  BY DEF HashInv, Driver!UpToDate, Driver!Exists, Driver!SortedIn, Driver!Merging, Sources
<1>6. GroupInv'
  BY DEF GroupInv, Driver!UpToDate, Driver!Exists
<1> QED
  BY <1>1, <1>2, <1>3, <1>4, <1>5, <1>6

\* The splitter creates the dictionaries of one file, and completes them.
LEMMA SplitStep ==
  ASSUME PipelineInv, NEW p \in PreimageFile, Driver!Split(p)
  PROVE  PipelineInv'
<1> USE DEF PipelineInv
<1>1. CASE Driver!AlreadySplit(p)
  <2>1. UNCHANGED <<now, preimages, dict, sorted, hash, group, hurt, stage, inputs>>
    BY <1>1 DEF Driver!Split
  <2> QED
    <3>1. now' \in Nat /\ now <= now' /\ preimages' \subseteq PreimageFile
      BY <2>1 DEF PipelineTypeOK
    <3> QED
      BY <2>1, <3>1, QuietStep
<1>2. CASE ~Driver!AlreadySplit(p)
  <2>1. /\ UNCHANGED <<now, preimages, sorted, hash, group, hurt>>
        /\ stage = "split" /\ stage' = "splitting" /\ inputs' = {p}
        /\ dict' = [f \in DOMAIN dict |-> IF f[1] = p THEN Driver!Written({}) ELSE dict[f]]
    BY <1>2 DEF Driver!Split
  <2>2. /\ DOMAIN dict = PreimageFile \X Slot
        /\ Driver!Written({}) \in FilesOf(SUBSET PreimageFile)
    BY WrittenType DEF PipelineTypeOK
  <2>3. PipelineTypeOK'
    BY <2>1, <2>2 DEF PipelineTypeOK
  <2>4. ClockInv'
    BY <2>1, <2>2, WrittenIs DEF ClockInv, PipelineTypeOK
  <2>5. InputsInv'
    BY <2>1 DEF InputsInv
  <2>6. DictInv'
    BY <2>1, <2>2 DEF DictInv, Driver!Exists
  <2>7. HashInv'
    BY <2>1 DEF HashInv, Driver!UpToDate, Driver!Exists, Driver!SortedIn, Driver!Merging, Sources
  <2>8. GroupInv'
    BY <2>1 DEF GroupInv, Driver!UpToDate, Driver!Exists
  <2> QED
    BY <2>3, <2>4, <2>5, <2>6, <2>7, <2>8
<1> QED
  BY <1>1, <1>2

LEMMA SplitDoneStep == ASSUME PipelineInv, Driver!SplitDone PROVE PipelineInv'
<1> USE DEF PipelineInv
<1>1. /\ UNCHANGED <<now, preimages, sorted, hash, group, hurt>>
      /\ stage = "splitting" /\ stage' = "split" /\ inputs' = {}
      /\ dict' = [f \in DOMAIN dict |->
                    IF f[1] \in inputs THEN Driver!Written({f[1]}) ELSE dict[f]]
  BY DEF Driver!SplitDone
<1>2. /\ DOMAIN dict = PreimageFile \X Slot
      /\ \A f \in PreimageFile \X Slot : Driver!Written({f[1]}) \in FilesOf(SUBSET PreimageFile)
  BY WrittenType DEF PipelineTypeOK
<1>3. PipelineTypeOK'
  <2>1. dict' \in [PreimageFile \X Slot -> FilesOf(SUBSET PreimageFile)]
    BY <1>1, <1>2 DEF PipelineTypeOK
  <2> QED
    BY <1>1, <2>1 DEF PipelineTypeOK
<1>4. ClockInv'
  BY <1>1, <1>2, WrittenIs DEF ClockInv, PipelineTypeOK
<1>5. InputsInv'
  BY <1>1 DEF InputsInv
<1>6. DictInv'
  BY <1>1, <1>2, WrittenIs DEF DictInv, Driver!Exists
<1>7. HashInv'
  BY <1>1 DEF HashInv, Driver!UpToDate, Driver!Exists, Driver!SortedIn, Driver!Merging, Sources
<1>8. GroupInv'
  BY <1>1 DEF GroupInv, Driver!UpToDate, Driver!Exists
<1> QED
  BY <1>3, <1>4, <1>5, <1>6, <1>7, <1>8

\* A hash file that is written now makes the group file older than one of its inputs.
LEMMA HashWritten ==
  ASSUME PipelineInv, NEW s \in Slot, NEW content \in SUBSET PreimageFile,
         hash' = [hash EXCEPT ![s] = Driver!Written(content)],
         now' = now, dict' = dict, sorted' = sorted, group' = group
  PROVE  /\ hash' \in [Slot -> FilesOf(SUBSET PreimageFile)]
         /\ ClockInv'
         /\ GroupInv'
<1> USE DEF PipelineInv
<1>1. Driver!Written(content) \in FilesOf(SUBSET PreimageFile)
  BY WrittenType DEF PipelineTypeOK
<1>2. hash' \in [Slot -> FilesOf(SUBSET PreimageFile)]
  BY <1>1 DEF PipelineTypeOK
<1>3. hash'[s] = Driver!Written(content) /\ \A t \in Slot : t # s => hash'[t] = hash[t]
  BY DEF PipelineTypeOK
<1>4. ClockInv'
  BY <1>3, WrittenIs DEF ClockInv, PipelineTypeOK
<1>5. ~Driver!UpToDate(group', {hash'[t] : t \in Slot})
  <2>1. group'.mtime <= hash'[s].mtime
    BY <1>3, WrittenIs DEF ClockInv
  <2>2. group'.mtime \in Int /\ hash'[s].mtime \in Int
    <3>1. group.mtime \in Int
      BY FileTypes
    <3>2. now \in Int
      BY DEF PipelineTypeOK
    <3> QED
      BY <1>3, <3>1, <3>2, WrittenIs
  <2> QED
    BY <2>1, <2>2, Outdated
<1>6. GroupInv'
  BY <1>5 DEF GroupInv, Driver!UpToDate, Driver!Exists
<1> QED
  BY <1>2, <1>4, <1>6

\* The merger begins with every dictionary of a slot that was sorted.
LEMMA MergeStep ==
  ASSUME PipelineInv, NEW s \in Slot, Driver!Merge(s)
  PROVE  PipelineInv'
<1> USE DEF PipelineInv
<1>1. CASE Driver!SortedIn(s) = {}
           \/ Driver!UpToDate(hash[s], {sorted[<<p, s>>] : p \in Driver!SortedIn(s)})
  <2>1. UNCHANGED <<now, preimages, dict, sorted, hash, group, hurt, stage, inputs>>
    BY <1>1 DEF Driver!Merge
  <2> QED
    <3>1. now' \in Nat /\ now <= now' /\ preimages' \subseteq PreimageFile
      BY <2>1 DEF PipelineTypeOK
    <3> QED
      BY <2>1, <3>1, QuietStep
<1>2. CASE ~(Driver!SortedIn(s) = {}
             \/ Driver!UpToDate(hash[s], {sorted[<<p, s>>] : p \in Driver!SortedIn(s)}))
  <2>1. /\ UNCHANGED <<now, preimages, dict, sorted, group>>
        /\ stage = "merge" /\ stage' = "merging"
        /\ inputs' = {<<p, s>> : p \in Driver!SortedIn(s)}
        /\ hash' = [hash EXCEPT ![s] = Driver!Written({})]
        /\ hurt' = hurt \ {<<"hash", s>>}
    BY <1>2 DEF Driver!Merge
  <2>2. /\ Driver!SortedIn(s) # {}
        /\ Driver!SortedIn(s) \subseteq PreimageFile
        /\ \A t : Driver!SortedIn(t)' = Driver!SortedIn(t)
    BY <1>2, <2>1 DEF Driver!SortedIn, Driver!Exists
  <2>3. /\ hash' \in [Slot -> FilesOf(SUBSET PreimageFile)]
        /\ ClockInv'
        /\ GroupInv'
    <3>1. {} \in SUBSET PreimageFile
      OBVIOUS
    <3> QED
      BY <2>1, <3>1, HashWritten
  <2>4. PipelineTypeOK'
    BY <2>1, <2>2, <2>3 DEF PipelineTypeOK
  <2>5. InputsInv'
    <3>1. \A p \in Driver!SortedIn(s) : <<p, s>> \in inputs'
      BY <2>1
    <3>2. \A f \in inputs' : f[2] = s
      BY <2>1
    <3> QED
      BY <2>1, <2>2, <3>1, <3>2 DEF InputsInv
  <2>6. DictInv'
    BY <2>1, NotedApart DEF DictInv, Driver!Exists
  <2>7. HashInv'
    <3>1. Driver!Merging(s)'
      <4>1. PICK p \in Driver!SortedIn(s) : TRUE
        BY <2>2
      <4>2. <<p, s>> \in inputs' /\ <<p, s>>[2] = s
        BY <2>1, <4>1
      <4> QED
        BY <2>1, <4>2 DEF Driver!Merging
    <3>2. ASSUME NEW t \in Slot, t # s, <<"hash", t>> \notin hurt',
                 Driver!UpToDate(hash[t], Sources(t))'
          PROVE  (hash[t].content = UNION {sorted[<<p, t>>].content : p \in Driver!SortedIn(t)})'
      <4>1. hash'[t] = hash[t] /\ Sources(t)' = Sources(t)
        BY <2>1, <2>2, <3>2 DEF Sources, PipelineTypeOK
      <4>2. <<"hash", t>> \notin hurt /\ Driver!UpToDate(hash[t], Sources(t))
        BY <2>1, <3>2, <4>1, NotedApart DEF Driver!UpToDate, Driver!Exists
      <4>3. ~Driver!Merging(t)
        BY <2>1 DEF Driver!Merging
      <4>4. hash[t].content = UNION {sorted[<<p, t>>].content : p \in Driver!SortedIn(t)}
        BY <4>2, <4>3 DEF HashInv
      <4> QED
        BY <2>1, <2>2, <4>1, <4>4
    <3> QED
      BY <3>1, <3>2 DEF HashInv
  <2> QED
    BY <2>3, <2>4, <2>5, <2>6, <2>7
<1> QED
  BY <1>1, <1>2

\* It completes the file: unless it was noted, its inputs are all that was sorted since.
LEMMA MergeDoneStep == ASSUME PipelineInv, Driver!MergeDone PROVE PipelineInv'
<1>1. stage = "merging"
  BY DEF Driver!MergeDone
<1>2. PICK s \in Slot :
        /\ inputs # {}
        /\ \A f \in inputs : f[2] = s
        /\ <<"hash", s>> \notin hurt => inputs = {<<p, s>> : p \in Driver!SortedIn(s)}
  BY <1>1 DEF PipelineInv, InputsInv
<1> DEFINE merged == UNION {sorted[f].content : f \in inputs}
<1>3. (CHOOSE f \in inputs : TRUE)[2] = s
  BY <1>2
<1>4. /\ UNCHANGED <<now, preimages, dict, sorted, group, hurt>>
      /\ stage' = "merge" /\ inputs' = {}
      /\ hash' = [hash EXCEPT ![s] = Driver!Written(merged)]
  BY <1>3 DEF Driver!MergeDone
<1>5. merged \in SUBSET PreimageFile
  <2>1. \A f \in inputs : sorted[f].content \in SUBSET PreimageFile
    BY <1>1 DEF PipelineInv, PipelineTypeOK, FilesOf
  <2> QED
    BY <2>1
<1> HIDE DEF merged
<1>6. /\ hash' \in [Slot -> FilesOf(SUBSET PreimageFile)]
      /\ ClockInv'
      /\ GroupInv'
  BY <1>4, <1>5, HashWritten
<1>7. \A t : Driver!SortedIn(t)' = Driver!SortedIn(t)
  BY <1>4 DEF Driver!SortedIn, Driver!Exists
<1>8. PipelineTypeOK'
  BY <1>4, <1>6 DEF PipelineInv, PipelineTypeOK
<1>9. InputsInv'
  BY <1>4 DEF InputsInv
<1>10. DictInv'
  BY <1>1, <1>4 DEF PipelineInv, DictInv, Driver!Exists
<1>11. HashInv'
  <2>1. ASSUME <<"hash", s>> \notin hurt'
        PROVE  (hash[s].content = UNION {sorted[<<p, s>>].content : p \in Driver!SortedIn(s)})'
    <3>1. inputs = {<<p, s>> : p \in Driver!SortedIn(s)}
      BY <1>2, <1>4, <2>1
    <3>2. merged = UNION {sorted[<<p, s>>].content : p \in Driver!SortedIn(s)}
      BY <3>1 DEF merged
    <3>3. hash'[s].content = merged
      BY <1>4, WrittenIs DEF PipelineInv, PipelineTypeOK
    <3> QED
      BY <1>4, <1>7, <3>2, <3>3
  <2>2. ASSUME NEW t \in Slot, t # s, <<"hash", t>> \notin hurt',
               Driver!UpToDate(hash[t], Sources(t))'
        PROVE  (hash[t].content = UNION {sorted[<<p, t>>].content : p \in Driver!SortedIn(t)})'
    <3>1. hash'[t] = hash[t] /\ Sources(t)' = Sources(t)
      BY <1>4, <1>7, <2>2 DEF Sources, PipelineInv, PipelineTypeOK
    <3>2. <<"hash", t>> \notin hurt /\ Driver!UpToDate(hash[t], Sources(t))
      BY <1>4, <2>2, <3>1 DEF Driver!UpToDate, Driver!Exists
    <3>3. ~Driver!Merging(t)
      BY <1>2, <2>2 DEF Driver!Merging
    <3>4. hash[t].content = UNION {sorted[<<p, t>>].content : p \in Driver!SortedIn(t)}
      BY <3>2, <3>3 DEF PipelineInv, HashInv
    <3> QED
      BY <1>4, <1>7, <3>1, <3>4
  <2> QED
    BY <2>1, <2>2 DEF HashInv
<1> QED
  BY <1>6, <1>8, <1>9, <1>10, <1>11 DEF PipelineInv

\* The shell creates the group file; while a hash file is missing it is not complete.
LEMMA GroupStep == ASSUME PipelineInv, Driver!Group PROVE PipelineInv'
<1> USE DEF PipelineInv
<1>1. /\ stage = "group" /\ stage' \in {"aborted", "end", "grouping"}
      /\ UNCHANGED <<now, preimages, dict, sorted, hash, inputs>>
  BY DEF Driver!Group
<1>2. CASE group' = group /\ hurt' = hurt /\ stage' # "grouping"
  <2>1. now' \in Nat /\ now <= now' /\ preimages' \subseteq PreimageFile
    BY <1>1 DEF PipelineTypeOK
  <2>2. /\ stage \notin {"splitting", "merging", "grouping"}
        /\ stage' \in {"idle", "split", "merge", "slice", "group", "end", "aborted"}
    BY <1>1, <1>2
  <2> QED
    BY <1>1, <1>2, <2>1, <2>2, QuietStep
<1>3. CASE /\ group' = Driver!Written({}) /\ hurt' = hurt \ {<<"group">>}
           /\ stage' = "grouping" \/ \E s \in Slot : ~Driver!Exists(hash[s])
  <2>1. group' \in FilesOf(SUBSET (Slot \X SUBSET PreimageFile)) /\ group'.mtime = now
    <3>1. {} \in SUBSET (Slot \X SUBSET PreimageFile)
      OBVIOUS
    <3> QED
      BY <1>3, <3>1, WrittenType, WrittenIs DEF PipelineTypeOK
  <2>2. PipelineTypeOK'
    BY <1>1, <2>1 DEF PipelineTypeOK
  <2>3. ClockInv'
    BY <1>1, <2>1 DEF ClockInv, PipelineTypeOK
  <2>4. InputsInv'
    BY <1>1 DEF InputsInv
  <2>5. DictInv'
    BY <1>1, <1>3, NotedApart DEF DictInv, Driver!Exists
  <2>6. HashInv'
    <3>1. ASSUME NEW s \in Slot, <<"hash", s>> \notin hurt' PROVE <<"hash", s>> \notin hurt
      BY <1>3, <3>1, NotedApart
    <3> QED
      BY <1>1, <3>1
      DEF HashInv, Driver!UpToDate, Driver!Exists, Driver!SortedIn, Driver!Merging, Sources
  <2>7. GroupInv'
    BY <1>1, <1>3 DEF GroupInv, Driver!Exists
  <2> QED
    BY <2>2, <2>3, <2>4, <2>5, <2>6, <2>7
<1> QED
  BY <1>2, <1>3 DEF Driver!Group, Slot

LEMMA GroupDoneStep == ASSUME PipelineInv, Driver!GroupDone PROVE PipelineInv'
<1> USE DEF PipelineInv
<1> DEFINE grouped == {<<s, hash[s].content>> : s \in Slot}
<1>1. /\ stage = "grouping" /\ stage' = "end"
      /\ UNCHANGED <<now, preimages, dict, sorted, hash, inputs, hurt>>
      /\ group' = Driver!Written(grouped)
  BY DEF Driver!GroupDone, Slot
<1>2. grouped \in SUBSET (Slot \X SUBSET PreimageFile)
  BY DEF PipelineTypeOK, FilesOf
<1>3. /\ group' \in FilesOf(SUBSET (Slot \X SUBSET PreimageFile))
      /\ group'.mtime = now /\ group'.content = grouped
  BY <1>1, <1>2, WrittenType, WrittenIs DEF PipelineTypeOK
<1> HIDE DEF grouped
<1>4. PipelineTypeOK'
  BY <1>1, <1>3 DEF PipelineTypeOK
<1>5. ClockInv'
  BY <1>1, <1>3 DEF ClockInv, PipelineTypeOK
<1>6. InputsInv'
  BY <1>1 DEF InputsInv
<1>7. DictInv'
  BY <1>1 DEF DictInv, Driver!Exists
<1>8. HashInv'
  BY <1>1 DEF HashInv, Driver!UpToDate, Driver!Exists, Driver!SortedIn, Driver!Merging, Sources
<1>9. GroupInv'
  BY <1>1, <1>3 DEF GroupInv, grouped
<1> QED
  BY <1>4, <1>5, <1>6, <1>7, <1>8, <1>9

\* What sorter writes is newer than the hash file of its slot, or as new; a merger at work is noted.
LEMMA SorterStep ==
  ASSUME PipelineInv, NEW p \in PreimageFile, NEW s \in Slot,
         Driver!OpenSorted(p, s) \/ Driver!CloseSorted(p, s)
  PROVE  PipelineInv'
<1>1. PICK content \in SUBSET PreimageFile :
        sorted' = [sorted EXCEPT ![<<p, s>>] = Driver!Written(content)]
  <2>1. CASE Driver!OpenSorted(p, s)
    BY <2>1 DEF Driver!OpenSorted
  <2>2. CASE Driver!CloseSorted(p, s)
    <3>1. dict[<<p, s>>].content \in SUBSET PreimageFile
      BY DEF PipelineInv, PipelineTypeOK, FilesOf
    <3> QED
      BY <2>2, <3>1 DEF Driver!CloseSorted
  <2> QED
    BY <2>1, <2>2
<1>2. /\ UNCHANGED <<now, preimages, dict, hash, group, stage, inputs>>
      /\ hurt' = IF Driver!Merging(s) THEN hurt \cup {<<"hash", s>>} ELSE hurt
  BY DEF Driver!OpenSorted, Driver!CloseSorted, Driver!driver
<1>3. Driver!Written(content) \in FilesOf(SUBSET PreimageFile) /\ Driver!Written(content).mtime = now
  BY WrittenType, WrittenIs DEF PipelineInv, PipelineTypeOK
<1>4. /\ sorted' \in [PreimageFile \X Slot -> FilesOf(SUBSET PreimageFile)]
      /\ sorted'[<<p, s>>] = Driver!Written(content)
      /\ \A f \in PreimageFile \X Slot : f # <<p, s>> => sorted'[f] = sorted[f]
  BY <1>1, <1>3 DEF PipelineInv, PipelineTypeOK
<1>5. PipelineTypeOK'
  BY <1>2, <1>4 DEF PipelineInv, PipelineTypeOK
<1>6. ClockInv'
  <2>1. now \in Int /\ \A f \in PreimageFile \X Slot : sorted'[f].mtime <= now
    BY <1>3, <1>4 DEF PipelineInv, ClockInv, PipelineTypeOK
  <2> QED
    BY <1>2, <2>1 DEF PipelineInv, ClockInv
<1>7. \A t \in Slot : t # s =>
        /\ Driver!SortedIn(t)' = Driver!SortedIn(t)
        /\ \A q \in PreimageFile : sorted'[<<q, t>>] = sorted[<<q, t>>]
  <2>1. \A t \in Slot, q \in PreimageFile : t # s => sorted'[<<q, t>>] = sorted[<<q, t>>]
    BY <1>4
  <2> QED
    BY <2>1 DEF Driver!SortedIn, Driver!Exists
<1>8. InputsInv'
  <2>1. ASSUME stage' = "merging"
        PROVE  \E t \in Slot :
                 /\ inputs' # {}
                 /\ \A f \in inputs' : f[2] = t
                 /\ <<"hash", t>> \notin hurt' => inputs' = {<<q, t>> : q \in Driver!SortedIn(t)'}
    <3>1. PICK t \in Slot :
            /\ inputs # {}
            /\ \A f \in inputs : f[2] = t
            /\ <<"hash", t>> \notin hurt => inputs = {<<q, t>> : q \in Driver!SortedIn(t)}
      BY <1>2, <2>1 DEF PipelineInv, InputsInv
    <3>2. CASE t = s
      <4>1. Driver!Merging(s)
        BY <1>2, <2>1, <3>1, <3>2 DEF Driver!Merging
      <4> QED
        BY <1>2, <3>1, <3>2, <4>1
    <3>3. CASE t # s
      BY <1>2, <1>7, <3>1, <3>3
    <3> QED
      BY <3>2, <3>3
  <2> QED
    BY <2>1 DEF InputsInv
<1>9. DictInv'
  BY <1>2, NotedApart DEF PipelineInv, DictInv, Driver!Exists
<1>10. HashInv'
  <2>1. ~Driver!UpToDate(hash[s], Sources(s))'
    <3>1. hash'[s].mtime <= sorted'[<<p, s>>].mtime
      BY <1>2, <1>3, <1>4 DEF PipelineInv, ClockInv
    <3>2. hash'[s].mtime \in Int /\ sorted'[<<p, s>>].mtime \in Int
      <4>1. now \in Int /\ hash[s].mtime \in Int
        BY DEF PipelineInv, PipelineTypeOK, FilesOf
      <4> QED
        BY <1>2, <1>3, <1>4, <4>1
    <3>3. sorted'[<<p, s>>] \in Sources(s)'
      BY <1>3, <1>4 DEF Sources, Driver!SortedIn, Driver!Exists, PipelineInv, PipelineTypeOK
    <3>4. ~Driver!UpToDate(hash'[s], Sources(s)')
      BY <3>1, <3>2, <3>3, Outdated
    <3> QED
      BY <3>4 DEF Driver!UpToDate, Driver!Exists
  <2>2. ASSUME NEW t \in Slot, t # s, ~Driver!Merging(t)', <<"hash", t>> \notin hurt',
               Driver!UpToDate(hash[t], Sources(t))'
        PROVE  (hash[t].content = UNION {sorted[<<q, t>>].content : q \in Driver!SortedIn(t)})'
    <3>1. Sources(t)' = Sources(t)
      BY <1>7, <2>2 DEF Sources, Driver!SortedIn
    <3>2. <<"hash", t>> \notin hurt /\ Driver!UpToDate(hash[t], Sources(t)) /\ ~Driver!Merging(t)
      BY <1>2, <2>2, <3>1 DEF Driver!UpToDate, Driver!Exists, Driver!Merging
    <3>3. hash[t].content = UNION {sorted[<<q, t>>].content : q \in Driver!SortedIn(t)}
      BY <3>2 DEF PipelineInv, HashInv
    <3>4. {sorted'[<<q, t>>].content : q \in Driver!SortedIn(t)'}
            = {sorted[<<q, t>>].content : q \in Driver!SortedIn(t)}
      BY <1>7, <2>2 DEF Driver!SortedIn
    <3> QED
      BY <1>2, <3>3, <3>4
  <2> QED
    BY <2>1, <2>2 DEF HashInv
<1>11. GroupInv'
  BY <1>2, NotedApart DEF PipelineInv, GroupInv, Driver!UpToDate, Driver!Exists
<1> QED
  BY <1>5, <1>6, <1>8, <1>9, <1>10, <1>11 DEF PipelineInv

\* A crash is noted for everything the tool was making.
LEMMA CrashStep == ASSUME PipelineInv, Driver!Crash PROVE PipelineInv'
<1> USE DEF PipelineInv
<1>1. /\ UNCHANGED <<now, preimages, dict, sorted, hash, group>>
      /\ stage \in {"splitting", "merging", "grouping"} /\ stage' = "aborted"
  BY DEF Driver!Crash, Driver!files
<1>2. /\ hurt \subseteq hurt'
      /\ stage = "splitting" => \A p \in inputs : <<"dict", p>> \in hurt'
      /\ stage = "merging" => \A f \in inputs : <<"hash", f[2]>> \in hurt'
      /\ stage = "grouping" => <<"group">> \in hurt'
  BY DEF Driver!Crash
<1>3. PipelineTypeOK'
  BY <1>1 DEF PipelineTypeOK
<1>4. ClockInv'
  BY <1>1 DEF ClockInv
<1>5. InputsInv'
  BY <1>1 DEF InputsInv
<1>6. DictInv'
  BY <1>1, <1>2 DEF DictInv, Driver!Exists
<1>7. HashInv'
  <2>1. \A s \in Slot : Driver!Merging(s) => <<"hash", s>> \in hurt'
    BY <1>2 DEF Driver!Merging
  <2> QED
    BY <1>1, <1>2, <2>1 DEF HashInv, Driver!UpToDate, Driver!Exists, Driver!SortedIn, Sources
<1>8. GroupInv'
  BY <1>1, <1>2 DEF GroupInv, Driver!UpToDate, Driver!Exists
<1> QED
  BY <1>3, <1>4, <1>5, <1>6, <1>7, <1>8

\* The other steps leave the files alone.
LEMMA OtherStep ==
  ASSUME PipelineInv,
         \/ Driver!Start \/ Driver!EndSplit \/ Driver!EndMerge \/ Driver!Slice
         \/ Driver!Tick \/ (\E p \in PreimageFile : Driver!Arrive(p))
         \/ UNCHANGED pipelineVars
  PROVE  PipelineInv'
<1>1. /\ dict' = dict /\ sorted' = sorted /\ hash' = hash /\ group' = group /\ hurt' = hurt
      /\ preimages' \subseteq PreimageFile
  BY DEF Driver!Start, Driver!EndSplit, Driver!EndMerge, Driver!Slice, Driver!Tick, Driver!Arrive,
         Driver!files, pipelineVars, PipelineInv, PipelineTypeOK
<1>2. now' \in Nat /\ now <= now'
  BY DEF Driver!Start, Driver!EndSplit, Driver!EndMerge, Driver!Slice, Driver!Tick, Driver!Arrive,
         pipelineVars, PipelineInv, PipelineTypeOK
<1>3. \/ stage' = stage /\ inputs' = inputs
      \/ /\ stage \notin {"splitting", "merging", "grouping"}
         /\ stage' \in {"idle", "split", "merge", "slice", "group", "end", "aborted"}
  BY DEF Driver!Start, Driver!EndSplit, Driver!EndMerge, Driver!Slice, Driver!Tick, Driver!Arrive,
         Driver!driver, pipelineVars
<1> QED
  BY <1>1, <1>2, <1>3, QuietStep

LEMMA PipelineNext == PipelineInv /\ (Driver!Next \/ UNCHANGED pipelineVars) => PipelineInv'
  BY SplitStep, SplitDoneStep, MergeStep, MergeDoneStep, GroupStep, GroupDoneStep, SorterStep, CrashStep,
     OtherStep
  DEF Driver!Next, Driver!Driver, Driver!World, Slot

(***************************************************************************)
(* The theorem                                                             *)
(***************************************************************************)
\* A dictionary that no crash of the splitter touched is complete, and a hash file or group file that
\* preprocess.py leaves alone because its inputs are older holds all of them, but for those that a
\* crash, or a dictionary sorted meanwhile, has spoilt.
THEOREM DamageIsLocalHolds == MCSpec => []DamageIsLocal
<1> DEFINE Inv == part = "pipeline" => PipelineInv
<1>1. MCInit => Inv
  BY PipelineInit DEF MCInit
<1>2. Inv /\ [MCNext]_allVars => Inv'
  <2> SUFFICES ASSUME Inv, [MCNext]_allVars PROVE Inv'
    OBVIOUS
  <2>1. part' = part
    BY DEF MCNext, MergerStep, SlicerStep, PipelineStep, SolutionStep, allVars
  <2>2. part = "pipeline" => Driver!Next \/ UNCHANGED pipelineVars
    BY DEF MCNext, MergerStep, SlicerStep, PipelineStep, SolutionStep, allVars
  <2> QED
    BY <2>1, <2>2, PipelineNext
<1>3. Inv => DamageIsLocal
  <2> SUFFICES ASSUME PipelineInv PROVE Driver!DamageIsLocal
    BY DEF DamageIsLocal
  <2>1. DOMAIN dict = PreimageFile \X Slot
    BY DEF PipelineInv, PipelineTypeOK
  <2>2. ASSUME stage # "splitting"
        PROVE  \A f \in DOMAIN dict :
                 Driver!Exists(dict[f]) /\ <<"dict", f[1]>> \notin hurt => dict[f].content = {f[1]}
    BY <2>1, <2>2 DEF PipelineInv, DictInv
  <2>3. ASSUME stage # "merging", NEW s \in Driver!Slot, <<"hash", s>> \notin hurt,
               Driver!UpToDate(hash[s], {sorted[<<p, s>>] : p \in Driver!SortedIn(s)})
        PROVE  hash[s].content = UNION {sorted[<<p, s>>].content : p \in Driver!SortedIn(s)}
    BY <2>3 DEF PipelineInv, HashInv, Sources, Slot, Driver!Merging
  <2>4. ASSUME stage \notin {"merging", "grouping"}, <<"group">> \notin hurt,
               \A s \in Driver!Slot : Driver!Exists(hash[s]),
               Driver!UpToDate(group, {hash[s] : s \in Driver!Slot})
        PROVE  group.content = {<<s, hash[s].content>> : s \in Driver!Slot}
    BY <2>4 DEF PipelineInv, GroupInv, Slot
  <2> QED
    BY <2>2, <2>3, <2>4 DEF Driver!DamageIsLocal
<1> QED
  BY <1>1, <1>2, <1>3, PTL DEF MCSpec

(***************************************************************************)
(* Slicer: words and equations                                             *)
(***************************************************************************)
Bit == 0 .. W - 1
Word == SUBSET Bit

Odd(S) == Cardinality(S) % 2 = 1
Plus(x, y) == (x \ y) \cup (y \ x)

\* Bit c of the product of x and the array of rows A.
One(x, A, c) == Odd({r \in x : c \in A[r]})
Times(x, A) == {c \in Bit : One(x, A, c)}

Independent(A) == \A x \in SUBSET DOMAIN A : x # {} => Times(x, A) # {}
Span(A) == {Times(x, A) : x \in SUBSET DOMAIN A}

Of(s) == {s[n] : n \in DOMAIN s}

\* The equations that all words of a set satisfy, and the words that satisfy one.
Dual(X) == {e \in Word : \A x \in X : ~Odd(x \cap e)}
Satisfying(X, e) == {x \in X : ~Odd(x \cap e)}

(***************************************************************************)
(* Slicer: the invariant                                                   *)
(***************************************************************************)
slicerL == input.hashes
slicerD == W - Len(equations)

Searching == spc \in {"permute", "search", "filter"}
InRound == spc = "rank" \/ Searching

SlicerTypeOK ==
    /\ input \in SlicerInputs
    /\ {active, reject, done, equations} \subseteq Seq(Word)
    /\ Len(equations) <= W
    /\ M \in Seq(Word)
    /\ rows \in [Bit -> SUBSET Nat]
    /\ E \in [Bit -> Word]
    /\ j \in 0 .. W
    /\ {scan, trials, best_weight, it, output_size} \subseteq Nat
    /\ best_equation \in Word
    /\ spc \in {"slice", "rank", "permute", "search", "filter", "invert", "saved", "written"}

\* The equations found so far are independent, and they are all that the active vectors satisfy; a
\* vector was rejected only for an equation that leaves W - k independent ones.
EquationsInv ==
    /\ Independent(equations)
    /\ equations # <<>> => /\ Dual(Of(active)) = Span(equations)
                           /\ active # <<>>
    /\ reject # <<>> => /\ Len(equations) \in 1 .. input.l
                        /\ Len(active) >= slicerD

\* The matrix of a round has the active vectors for columns.
RoundInv ==
    InRound => /\ Of(M) = Of(active)
               /\ M # <<>>
               /\ Len(equations) < input.l
               /\ Searching => Dual(Of(active)) = Span(equations)

\* Columns 0 .. n - 1 are those of the identity.
UnitColumns(A, n) == \A c \in 0 .. n - 1, r \in Bit : c \in A[r] <=> r = c

Column(v) == 0 .. Len(v) - 1

\* The rows A are B times the vectors, up to the order of these.
Transformed(perm, v, A, B) ==
    /\ Column(v) = {perm[c] : c \in Column(v)}
    /\ \A x \in Word, c \in Column(v) : One(x, A, c) <=> Odd(Times(x, B) \cap v[perm[c] + 1])

\* What echelonize has done with n pivots, before it tries column sc: the columns between them are
\* zero from row n on.
Echelon(v, A, B, n, sc, tr) ==
    /\ UnitColumns(A, n)
    /\ \A r \in Bit : A[r] \subseteq Column(v)
    /\ sc >= n + 1
    /\ sc > n + 1 => tr = 0 \/ n + 1 >= Len(v)
    /\ \A c \in n + 1 .. sc - 1, r \in n .. W - 1 : c \notin A[r]
    /\ Independent(B)
    /\ \E perm \in [Column(v) -> Column(v)] : Transformed(perm, v, A, B)

EchelonInv ==
    spc \in {"rank", "search"} => j <= slicerD /\ Echelon(M, rows, E, j, scan, trials)

\* What a set of equations spans together with one more.
Spanned(X, e) == X \cup {Plus(x, e) : x \in X}

\* An equation that divides the active vectors in two and leaves W - k - 1 independent ones.
Divides(e) ==
    /\ e \in Word /\ e \notin Span(equations)
    /\ Dual(Satisfying(Of(active), e)) = Spanned(Span(equations), e)
    /\ Cardinality(Satisfying(Of(active), e)) >= slicerD - 1

BestInv ==
    /\ Searching => /\ best_weight <= Len(M)
                    /\ best_weight < Len(M) => Divides(best_equation)
    /\ spc = "filter" => Divides(best_equation)

\* The slice in hand has the equations for its leading bits.
SliceInv ==
    spc \in {"invert", "saved"} =>
        /\ slice \in [l : Nat, M : [Bit -> Word], Minv : [Bit -> Word], CM : Seq(Word)]
        /\ slice.l = Len(equations) /\ slice.l >= input.l
        /\ Independent(slice.M)
        /\ \A r \in slicerD .. W - 1, x \in Word :
               One(x, slice.M, r) <=> Odd(x \cap equations[r - slicerD + 1])

InvertInv ==
    spc = "invert" =>
        /\ UnitColumns(rows, j)
        /\ rows \in [Bit -> Word]
        /\ Independent(E)
        /\ \A x \in Word : Times(x, rows) = Times(Times(x, E), slice.M)

SavedInv == spc = "saved" => Slicing!SliceChecked(slice)

Count(s, x) == Cardinality({n \in DOMAIN s : s[n] = x})

\* No vector is lost, and none gets into the lists twice.
CountInv ==
    /\ Len(done) + Len(active) + Len(reject) = Len(slicerL)
    /\ \A x \in Word : Count(done, x) + Count(active, x) + Count(reject, x) = Count(slicerL, x)
    /\ spc = "written" => active = <<>>

InHand == spc \in {"invert", "saved"}

SizeInv ==
    \E n \in Nat :
        /\ output_size = Slicing!Header * n + Len(done)
                         + (IF InHand THEN Slicing!Header + Len(active) ELSE 0)
        /\ active # <<>> => n * (W - input.l) <= Len(done)
        /\ output_size <= Slicing!output_space

SlicerInv ==
    /\ SlicerTypeOK
    /\ EquationsInv /\ RoundInv /\ EchelonInv /\ BestInv
    /\ SliceInv /\ InvertInv /\ SavedInv
    /\ CountInv /\ SizeInv
-----------------------------------------------------------------------------
LEMMA SlicerAssumed ==
  /\ W \in Nat \ {0} /\ RandomTrials \in Nat
  /\ \A inp \in SlicerInputs : inp.hashes \in Seq(Word) /\ inp.l \in 0 .. W - 1
BY MCPreprocessAssumption DEF Slicing!SlicerAssumption, Slicing!Word, Slicing!Bit, Word, Bit

LEMMA SameCardinality == \A S : Slicing!Cardinality(S) = Cardinality(S)
BY DEF Slicing!Cardinality, Cardinality

\* The words and the product of GF2.
LEMMA SlicingIs ==
  /\ Slicing!Bit = Bit /\ Slicing!Word = Word
  /\ \A x, A : Slicing!naive_gemv(x, A) = Times(x, A)
  /\ \A x, y : Slicing!SymDiff(x, y) = Plus(x, y)
<1>1. Slicing!Bit = Bit /\ Slicing!Word = Word
  BY DEF Slicing!Bit, Slicing!Word, Bit, Word
<1>2. ASSUME NEW x, NEW A PROVE Slicing!naive_gemv(x, A) = Times(x, A)
  <2>1. Slicing!naive_gemv(x, A) = {c \in Bit : Cardinality({r \in x : c \in A[r]}) % 2 = 1}
    BY <1>1, SameCardinality, Zenon DEF Slicing!naive_gemv
  <2>2. \A c : One(x, A, c) <=> Cardinality({r \in x : c \in A[r]}) % 2 = 1
    BY Zenon DEF One, Odd
  <2> QED
    BY <2>1, <2>2, Zenon DEF Times
<1>3. \A x, y : Slicing!SymDiff(x, y) = Plus(x, y)
  BY DEF Slicing!SymDiff, Plus
<1> QED
  BY <1>1, <1>2, <1>3

LEMMA FiniteWords ==
  /\ IsFiniteSet(Bit) /\ Cardinality(Bit) = W
  /\ \A x \in Word : IsFiniteSet(x)
  /\ IsFiniteSet(Word)
<1>1. IsFiniteSet(Bit) /\ Cardinality(Bit) = W
  BY SlicerAssumed, FS_Interval DEF Bit
<1> QED
  BY <1>1, FS_Subset, FS_SUBSET DEF Word

(* Parity *)

LEMMA OddFew ==
  /\ ~Odd({}) /\ \A x : Odd({x})
<1>1. Cardinality({}) = 0 /\ \A x : Cardinality({x}) = 1
  BY FS_EmptySet, FS_Singleton
<1> QED
  BY <1>1 DEF Odd

\* The sum of two sets is odd when one of them is.
LEMMA OddPlus ==
  ASSUME NEW S, NEW U, IsFiniteSet(S), IsFiniteSet(U)
  PROVE  Odd(Plus(S, U)) <=> (Odd(S) <=> ~Odd(U))
<1>1. /\ IsFiniteSet(S \ U) /\ Cardinality(S \ U) = Cardinality(S) - Cardinality(S \cap U)
      /\ IsFiniteSet(U \ S) /\ Cardinality(U \ S) = Cardinality(U) - Cardinality(U \cap S)
  BY FS_Difference
<1>2. U \cap S = S \cap U /\ (S \ U) \cap (U \ S) = {}
  OBVIOUS
<1>3. Cardinality(Plus(S, U)) = Cardinality(S \ U) + Cardinality(U \ S) - Cardinality({})
  BY <1>1, <1>2, FS_Union DEF Plus
<1>4. IsFiniteSet(S \cap U)
  BY FS_Intersection
<1>5. PICK p \in Nat : p = Cardinality(S)
  BY FS_CardinalityType
<1>6. PICK q \in Nat : q = Cardinality(U)
  BY FS_CardinalityType
<1>7. PICK r \in Nat : r = Cardinality(S \cap U)
  BY <1>4, FS_CardinalityType
<1>8. Cardinality(Plus(S, U)) = (p - r) + (q - r)
  <2>1. Cardinality(S \ U) = p - r /\ Cardinality(U \ S) = q - r
    BY <1>1, <1>2, <1>5, <1>6, <1>7
  <2>2. Cardinality({}) = 0
    BY FS_EmptySet
  <2> QED
    BY <1>3, <2>1, <2>2
<1>9. ((p - r) + (q - r)) % 2 = 1 <=> (p % 2 = 1 <=> ~(q % 2 = 1))
  OBVIOUS
<1> QED
  BY <1>5, <1>6, <1>8, <1>9 DEF Odd

LEMMA PlusFacts ==
  /\ \A x, y : Plus(x, y) = {} <=> x = y
  /\ \A x : Plus(x, {}) = x /\ Plus({}, x) = x
  /\ \A x, y : Plus(x, y) = Plus(y, x) /\ Plus(Plus(x, y), y) = x
  /\ \A x, y \in Word : Plus(x, y) \in Word
BY DEF Plus, Word

LEMMA PlusFinite ==
  ASSUME NEW S, NEW U, IsFiniteSet(S), IsFiniteSet(U)
  PROVE  IsFiniteSet(Plus(S, U))
BY FS_Difference, FS_Union DEF Plus

\* The product is linear.
LEMMA OnePlus ==
  ASSUME NEW x, NEW y, IsFiniteSet(x), IsFiniteSet(y), NEW A, NEW c
  PROVE  One(Plus(x, y), A, c) <=> (One(x, A, c) <=> ~One(y, A, c))
<1> DEFINE With(z) == {r \in z : c \in A[r]}
<1>1. With(Plus(x, y)) = Plus(With(x), With(y))
  BY DEF Plus
<1>2. IsFiniteSet(With(x)) /\ IsFiniteSet(With(y))
  BY FS_Subset
<1>3. Odd(Plus(With(x), With(y))) <=> (Odd(With(x)) <=> ~Odd(With(y)))
  BY <1>2, OddPlus
<1> QED
  BY <1>1, <1>3 DEF One

LEMMA TimesPlus ==
  ASSUME NEW x, NEW y, IsFiniteSet(x), IsFiniteSet(y), NEW A
  PROVE  Times(Plus(x, y), A) = Plus(Times(x, A), Times(y, A))
<1>1. \A c : One(Plus(x, y), A, c) <=> (One(x, A, c) <=> ~One(y, A, c))
  BY OnePlus
<1> QED
  BY <1>1 DEF Times, Plus

LEMMA OddMeets ==
  ASSUME NEW v, NEW x, NEW y, IsFiniteSet(v)
  PROVE  Odd(v \cap Plus(x, y)) <=> (Odd(v \cap x) <=> ~Odd(v \cap y))
<1>1. v \cap Plus(x, y) = Plus(v \cap x, v \cap y)
  BY DEF Plus
<1>2. IsFiniteSet(v \cap x) /\ IsFiniteSet(v \cap y)
  BY FS_Intersection
<1> QED
  BY <1>1, <1>2, OddPlus

LEMMA OneOfUnit ==
  ASSUME NEW A, NEW r
  PROVE  /\ \A c : One({r}, A, c) <=> c \in A[r]
         /\ A[r] \in Word => Times({r}, A) = A[r]
<1>1. ASSUME NEW c PROVE One({r}, A, c) <=> c \in A[r]
  <2>1. {s \in {r} : c \in A[s]} = IF c \in A[r] THEN {r} ELSE {}
    OBVIOUS
  <2> QED
    BY <2>1, OddFew DEF One
<1> QED
  BY <1>1 DEF Times, Word

LEMMA OneOfNone ==
  ASSUME NEW A
  PROVE  /\ \A c : ~One({}, A, c)
         /\ Times({}, A) = {}
<1>1. \A c : {r \in {} : c \in A[r]} = {}
  OBVIOUS
<1> QED
  BY <1>1, OddFew DEF One, Times

LEMMA TimesType ==
  \A x, A : Times(x, A) \in Word
BY DEF Times, Word

-----------------------------------------------------------------------------
(* Independent rows *)

\* A product by independent rows determines the word.
LEMMA Injective ==
  ASSUME NEW A, IsFiniteSet(DOMAIN A), Independent(A),
         NEW x \in SUBSET DOMAIN A, NEW y \in SUBSET DOMAIN A, Times(x, A) = Times(y, A)
  PROVE  x = y
<1>1. IsFiniteSet(x) /\ IsFiniteSet(y)
  BY FS_Subset
<1>2. Times(Plus(x, y), A) = {}
  BY <1>1, TimesPlus, PlusFacts
<1>3. Plus(x, y) \in SUBSET DOMAIN A
  BY DEF Plus
<1> QED
  BY <1>2, <1>3, PlusFacts DEF Independent

\* A square of them reaches every word.
LEMMA Onto ==
  ASSUME NEW A \in [Bit -> Word], Independent(A), NEW y \in Word
  PROVE  \E x \in Word : Times(x, A) = y
<1> DEFINE f == [x \in Word |-> Times(x, A)]
<1>1. f \in [Word -> Word]
  BY TimesType
<1>2. ASSUME NEW u \in Word, NEW v \in Word, f[u] = f[v] PROVE u = v
  BY <1>2, Injective, FiniteWords DEF Word
<1>3. f \in Injection(Word, Word)
  BY <1>1, <1>2 DEF Injection, IsInjective
<1>4. f \in Surjection(Word, Word)
  BY <1>3, FiniteWords, FS_Injection
<1> QED
  BY <1>4 DEF Surjection

\* They span as many words as there are selections of them.
LEMMA SpanSize ==
  ASSUME NEW A, IsFiniteSet(DOMAIN A), Independent(A)
  PROVE  IsFiniteSet(Span(A)) /\ Cardinality(Span(A)) = Cardinality(SUBSET DOMAIN A)
<1> DEFINE f == [x \in SUBSET DOMAIN A |-> Times(x, A)]
<1>1. f \in [SUBSET DOMAIN A -> Span(A)]
  BY DEF Span
<1>2. ASSUME NEW u \in SUBSET DOMAIN A, NEW v \in SUBSET DOMAIN A, f[u] = f[v] PROVE u = v
  BY <1>2, Injective
<1>3. f \in Injection(SUBSET DOMAIN A, Span(A))
  BY <1>1, <1>2 DEF Injection, IsInjective
<1>4. f \in Surjection(SUBSET DOMAIN A, Span(A))
  BY <1>1 DEF Surjection, Span
<1>5. IsFiniteSet(SUBSET DOMAIN A)
  BY FS_SUBSET
<1>6. f \in Bijection(SUBSET DOMAIN A, Span(A))
  BY <1>3, <1>4 DEF Bijection
<1>7. ExistsBijection(SUBSET DOMAIN A, Span(A))
  BY <1>6 DEF ExistsBijection
<1> QED
  BY <1>5, <1>7, FS_Bijection

\* A smaller set has fewer subsets.
LEMMA PowerSizes ==
  ASSUME NEW S, NEW U, IsFiniteSet(S), IsFiniteSet(U), Cardinality(SUBSET U) <= Cardinality(SUBSET S)
  PROVE  Cardinality(U) <= Cardinality(S)
<1> SUFFICES ASSUME Cardinality(S) < Cardinality(U) PROVE FALSE
  BY FS_CardinalityType
<1>1. PICK p \in Nat : p = Cardinality(S)
  BY FS_CardinalityType
<1>2. PICK q \in Nat : q = Cardinality(U) /\ p < q
  BY <1>1, FS_CardinalityType
<1>3. PICK f : f \in Bijection(1 .. q, U)
  BY <1>2, FS_CardinalityType DEF ExistsBijection
<1> DEFINE V == {f[n] : n \in 1 .. p}
<1>4. V \in SUBSET U /\ f[q] \in U /\ f[q] \notin V
  BY <1>1, <1>2, <1>3 DEF Bijection, Injection, IsInjective
<1>5. [n \in 1 .. p |-> f[n]] \in Bijection(1 .. p, V)
  BY <1>1, <1>2, <1>3, <1>4 DEF Bijection, Injection, Surjection, IsInjective
<1>6. ExistsBijection(1 .. p, V)
  BY <1>5 DEF ExistsBijection
<1>7. IsFiniteSet(V) /\ Cardinality(V) = p
  BY <1>6, FS_CountingElements, FS_Subset, <1>4
<1>8. Cardinality(SUBSET V) = Cardinality(SUBSET S)
  BY <1>1, <1>7, FS_SUBSET
<1>9. SUBSET V \in SUBSET (SUBSET U) /\ U \in SUBSET U /\ U \notin SUBSET V
  BY <1>4
<1> HIDE DEF V
<1>10. IsFiniteSet(SUBSET U) /\ IsFiniteSet(SUBSET V)
  BY <1>7, FS_SUBSET
<1>11. Cardinality(SUBSET V) <= Cardinality(SUBSET U) /\ Cardinality(SUBSET V) # Cardinality(SUBSET U)
  BY <1>9, <1>10, FS_Subset
<1> QED
  BY <1>8, <1>10, <1>11, FS_CardinalityType

-----------------------------------------------------------------------------
(* The operations on rows *)

LEMMA OneOfPart ==
  ASSUME NEW x, NEW p, NEW A, NEW c
  PROVE  One(x \cap {p}, A, c) <=> p \in x /\ c \in A[p]
<1>1. CASE p \in x
  <2>1. x \cap {p} = {p}
    BY <1>1
  <2>2. One({p}, A, c) <=> c \in A[p]
    BY OneOfUnit
  <2> QED
    BY <1>1, <2>1, <2>2
<1>2. CASE p \notin x
  <2>1. x \cap {p} = {}
    BY <1>2
  <2> QED
    BY <1>2, <2>1, OneOfNone
<1> QED
  BY <1>1, <1>2

\* The part of a product that two rows make.
LEMMA OneSplits ==
  ASSUME NEW x, IsFiniteSet(x), NEW p, NEW q, p # q, NEW A, NEW c
  PROVE  LET z == x \ {p, q}
             inP == p \in x /\ c \in A[p]
             inQ == q \in x /\ c \in A[q]
         IN  One(x, A, c) <=> (One(z, A, c) <=> (inP <=> inQ))
<1> DEFINE z == x \ {p, q}
           px == x \cap {p}
           qx == x \cap {q}
<1>1. x = Plus(Plus(z, px), qx)
  BY DEF Plus
<1>2. IsFiniteSet(z) /\ IsFiniteSet(px) /\ IsFiniteSet(qx)
  BY FS_Difference, FS_Intersection
<1>3. IsFiniteSet(Plus(z, px))
  BY <1>2, PlusFinite
<1>4. One(px, A, c) <=> p \in x /\ c \in A[p]
  BY OneOfPart
<1>5. One(qx, A, c) <=> q \in x /\ c \in A[q]
  BY OneOfPart
<1> HIDE DEF z, px, qx
<1>6. One(Plus(z, px), A, c) <=> (One(z, A, c) <=> ~One(px, A, c))
  BY <1>2, OnePlus
<1>7. One(Plus(Plus(z, px), qx), A, c) <=> (One(Plus(z, px), A, c) <=> ~One(qx, A, c))
  BY <1>2, <1>3, OnePlus
<1>8. One(x, A, c) <=> (One(z, A, c) <=> (One(px, A, c) <=> One(qx, A, c)))
  BY <1>1, <1>6, <1>7
<1> QED
  BY <1>4, <1>5, <1>8 DEF z

\* A word makes of the rows exchanged what the word with the two bits exchanged makes of the rows.
Swapped(x, p, q) == IF (p \in x) = (q \in x) THEN x ELSE Plus(x, {p, q})

LEMMA SwapRowsOne ==
  ASSUME NEW A, DOMAIN A = Bit, NEW p \in Bit, NEW q \in Bit, NEW x \in Word
  PROVE  /\ Swapped(x, p, q) \in Word
         /\ x # {} => Swapped(x, p, q) # {}
         /\ \A c : One(x, Slicing!SwapRows(A, p, q), c) <=> One(Swapped(x, p, q), A, c)
<1> DEFINE y == Swapped(x, p, q)
           B == Slicing!SwapRows(A, p, q)
<1>1. \A r \in Bit : B[r] = IF r = p THEN A[q] ELSE IF r = q THEN A[p] ELSE A[r]
  BY DEF Slicing!SwapRows
<1>2. y \in Word /\ (p \in y <=> q \in x) /\ (q \in y <=> p \in x) /\ y \ {p, q} = x \ {p, q}
  BY DEF Swapped, Plus, Word
<1>3. x # {} => y # {}
  BY <1>2
<1>4. ASSUME NEW c PROVE One(x, B, c) <=> One(y, A, c)
  <2>1. CASE p = q
    <3>1. \A r \in Bit : B[r] = A[r]
      BY <1>1, <2>1
    <3>2. y = x
      BY <2>1 DEF Swapped
    <3>3. {r \in x : c \in B[r]} = {r \in x : c \in A[r]}
      BY <3>1 DEF Word
    <3> QED
      BY <3>2, <3>3 DEF One
  <2>2. CASE p # q
    <3> DEFINE z == x \ {p, q}
               bp == p \in x /\ c \in B[p]
               bq == q \in x /\ c \in B[q]
               ap == p \in y /\ c \in A[p]
               aq == q \in y /\ c \in A[q]
    <3>0. IsFiniteSet(x) /\ IsFiniteSet(y)
      BY <1>2, FiniteWords
    <3>1. One(x, B, c) <=> (One(z, B, c) <=> (bp <=> bq))
      BY <2>2, <3>0, OneSplits
    <3>2. One(y, A, c) <=> (One(y \ {p, q}, A, c) <=> (ap <=> aq))
      BY <2>2, <3>0, OneSplits
    <3>3. B[p] = A[q] /\ B[q] = A[p] /\ \A r \in z : B[r] = A[r]
      BY <1>1, <2>2 DEF Word
    <3>4. {r \in z : c \in B[r]} = {r \in z : c \in A[r]}
      BY <3>3
    <3>5. One(z, B, c) <=> One(z, A, c)
      BY <3>4 DEF One
    <3>6. (bp <=> aq) /\ (bq <=> ap) /\ y \ {p, q} = z
      BY <1>2, <3>3
    <3> HIDE DEF z, bp, bq, ap, aq, B, y
    <3> QED
      BY <3>1, <3>2, <3>5, <3>6
  <2> QED
    BY <2>1, <2>2
<1> QED
  BY <1>2, <1>3, <1>4

\* The same of the rows to which row p is added wherever C has a one.
Cleared(x, C, p, c) == IF One(x \ {p}, C, c) THEN Plus(x, {p}) ELSE x

LEMMA EliminatedOne ==
  ASSUME NEW A, NEW C, NEW p \in Bit, NEW col, NEW x \in Word
  PROVE  /\ Cleared(x, C, p, col) \in Word
         /\ x # {} => Cleared(x, C, p, col) # {}
         /\ \A c : One(x, Slicing!Eliminated(A, C, p, col), c) <=> One(Cleared(x, C, p, col), A, c)
<1> DEFINE y == Cleared(x, C, p, col)
           B == Slicing!Eliminated(A, C, p, col)
           Hit == {r \in x \ {p} : col \in C[r]}
<1>1. \A r \in x : B[r] = IF r # p /\ col \in C[r] THEN Plus(A[r], A[p]) ELSE A[r]
  BY SlicingIs DEF Slicing!Eliminated, Word
<1>2. y \in Word
  BY DEF Cleared, Plus, Word
<1>3. Odd(Hit) <=> One(x \ {p}, C, col)
  BY DEF One
<1>4. IsFiniteSet(x) /\ IsFiniteSet(Hit) /\ IsFiniteSet({p})
  BY FiniteWords, FS_Subset, FS_Singleton
<1>5. x # {} => y # {}
  <2> SUFFICES ASSUME x # {}, y = {} PROVE FALSE
    OBVIOUS
  <2>1. x = {p} /\ One(x \ {p}, C, col)
    BY PlusFacts DEF Cleared
  <2>2. x \ {p} = {}
    BY <2>1
  <2> QED
    BY <2>1, <2>2, OneOfNone
<1>6. ASSUME NEW c PROVE One(x, B, c) <=> One(y, A, c)
  <2>1. One(Plus(x, {p}), A, c) <=> (One(x, A, c) <=> ~(c \in A[p]))
    BY <1>4, OnePlus, OneOfUnit
  <2>2. CASE c \notin A[p]
    <3>1. \A r \in x : c \in B[r] <=> c \in A[r]
      BY <1>1, <2>2 DEF Plus
    <3>2. {r \in x : c \in B[r]} = {r \in x : c \in A[r]}
      BY <3>1
    <3>3. One(x, B, c) <=> One(x, A, c)
      BY <3>2 DEF One
    <3> QED
      BY <2>1, <2>2, <3>3 DEF Cleared
  <2>3. CASE c \in A[p]
    <3> DEFINE X == {r \in x : c \in A[r]}
    <3>1. \A r \in x : c \in B[r] <=> (IF r \in Hit THEN r \notin X ELSE r \in X)
      BY <1>1, <2>3 DEF Plus
    <3>2. {r \in x : c \in B[r]} = Plus(X, Hit)
      <4> HIDE DEF B
      <4> QED
        BY <3>1 DEF Plus
    <3>3. IsFiniteSet(X)
      BY <1>4, FS_Subset
    <3> HIDE DEF B
    <3>4. Odd(Plus(X, Hit)) <=> (Odd(X) <=> ~Odd(Hit))
      BY <1>4, <3>3, OddPlus
    <3>5. One(x, A, c) <=> Odd(X)
      BY DEF One
    <3>6. One(x, B, c) <=> Odd(Plus(X, Hit))
      BY <3>2 DEF One
    <3> HIDE DEF X, Hit
    <3> QED
      BY <1>3, <2>1, <2>3, <3>4, <3>5, <3>6 DEF Cleared
  <2> QED
    BY <2>2, <2>3
<1> QED
  BY <1>2, <1>5, <1>6

-----------------------------------------------------------------------------
(* Elimination *)

\* A non-empty set of natural numbers has a smallest one.
LEMMA Least ==
  ASSUME NEW X \in SUBSET Nat, X # {}
  PROVE  \E m \in X : \A k \in X : m <= k
<1> DEFINE Below == {ss \in Nat \X Nat : ss[1] < ss[2]}
<1>1. IsWellFoundedOn(Below, Nat)
  BY NatLessThanWellFounded DEF OpToRel
<1>2. \A w, y \in Nat : w < y => <<w, y>> \in Below
  OBVIOUS
<1> HIDE DEF Below
<1>3. PICK m \in X : \A k \in X : ~(<<k, m>> \in Below)
  BY <1>1, WFMin
<1>4. ASSUME NEW k \in X PROVE m <= k
  <2>1. k \in Nat /\ m \in Nat
    OBVIOUS
  <2>2. ~(k < m)
    BY <1>2, <1>3, <2>1
  <2> QED
    BY <2>1, <2>2
<1> QED
  BY <1>4

LEMMA MinIs ==
  ASSUME NEW X \in SUBSET Nat, X # {}
  PROVE  Slicing!Min(X) \in X /\ \A y \in X : Slicing!Min(X) <= y
BY Least DEF Slicing!Min

\* Rows p and q are exchanged, and then row q is added wherever column q of C has a one.
Pivoted(A, C, p, q) == Slicing!Eliminated(Slicing!SwapRows(A, p, q), Slicing!SwapRows(C, p, q), q, q)

\* The rows A make of x what the rows B make of y.
Mimics(x, A, y, B) == \A c : One(x, A, c) <=> One(y, B, c)

\* It makes of a word what the array had made of another, which is not zero when that one is not.
LEMMA PivotedOne ==
  ASSUME NEW A, NEW B, DOMAIN A = Bit, DOMAIN B = Bit, NEW p \in Bit, NEW q \in Bit, NEW x \in Word
  PROVE  \E y \in Word :
             /\ x # {} => y # {}
             /\ Mimics(x, Pivoted(A, A, p, q), y, A)
             /\ Mimics(x, Pivoted(B, A, p, q), y, B)
<1> DEFINE C == Slicing!SwapRows(A, p, q)
           D == Slicing!SwapRows(B, p, q)
           z == Cleared(x, C, q, q)
           y == Swapped(z, p, q)
<1>1. /\ z \in Word /\ (x # {} => z # {})
      /\ \A c : One(x, Pivoted(A, A, p, q), c) <=> One(z, C, c)
  BY EliminatedOne DEF Pivoted
<1>2. \A c : One(x, Pivoted(B, A, p, q), c) <=> One(z, D, c)
  BY EliminatedOne DEF Pivoted
<1> HIDE DEF z, C, D
<1>3. /\ y \in Word /\ (z # {} => y # {})
      /\ \A c : One(z, C, c) <=> One(y, A, c)
  BY <1>1, SwapRowsOne DEF C
<1>4. \A c : One(z, D, c) <=> One(y, B, c)
  BY <1>1, SwapRowsOne DEF D
<1> HIDE DEF y
<1> QED
  BY <1>1, <1>2, <1>3, <1>4 DEF Mimics

LEMMA SwapRowsIs ==
  ASSUME NEW A, DOMAIN A = Bit, NEW p \in Bit, NEW q \in Bit, NEW r \in Bit
  PROVE  Slicing!SwapRows(A, p, q)[r] = IF r = p THEN A[q] ELSE IF r = q THEN A[p] ELSE A[r]
BY DEF Slicing!SwapRows

LEMMA PivotedRows ==
  ASSUME NEW A, NEW C, NEW p, NEW q, NEW r \in Bit, NEW B, B = Slicing!SwapRows(A, p, q)
  PROVE  Pivoted(A, C, p, q)[r] =
             IF r # q /\ q \in Slicing!SwapRows(C, p, q)[r] THEN Plus(B[r], B[q]) ELSE B[r]
BY SlicingIs DEF Pivoted, Slicing!Eliminated

LEMMA PivotedType ==
  ASSUME NEW X, NEW A \in [Bit -> SUBSET X], NEW C, DOMAIN C = Bit, NEW p \in Bit, NEW q \in Bit
  PROVE  Pivoted(A, C, p, q) \in [Bit -> SUBSET X]
<1> DEFINE B == Slicing!SwapRows(A, p, q)
           N == Slicing!SwapRows(C, p, q)
           Q0 == Pivoted(A, C, p, q)
<1>1. \A r \in Bit : B[r] \in SUBSET X
  BY SwapRowsIs
<1>2. \A r \in Bit : Q0[r] = IF r # q /\ q \in N[r] THEN Plus(B[r], B[q]) ELSE B[r]
  BY PivotedRows
<1>3. ASSUME NEW r \in Bit PROVE Q0[r] \in SUBSET X
  <2>1. B[r] \in SUBSET X /\ B[q] \in SUBSET X
    BY <1>1
  <2> HIDE DEF B, N, Q0
  <2> QED
    BY <1>2, <2>1 DEF Plus
<1>4. Q0 = [r \in Bit |-> Q0[r]]
  BY DEF Pivoted, Slicing!Eliminated, Bit, Slicing!Bit
<1> QED
  BY <1>3, <1>4

\* It makes column q one of the identity and keeps those before it.
LEMMA PivotedUnit ==
  ASSUME NEW A, DOMAIN A = Bit, NEW q \in Bit, UnitColumns(A, q), NEW p \in q .. W - 1, q \in A[p]
  PROVE  UnitColumns(Pivoted(A, A, p, q), q + 1)
<1> DEFINE B == Slicing!SwapRows(A, p, q)
           Q0 == Pivoted(A, A, p, q)
<1>0. p \in Bit /\ W \in Nat /\ q \in Nat
  BY SlicerAssumed DEF Bit
<1>1. \A r \in Bit : /\ B[r] = IF r = p THEN A[q] ELSE IF r = q THEN A[p] ELSE A[r]
                     /\ Q0[r] = IF r # q /\ q \in B[r] THEN Plus(B[r], B[q]) ELSE B[r]
  BY <1>0, PivotedRows, SwapRowsIs
<1> HIDE DEF B, Q0
<1>2. ASSUME NEW c \in 0 .. q - 1, NEW r \in Bit PROVE c \in B[r] <=> r = c
  <2>1. c # p /\ c # q
    BY <1>0
  <2>2. c \notin A[p] /\ c \notin A[q] /\ (c \in A[r] <=> r = c)
    BY <1>0, <2>1 DEF UnitColumns
  <2> QED
    BY <1>1, <2>1, <2>2
<1>3. q \in B[q]
  BY <1>0, <1>1
<1>4. ASSUME NEW c \in 0 .. q, NEW r \in Bit PROVE c \in Q0[r] <=> r = c
  <2>1. CASE c = q
    <3>1. Q0[r] = IF r # q /\ q \in B[r] THEN Plus(B[r], B[q]) ELSE B[r]
      BY <1>1
    <3> QED
      BY <1>3, <2>1, <3>1 DEF Plus
  <2>2. CASE c # q
    <3>1. c \in 0 .. q - 1 /\ q \in Bit
      BY <1>0, <2>2
    <3>2. (c \in B[r] <=> r = c) /\ ~(c \in B[q])
      BY <1>2, <2>2, <3>1
    <3>3. Q0[r] = IF r # q /\ q \in B[r] THEN Plus(B[r], B[q]) ELSE B[r]
      BY <1>1
    <3> QED
      BY <3>2, <3>3 DEF Plus
  <2> QED
    BY <2>1, <2>2
<1>5. 0 .. (q + 1) - 1 = 0 .. q
  BY <1>0
<1> QED
  BY <1>4, <1>5 DEF UnitColumns, Q0

\* Two columns are exchanged.
Other(c, u, v) == IF c = u THEN v ELSE IF c = v THEN u ELSE c

LEMMA SwapColumnsIs ==
  ASSUME rows \in [Bit -> SUBSET Nat], NEW u \in Nat, NEW v \in Nat
  PROVE  /\ Slicing!swap_columns(u, v) \in [Bit -> SUBSET Nat]
         /\ \A r \in Bit : \A c : c \in Slicing!swap_columns(u, v)[r] <=> Other(c, u, v) \in rows[r]
<1> DEFINE B == Slicing!swap_columns(u, v)
<1>1. B = [r \in Bit |-> IF (u \in rows[r]) = (v \in rows[r]) THEN rows[r] ELSE Plus(rows[r], {u, v})]
  BY SlicingIs DEF Slicing!swap_columns
<1>2. \A r \in Bit : rows[r] \in SUBSET Nat
  OBVIOUS
<1>3. \A r \in Bit : B[r] \in SUBSET Nat
  BY <1>1, <1>2 DEF Plus
<1>4. ASSUME NEW r \in Bit, NEW c PROVE c \in B[r] <=> Other(c, u, v) \in rows[r]
  <2>1. B[r] = IF (u \in rows[r]) = (v \in rows[r]) THEN rows[r] ELSE Plus(rows[r], {u, v})
    BY <1>1
  <2> HIDE DEF B
  <2> QED
    BY <2>1 DEF Other, Plus
<1>5. B = [r \in Bit |-> B[r]]
  BY <1>1
<1> QED
  BY <1>3, <1>4, <1>5

LEMMA SwapColumnsOne ==
  ASSUME rows \in [Bit -> SUBSET Nat], NEW u \in Nat, NEW v \in Nat, NEW x \in Word, NEW c
  PROVE  One(x, Slicing!swap_columns(u, v), c) <=> One(x, rows, Other(c, u, v))
<1>1. {r \in x : c \in Slicing!swap_columns(u, v)[r]} = {r \in x : Other(c, u, v) \in rows[r]}
  BY SwapColumnsIs DEF Word
<1> QED
  BY <1>1 DEF One

-----------------------------------------------------------------------------
(* echelonize *)

Identity == [r \in Bit |-> {r}]

LEMMA IdentityIs ==
  /\ Identity \in [Bit -> Word]
  /\ \A x \in Word : Times(x, Identity) = x
  /\ Independent(Identity)
<1>1. Identity \in [Bit -> Word]
  BY DEF Identity, Word
<1>2. ASSUME NEW x \in Word, NEW c \in Bit PROVE One(x, Identity, c) <=> c \in x
  <2>1. {r \in x : c \in Identity[r]} = x \cap {c}
    BY DEF Identity, Word
  <2>2. x \cap {c} = IF c \in x THEN {c} ELSE {}
    OBVIOUS
  <2>3. Odd(x \cap {c}) <=> c \in x
    <3>1. CASE c \in x
      BY <2>2, <3>1, OddFew
    <3>2. CASE c \notin x
      BY <2>2, <3>2, OddFew
    <3> QED
      BY <3>1, <3>2
  <2> QED
    BY <2>1, <2>3 DEF One
<1>3. \A x \in Word : Times(x, Identity) = x
  BY <1>2 DEF Times, Word
<1> QED
  BY <1>1, <1>3 DEF Independent, Identity, Word

LEMMA EchelonStarts ==
  ASSUME NEW v \in Seq(Word)
  PROVE  /\ Slicing!transpose(v) \in [Bit -> SUBSET Nat]
         /\ Echelon(v, Slicing!transpose(v), Identity, 0, 1, RandomTrials)
<1> DEFINE A == Slicing!transpose(v)
           perm == [c \in Column(v) |-> c]
<1>1. A = [r \in Bit |-> {c \in Column(v) : r \in v[c + 1]}]
  BY SlicingIs DEF Slicing!transpose, Column
<1>2. A \in [Bit -> SUBSET Nat] /\ \A r \in Bit : A[r] \subseteq Column(v)
  BY <1>1 DEF Column
<1>3. perm \in [Column(v) -> Column(v)] /\ Column(v) = {perm[c] : c \in Column(v)}
  OBVIOUS
<1>4. ASSUME NEW x \in Word, NEW c \in Column(v)
      PROVE  One(x, A, c) <=> Odd(Times(x, Identity) \cap v[perm[c] + 1])
  <2>1. {r \in x : c \in A[r]} = x \cap v[c + 1]
    BY <1>1 DEF Word
  <2>2. Times(x, Identity) = x /\ perm[c] = c
    BY IdentityIs
  <2> HIDE DEF A, perm
  <2> QED
    BY <2>1, <2>2 DEF One
<1> HIDE DEF A, perm
<1>5. Transformed(perm, v, A, Identity)
  BY <1>3, <1>4 DEF Transformed
<1>6. UnitColumns(A, 0) /\ \A c \in 1 .. 0 : FALSE
  BY DEF UnitColumns
<1>7. Echelon(v, A, Identity, 0, 1, RandomTrials)
  BY <1>2, <1>3, <1>5, <1>6, IdentityIs DEF Echelon
<1> QED
  BY <1>2, <1>7 DEF A

LEMMA IndependentStays ==
  ASSUME NEW A, NEW B, DOMAIN A = Bit, DOMAIN B = Bit, Independent(B), NEW p \in Bit, NEW q \in Bit
  PROVE  Independent(Pivoted(B, A, p, q))
<1> DEFINE N == Pivoted(B, A, p, q)
<1>1. DOMAIN N = Bit
  BY SlicingIs DEF Pivoted, Slicing!Eliminated
<1>2. ASSUME NEW x \in Word, x # {} PROVE Times(x, N) # {}
  <2>1. PICK y \in Word : /\ x # {} => y # {}
                          /\ Mimics(x, Pivoted(A, A, p, q), y, A)
                          /\ Mimics(x, Pivoted(B, A, p, q), y, B)
    BY PivotedOne
  <2>2. Times(y, B) # {}
    BY <1>2, <2>1 DEF Independent, Word
  <2>3. Times(x, N) = Times(y, B)
    BY <2>1 DEF Times, Mimics
  <2> QED
    BY <2>2, <2>3
<1> QED
  BY <1>1, <1>2 DEF Independent, Word

LEMMA EchelonPivots ==
  ASSUME NEW v \in Seq(Word), NEW A \in [Bit -> SUBSET Nat], NEW B \in [Bit -> Word], NEW n \in Bit,
         NEW sc, NEW tr, Echelon(v, A, B, n, sc, tr), NEW p \in n .. W - 1, n \in A[p]
  PROVE  Echelon(v, Pivoted(A, A, p, n), Pivoted(B, A, p, n), n + 1, n + 2, tr)
<1> DEFINE A1 == Pivoted(A, A, p, n)
           B1 == Pivoted(B, A, p, n)
<1>0. p \in Bit /\ W \in Nat /\ n \in Nat /\ n + 2 >= (n + 1) + 1 /\ ~(n + 2 > (n + 1) + 1)
  BY SlicerAssumed DEF Bit
<1>1. UnitColumns(A1, n + 1)
  BY PivotedUnit DEF Echelon
<1>2. A \in [Bit -> SUBSET Column(v)]
  BY DEF Echelon
<1>3. \A r \in Bit : A1[r] \subseteq Column(v)
  <2>1. A1 \in [Bit -> SUBSET Column(v)]
    BY <1>0, <1>2, PivotedType
  <2> QED
    BY <2>1
<1>4. Independent(B1)
  BY <1>0, IndependentStays DEF Echelon
<1>5. PICK perm \in [Column(v) -> Column(v)] : Transformed(perm, v, A, B)
  BY DEF Echelon
<1>6. ASSUME NEW x \in Word, NEW c \in Column(v)
      PROVE  One(x, A1, c) <=> Odd(Times(x, B1) \cap v[perm[c] + 1])
  <2>0. DOMAIN A = Bit /\ DOMAIN B = Bit
    OBVIOUS
  <2>1. PICK y \in Word : /\ x # {} => y # {}
                          /\ Mimics(x, Pivoted(A, A, p, n), y, A)
                          /\ Mimics(x, Pivoted(B, A, p, n), y, B)
    BY <1>0, <2>0, PivotedOne
  <2>2. Times(x, B1) = Times(y, B)
    BY <2>1 DEF Times, Mimics
  <2>3. One(y, A, c) <=> Odd(Times(y, B) \cap v[perm[c] + 1])
    BY <1>5 DEF Transformed
  <2> QED
    BY <2>1, <2>2, <2>3 DEF Mimics
<1> HIDE DEF A1, B1
<1>7. Transformed(perm, v, A1, B1)
  BY <1>5, <1>6 DEF Transformed
<1>8. \A c \in (n + 1) + 1 .. (n + 2) - 1 : FALSE
  BY <1>0
<1>9. Echelon(v, A1, B1, n + 1, n + 2, tr)
  BY <1>0, <1>1, <1>3, <1>4, <1>7, <1>8 DEF Echelon
<1> QED
  BY <1>9 DEF A1, B1

LEMMA EchelonSwaps ==
  ASSUME rows \in [Bit -> SUBSET Nat], NEW v \in Seq(Word), NEW B \in [Bit -> Word], NEW n \in Nat,
         NEW sc \in Nat, NEW tr \in Nat, Echelon(v, rows, B, n, sc, tr),
         \A r \in n .. W - 1 : n \notin rows[r],
         NEW o \in n + 1 .. Len(v) - 1, NEW sc2 \in Nat, NEW tr2 \in Nat,
         \/ tr > 0 /\ n + 1 < Len(v) /\ sc2 = sc /\ tr2 = tr - 1
         \/ ~(tr > 0 /\ n + 1 < Len(v)) /\ o = sc /\ sc2 = sc + 1 /\ tr2 = tr
  PROVE  Echelon(v, Slicing!swap_columns(n, o), B, n, sc2, tr2)
<1> DEFINE A == Slicing!swap_columns(n, o)
<1>0. /\ Len(v) \in Nat /\ o \in Nat /\ n < o /\ n \in Column(v) /\ o \in Column(v)
      /\ \A c \in Column(v) : Other(c, n, o) \in Column(v) /\ Other(Other(c, n, o), n, o) = c
  BY DEF Column, Other
<1>1. \A r \in Bit : \A c : c \in A[r] <=> Other(c, n, o) \in rows[r]
  BY <1>0, SwapColumnsIs
<1>2. \A x \in Word : \A c : One(x, A, c) <=> One(x, rows, Other(c, n, o))
  BY <1>0, SwapColumnsOne
<1> HIDE DEF A
<1>3. UnitColumns(A, n)
  <2>1. ASSUME NEW c \in 0 .. n - 1, NEW r \in Bit PROVE c \in A[r] <=> r = c
    <3>1. Other(c, n, o) = c
      BY <1>0 DEF Other
    <3>2. c \in rows[r] <=> r = c
      BY DEF Echelon, UnitColumns
    <3> QED
      BY <1>1, <3>1, <3>2
  <2> QED
    BY <2>1 DEF UnitColumns
<1>4. \A r \in Bit : A[r] \subseteq Column(v)
  <2>1. ASSUME NEW r \in Bit, NEW c \in A[r] PROVE c \in Column(v)
    <3>1. Other(c, n, o) \in Column(v)
      BY <1>1 DEF Echelon
    <3> QED
      BY <1>0, <3>1 DEF Other
  <2> QED
    BY <2>1
<1>5. sc2 >= n + 1 /\ (sc2 > n + 1 => tr2 = 0 \/ n + 1 >= Len(v))
  <2>1. sc >= n + 1 /\ (sc > n + 1 => tr = 0 \/ n + 1 >= Len(v))
    BY DEF Echelon
  <2>2. CASE tr > 0 /\ n + 1 < Len(v) /\ sc2 = sc /\ tr2 = tr - 1
    BY <1>0, <2>1, <2>2
  <2>3. CASE ~(tr > 0 /\ n + 1 < Len(v)) /\ o = sc /\ sc2 = sc + 1 /\ tr2 = tr
    BY <1>0, <2>1, <2>3
  <2> QED
    BY <2>2, <2>3
<1>6. ASSUME NEW c \in n + 1 .. sc2 - 1, NEW r \in n .. W - 1 PROVE c \notin A[r]
  <2>0. r \in Bit /\ c \in Nat
    BY SlicerAssumed DEF Bit
  <2>1. sc >= n + 1 /\ (sc > n + 1 => tr = 0 \/ n + 1 >= Len(v))
    BY DEF Echelon
  <2>2. \A e \in n + 1 .. sc - 1 : e \notin rows[r]
    BY DEF Echelon
  <2>3. CASE tr > 0 /\ n + 1 < Len(v) /\ sc2 = sc /\ tr2 = tr - 1
    BY <1>0, <2>1, <2>3
  <2>4. CASE ~(tr > 0 /\ n + 1 < Len(v)) /\ o = sc /\ sc2 = sc + 1 /\ tr2 = tr
    <3>1. CASE c = sc
      <4>1. Other(c, n, o) = n
        BY <1>0, <2>4, <3>1 DEF Other
      <4> QED
        BY <1>1, <2>0, <4>1
    <3>2. CASE c # sc
      <4>1. Other(c, n, o) = c /\ c \in n + 1 .. sc - 1
        BY <1>0, <2>4, <3>2 DEF Other
      <4> QED
        BY <1>1, <2>0, <2>2, <4>1
    <3> QED
      BY <3>1, <3>2
  <2> QED
    BY <2>3, <2>4
<1>7. PICK perm \in [Column(v) -> Column(v)] : Transformed(perm, v, rows, B)
  BY DEF Echelon
<1> DEFINE perm2 == [c \in Column(v) |-> perm[Other(c, n, o)]]
<1>8. perm2 \in [Column(v) -> Column(v)]
  BY <1>0
<1>9. Column(v) = {perm2[c] : c \in Column(v)}
  <2>1. \A c \in Column(v) : perm2[Other(c, n, o)] = perm[c]
    BY <1>0
  <2>2. Column(v) = {perm[c] : c \in Column(v)}
    BY <1>7 DEF Transformed
  <2> HIDE DEF perm2
  <2>3. \A y \in Column(v) : \E c \in Column(v) : y = perm2[c]
    BY <1>0, <2>1, <2>2
  <2> QED
    BY <1>8, <2>3
<1>10. ASSUME NEW x \in Word, NEW c \in Column(v)
       PROVE  One(x, A, c) <=> Odd(Times(x, B) \cap v[perm2[c] + 1])
  <2>1. One(x, rows, Other(c, n, o)) <=> Odd(Times(x, B) \cap v[perm[Other(c, n, o)] + 1])
    BY <1>0, <1>7 DEF Transformed
  <2>2. perm2[c] = perm[Other(c, n, o)]
    OBVIOUS
  <2> HIDE DEF perm2
  <2> QED
    BY <1>2, <2>1, <2>2
<1> HIDE DEF perm2
<1>11. Transformed(perm2, v, A, B)
  BY <1>9, <1>10 DEF Transformed
<1>12. Independent(B)
  BY DEF Echelon
<1>13. Echelon(v, A, B, n, sc2, tr2)
  BY <1>3, <1>4, <1>5, <1>6, <1>8, <1>11, <1>12 DEF Echelon
<1> QED
  BY <1>13 DEF A

-----------------------------------------------------------------------------
(* What echelonized vectors tell *)

\* When no column is left to try the rows without a pivot are zero.
LEMMA EchelonEnds ==
  ASSUME NEW v \in Seq(Word), NEW A, NEW B, NEW n \in 0 .. W, NEW sc \in Nat, NEW tr \in Nat,
         Echelon(v, A, B, n, sc, tr), \A r \in n .. W - 1 : n \notin A[r],
         ~(tr > 0 /\ n + 1 < Len(v)), sc >= Len(v)
  PROVE  \A r \in n .. W - 1 : A[r] = {}
<1> SUFFICES ASSUME NEW r \in n .. W - 1, NEW c \in A[r] PROVE FALSE
  OBVIOUS
<1>0. W \in Nat /\ Len(v) \in Nat
  BY SlicerAssumed
<1>1. r \in Bit /\ r \in Nat /\ r >= n
  BY <1>0 DEF Bit
<1>2. c \in 0 .. Len(v) - 1
  BY <1>1 DEF Echelon, Column
<1>3. CASE c < n
  <2>1. c \in 0 .. n - 1
    BY <1>2, <1>3
  <2>2. r = c
    BY <1>1, <2>1 DEF Echelon, UnitColumns
  <2> QED
    BY <1>0, <1>1, <1>3, <2>2
<1>4. CASE c = n
  BY <1>4
<1>5. CASE c > n
  <2>1. c \in n + 1 .. sc - 1
    BY <1>0, <1>2, <1>5
  <2> QED
    BY <2>1 DEF Echelon
<1> QED
  BY <1>2, <1>3, <1>4, <1>5

LEMMA PivotsFit ==
  ASSUME NEW v \in Seq(Word), NEW A, NEW B, NEW n \in 0 .. W, NEW sc, NEW tr, Echelon(v, A, B, n, sc, tr)
  PROVE  n <= Len(v)
<1> SUFFICES ASSUME n > 0 PROVE n <= Len(v)
  OBVIOUS
<1>1. n - 1 \in Bit /\ n - 1 \in 0 .. n - 1 /\ Len(v) \in Nat /\ n \in Nat
  BY SlicerAssumed DEF Bit
<1>2. n - 1 \in A[n - 1]
  BY <1>1 DEF Echelon, UnitColumns
<1>3. n - 1 \in Column(v)
  BY <1>1, <1>2 DEF Echelon
<1> QED
  BY <1>1, <1>3 DEF Column

\* A selection of the rows of B is an equation of all vectors when it makes zero of the rows of A.
LEMMA DualIs ==
  ASSUME NEW v \in Seq(Word), NEW A, NEW B, NEW n, NEW sc, NEW tr, Echelon(v, A, B, n, sc, tr),
         NEW y \in Word
  PROVE  Times(y, B) \in Dual(Of(v)) <=> \A c \in Column(v) : ~One(y, A, c)
<1>1. PICK perm \in [Column(v) -> Column(v)] : Transformed(perm, v, A, B)
  BY DEF Echelon
<1>2. \A u \in Of(v) : \E c \in Column(v) : u = v[c + 1]
  <2> SUFFICES ASSUME NEW k \in DOMAIN v PROVE k - 1 \in Column(v) /\ v[k] = v[(k - 1) + 1]
    BY DEF Of
  <2> QED
    BY DEF Column
<1>3. \A c \in Column(v) : v[c + 1] \in Of(v)
  BY DEF Column, Of
<1>4. \A u \in Of(v) : \E c \in Column(v) : u = v[perm[c] + 1]
  BY <1>1, <1>2 DEF Transformed
<1>5. \A c \in Column(v) : v[perm[c] + 1] \in Of(v)
  BY <1>3
<1>6. \A c \in Column(v) : One(y, A, c) <=> Odd(v[perm[c] + 1] \cap Times(y, B))
  <2>1. \A c \in Column(v) : v[perm[c] + 1] \cap Times(y, B) = Times(y, B) \cap v[perm[c] + 1]
    OBVIOUS
  <2> QED
    BY <1>1, <2>1 DEF Transformed
<1>7. Times(y, B) \in Word
  BY TimesType
<1> QED
  BY <1>4, <1>5, <1>6, <1>7 DEF Dual

\* Such a selection has none of the rows with a pivot.
LEMMA UnitOne ==
  ASSUME NEW A, NEW n \in 0 .. W, UnitColumns(A, n), NEW y \in Word, NEW c \in 0 .. n - 1
  PROVE  One(y, A, c) <=> c \in y
<1>1. {r \in y : c \in A[r]} = IF c \in y THEN {c} ELSE {}
  BY DEF UnitColumns, Word
<1> QED
  BY <1>1, OddFew DEF One

LEMMA DualSelects ==
  ASSUME NEW v \in Seq(Word), NEW A, NEW B, NEW n \in 0 .. W, NEW sc, NEW tr, Echelon(v, A, B, n, sc, tr),
         NEW y \in Word, Times(y, B) \in Dual(Of(v))
  PROVE  y \in SUBSET (n .. W - 1)
<1>1. n <= Len(v) /\ W \in Nat /\ Len(v) \in Nat
  BY PivotsFit, SlicerAssumed
<1>2. ASSUME NEW c \in y, c < n PROVE FALSE
  <2>1. c \in 0 .. n - 1 /\ c \in Column(v)
    BY <1>1, <1>2 DEF Word, Bit, Column
  <2>2. One(y, A, c)
    BY <2>1, UnitOne DEF Echelon
  <2> QED
    BY <2>1, <2>2, DualIs
<1> QED
  BY <1>1, <1>2 DEF Word, Bit

LEMMA ZeroRowsDual ==
  ASSUME NEW v \in Seq(Word), NEW A, NEW B, NEW n \in 0 .. W, NEW sc, NEW tr, Echelon(v, A, B, n, sc, tr),
         \A r \in n .. W - 1 : A[r] = {}, NEW y \in SUBSET (n .. W - 1)
  PROVE  y \in Word /\ Times(y, B) \in Dual(Of(v))
<1>1. y \in Word
  BY SlicerAssumed DEF Word, Bit
<1>2. ASSUME NEW c PROVE ~One(y, A, c)
  <2>1. {r \in y : c \in A[r]} = {}
    OBVIOUS
  <2> QED
    BY <2>1, OddFew DEF One
<1> QED
  BY <1>1, <1>2, DualIs

LEMMA SelectionsFinite ==
  ASSUME NEW n \in 0 .. W
  PROVE  /\ IsFiniteSet(n .. W - 1) /\ Cardinality(n .. W - 1) = W - n
         /\ IsFiniteSet(SUBSET (n .. W - 1))
<1>1. n \in Int /\ W - 1 \in Int /\ (W - 1) - n + 1 = W - n /\ (n > W - 1 => W - n = 0)
  BY SlicerAssumed
<1>2. IsFiniteSet(n .. W - 1) /\ Cardinality(n .. W - 1) = W - n
  BY <1>1, FS_Interval
<1> QED
  BY <1>2, FS_SUBSET

LEMMA EquationsSpan ==
  ASSUME NEW eqs \in Seq(Word), Independent(eqs)
  PROVE  /\ IsFiniteSet(Span(eqs)) /\ Cardinality(Span(eqs)) = Cardinality(SUBSET (1 .. Len(eqs)))
         /\ IsFiniteSet(1 .. Len(eqs)) /\ Cardinality(1 .. Len(eqs)) = Len(eqs)
<1>1. DOMAIN eqs = 1 .. Len(eqs) /\ Len(eqs) \in Nat
  OBVIOUS
<1>2. IsFiniteSet(1 .. Len(eqs)) /\ Cardinality(1 .. Len(eqs)) = Len(eqs)
  BY <1>1, FS_Interval
<1> QED
  BY <1>1, <1>2, SpanSize

\* There are no fewer pivots than the equations leave room for.
LEMMA RankEnough ==
  ASSUME NEW v \in Seq(Word), NEW A, NEW B \in [Bit -> Word], NEW n \in 0 .. W, NEW sc, NEW tr,
         Echelon(v, A, B, n, sc, tr), \A r \in n .. W - 1 : A[r] = {},
         NEW eqs \in Seq(Word), Independent(eqs), Dual(Of(v)) = Span(eqs)
  PROVE  W - n <= Len(eqs)
<1> DEFINE f == [y \in SUBSET (n .. W - 1) |-> Times(y, B)]
<1>1. f \in [SUBSET (n .. W - 1) -> Span(eqs)]
  BY ZeroRowsDual
<1>2. ASSUME NEW y \in SUBSET (n .. W - 1), NEW z \in SUBSET (n .. W - 1), f[y] = f[z] PROVE y = z
  <2>1. y \in Word /\ z \in Word /\ Times(y, B) = Times(z, B)
    BY <1>2, ZeroRowsDual
  <2> QED
    BY <2>1, Injective, FiniteWords DEF Echelon, Word
<1>3. f \in Injection(SUBSET (n .. W - 1), Span(eqs))
  BY <1>1, <1>2 DEF Injection, IsInjective
<1>4. Cardinality(SUBSET (n .. W - 1)) <= Cardinality(SUBSET (1 .. Len(eqs)))
  BY <1>3, EquationsSpan, FS_Injection
<1> QED
  BY <1>4, PowerSizes, SelectionsFinite, EquationsSpan

\* With as many the other rows are zero.
LEMMA RankExact ==
  ASSUME NEW v \in Seq(Word), NEW A, NEW B \in [Bit -> Word], NEW n \in 0 .. W, NEW sc, NEW tr,
         Echelon(v, A, B, n, sc, tr),
         NEW eqs \in Seq(Word), Independent(eqs), Dual(Of(v)) = Span(eqs), n = W - Len(eqs)
  PROVE  \A r \in n .. W - 1 : A[r] = {}
<1> DEFINE Y == {y \in Word : Times(y, B) \in Span(eqs)}
           f == [y \in Y |-> Times(y, B)]
<1>1. Y \in SUBSET (SUBSET (n .. W - 1))
  BY DualSelects
<1>2. IsFiniteSet(Y)
  BY <1>1, SelectionsFinite, FS_Subset
<1>3. f \in [Y -> Span(eqs)]
  OBVIOUS
<1>4. \A z \in Span(eqs) : \E y \in Y : f[y] = z
  <2> SUFFICES ASSUME NEW z \in Span(eqs) PROVE \E y \in Y : f[y] = z
    OBVIOUS
  <2>1. z \in Word
    BY DEF Dual
  <2>2. PICK y \in Word : Times(y, B) = z
    BY <2>1, Onto DEF Echelon
  <2> QED
    BY <2>2
<1>5. f \in Surjection(Y, Span(eqs))
  BY <1>3, <1>4 DEF Surjection
<1>6. Cardinality(Span(eqs)) <= Cardinality(Y)
  BY <1>2, <1>5, FS_Surjection
<1>7. Cardinality(SUBSET (1 .. Len(eqs))) = Cardinality(SUBSET (n .. W - 1))
  <2>1. W - n = Len(eqs) /\ Len(eqs) \in Nat
    BY SlicerAssumed
  <2>2. Cardinality(1 .. Len(eqs)) = Cardinality(n .. W - 1)
    BY <2>1, EquationsSpan, SelectionsFinite
  <2> QED
    BY <2>2, EquationsSpan, SelectionsFinite, FS_SUBSET
<1> HIDE DEF Y, f
<1>8. Cardinality(SUBSET (n .. W - 1)) = Cardinality(Y)
  <2>1. Cardinality(Y) <= Cardinality(SUBSET (n .. W - 1))
    BY <1>1, SelectionsFinite, FS_Subset
  <2>2. Cardinality(SUBSET (n .. W - 1)) <= Cardinality(Y)
    BY <1>6, <1>7, EquationsSpan
  <2>3. Cardinality(Y) \in Nat /\ Cardinality(SUBSET (n .. W - 1)) \in Nat
    BY <1>2, SelectionsFinite, FS_CardinalityType
  <2> QED
    BY <2>1, <2>2, <2>3
<1>9. Y = SUBSET (n .. W - 1)
  BY <1>1, <1>8, SelectionsFinite, FS_Subset
<1> SUFFICES ASSUME NEW r \in n .. W - 1, NEW c \in A[r] PROVE FALSE
  OBVIOUS
<1>10. {r} \in Word /\ Times({r}, B) \in Dual(Of(v))
  BY <1>9 DEF Y
<1>11. r \in Bit
  BY SlicerAssumed DEF Bit
<1>12. c \in Column(v)
  BY <1>11 DEF Echelon
<1>13. One({r}, A, c)
  BY OneOfUnit
<1> QED
  BY <1>10, <1>12, <1>13, DualIs

-----------------------------------------------------------------------------
(* Equations *)

\* The rows of B from row n on, and the bits of a word from n on as a selection of these.
FreeRows(B, n) == [r \in 1 .. W - n |-> B[n + r - 1]]
Shifted(x, n) == {n + r - 1 : r \in x}

LEMMA ShiftedOne ==
  ASSUME NEW B, NEW n \in 0 .. W, NEW x \in SUBSET (1 .. W - n), NEW c
  PROVE  /\ Shifted(x, n) \in SUBSET (n .. W - 1)
         /\ One(x, FreeRows(B, n), c) <=> One(Shifted(x, n), B, c)
<1> DEFINE X == {r \in x : c \in FreeRows(B, n)[r]}
           Y == {r \in Shifted(x, n) : c \in B[r]}
           f == [r \in X |-> n + r - 1]
<1>0. W \in Nat /\ n \in Nat
  BY SlicerAssumed
<1>1. Shifted(x, n) \in SUBSET (n .. W - 1)
  BY <1>0 DEF Shifted
<1>2. \A r \in x : FreeRows(B, n)[r] = B[n + r - 1] /\ r \in Nat
  BY <1>0 DEF FreeRows
<1>3. \A r \in X : n + r - 1 \in Y
  BY <1>2 DEF Shifted
<1>4. \A s \in Y : \E r \in X : s = n + r - 1
  BY <1>2 DEF Shifted
<1>5. \A r, s \in X : n + r - 1 = n + s - 1 => r = s
  BY <1>0, <1>2
<1>6. IsFiniteSet(X)
  <2>1. IsFiniteSet(1 .. W - n)
    <3>1. 1 \in Int /\ W - n \in Int
      BY <1>0
    <3> QED
      BY <3>1, FS_Interval
  <2>2. X \in SUBSET (1 .. W - n)
    OBVIOUS
  <2> QED
    BY <2>1, <2>2, FS_Subset
<1> HIDE DEF X, Y
<1>7. f \in Bijection(X, Y)
  BY <1>3, <1>4, <1>5 DEF Bijection, Injection, Surjection, IsInjective
<1>8. ExistsBijection(X, Y)
  BY <1>7 DEF ExistsBijection
<1>9. Cardinality(X) = Cardinality(Y)
  BY <1>6, <1>8, FS_Bijection
<1> QED
  BY <1>1, <1>9 DEF One, Odd, X, Y

LEMMA ShiftedTimes ==
  ASSUME NEW B, NEW n \in 0 .. W, NEW x \in SUBSET (1 .. W - n)
  PROVE  /\ Shifted(x, n) \in SUBSET (n .. W - 1)
         /\ x # {} => Shifted(x, n) # {}
         /\ Times(x, FreeRows(B, n)) = Times(Shifted(x, n), B)
<1>1. Shifted(x, n) \in SUBSET (n .. W - 1)
  BY ShiftedOne
<1>2. \A c : One(x, FreeRows(B, n), c) <=> One(Shifted(x, n), B, c)
  BY ShiftedOne
<1>3. x # {} => Shifted(x, n) # {}
  BY DEF Shifted
<1> QED
  BY <1>1, <1>2, <1>3 DEF Times

LEMMA Unshifted ==
  ASSUME NEW n \in 0 .. W, NEW y \in SUBSET (n .. W - 1)
  PROVE  \E x \in SUBSET (1 .. W - n) : Shifted(x, n) = y
<1> DEFINE x == {r \in 1 .. W - n : n + r - 1 \in y}
<1>1. \A s \in n .. W - 1 : s - n + 1 \in 1 .. W - n /\ n + (s - n + 1) - 1 = s
  BY SlicerAssumed
<1>2. Shifted(x, n) \subseteq y
  BY DEF Shifted
<1>3. ASSUME NEW s \in y PROVE s \in Shifted(x, n)
  <2>1. s - n + 1 \in x /\ s = n + (s - n + 1) - 1
    BY <1>1
  <2> HIDE DEF x
  <2> QED
    BY <2>1 DEF Shifted
<1>4. x \in SUBSET (1 .. W - n)
  OBVIOUS
<1>5. Shifted(x, n) = y
  <2> HIDE DEF x
  <2> QED
    BY <1>2, <1>3
<1> QED
  BY <1>4, <1>5

\* check_rank_defect: the rows that became zero are all that the vectors satisfy.
LEMMA FreeSpan ==
  ASSUME NEW v \in Seq(Word), NEW A, NEW B \in [Bit -> Word], NEW n \in 0 .. W, NEW sc, NEW tr,
         Echelon(v, A, B, n, sc, tr), \A r \in n .. W - 1 : A[r] = {}
  PROVE  /\ FreeRows(B, n) \in Seq(Word) /\ Len(FreeRows(B, n)) = W - n
         /\ Independent(FreeRows(B, n))
         /\ Dual(Of(v)) = Span(FreeRows(B, n))
<1> DEFINE F == FreeRows(B, n)
<1>0. W \in Nat /\ n \in Nat /\ W - n \in Nat
  BY SlicerAssumed
<1>1. \A r \in 1 .. W - n : n + r - 1 \in Bit
  BY <1>0 DEF Bit
<1>2. F \in Seq(Word) /\ Len(F) = W - n /\ DOMAIN F = 1 .. W - n
  BY <1>0, <1>1 DEF FreeRows
<1>3. \A x \in SUBSET (1 .. W - n) :
          /\ Shifted(x, n) \in SUBSET (n .. W - 1)
          /\ x # {} => Shifted(x, n) # {}
          /\ Times(x, F) = Times(Shifted(x, n), B)
  BY ShiftedTimes
<1>4. \A y \in SUBSET (n .. W - 1) : y \in SUBSET Bit /\ y \in Word
  BY <1>0 DEF Bit, Word
<1> HIDE DEF F
<1>5. Independent(F)
  <2> SUFFICES ASSUME NEW x \in SUBSET (1 .. W - n), x # {} PROVE Times(x, F) # {}
    BY <1>2 DEF Independent
  <2>1. Shifted(x, n) \in SUBSET Bit /\ Shifted(x, n) # {}
    BY <1>3, <1>4
  <2>2. Times(Shifted(x, n), B) # {}
    BY <2>1 DEF Echelon, Independent
  <2> QED
    BY <1>3, <2>2
<1>6. Span(F) \subseteq Dual(Of(v))
  <2> SUFFICES ASSUME NEW x \in SUBSET (1 .. W - n) PROVE Times(x, F) \in Dual(Of(v))
    BY <1>2 DEF Span
  <2>1. Shifted(x, n) \in SUBSET (n .. W - 1) /\ Times(x, F) = Times(Shifted(x, n), B)
    BY <1>3
  <2> QED
    BY <2>1, ZeroRowsDual
<1>7. ASSUME NEW e \in Dual(Of(v)) PROVE e \in Span(F)
  <2>1. e \in Word
    BY DEF Dual
  <2>2. PICK y \in Word : Times(y, B) = e
    BY <2>1, Onto DEF Echelon
  <2>3. y \in SUBSET (n .. W - 1)
    BY <2>2, DualSelects
  <2>4. PICK x \in SUBSET (1 .. W - n) : Shifted(x, n) = y
    BY <2>3, Unshifted
  <2>6. Times(x, F) = e
    BY <1>3, <2>2, <2>4
  <2> QED
    BY <1>2, <2>4, <2>6 DEF Span
<1>8. Dual(Of(v)) = Span(F)
  BY <1>6, <1>7
<1> QED
  BY <1>2, <1>5, <1>8 DEF F

\* A row with a pivot, when no equation is missing: the vectors that satisfy it satisfy nothing else
\* that is new, and those with the other pivots are among them.
LEMMA RowDivides ==
  ASSUME NEW v \in Seq(Word), NEW A, NEW B \in [Bit -> Word], NEW n \in 0 .. W, NEW sc, NEW tr,
         Echelon(v, A, B, n, sc, tr), \A r \in n .. W - 1 : A[r] = {},
         NEW row \in 0 .. n - 1, NEW sat, sat = Satisfying(Of(v), B[row]),
         NEW span, span = Dual(Of(v))
  PROVE  /\ B[row] \in Word /\ B[row] \notin span
         /\ Dual(sat) = Spanned(span, B[row])
         /\ Cardinality(sat) >= n - 1
<1> DEFINE e == B[row]
<1>0. /\ W \in Nat /\ n \in Nat /\ row \in Bit /\ {row} \in Word /\ Len(v) \in Nat /\ n <= Len(v)
      /\ \A c \in 0 .. n - 1 : c \in Column(v) /\ c \in Bit /\ {c} \in Word
  BY SlicerAssumed, PivotsFit DEF Bit, Word, Column
<1>1. e \in Word /\ Times({row}, B) = e
  BY <1>0, OneOfUnit
<1>2. PICK perm \in [Column(v) -> Column(v)] : Transformed(perm, v, A, B)
  BY DEF Echelon
<1> DEFINE u == [c \in 0 .. n - 1 |-> v[perm[c] + 1]]
<1>3. \A c \in 0 .. n - 1 : u[c] \in Of(v)
  <2>1. \A c \in 0 .. n - 1 : perm[c] + 1 \in DOMAIN v
    BY <1>0 DEF Column
  <2> QED
    BY <2>1 DEF Of
<1>4. \A y \in Word, c \in 0 .. n - 1 : c \in y <=> Odd(u[c] \cap Times(y, B))
  <2> SUFFICES ASSUME NEW y \in Word, NEW c \in 0 .. n - 1
               PROVE  c \in y <=> Odd(u[c] \cap Times(y, B))
    OBVIOUS
  <2>1. One(y, A, c) <=> c \in y
    BY UnitOne DEF Echelon
  <2>2. One(y, A, c) <=> Odd(Times(y, B) \cap v[perm[c] + 1])
    BY <1>0, <1>2 DEF Transformed
  <2>3. u[c] \cap Times(y, B) = Times(y, B) \cap v[perm[c] + 1]
    OBVIOUS
  <2> HIDE DEF u
  <2> QED
    BY <2>1, <2>2, <2>3
<1> HIDE DEF u
<1>5. e \notin span
  <2>1. Odd(u[row] \cap e)
    BY <1>0, <1>1, <1>4
  <2> QED
    BY <1>3, <2>1 DEF Dual
<1>6. \A c \in (0 .. n - 1) \ {row} : u[c] \in sat
  <2> SUFFICES ASSUME NEW c \in (0 .. n - 1) \ {row} PROVE u[c] \in sat
    OBVIOUS
  <2>1. ~Odd(u[c] \cap e)
    BY <1>0, <1>1, <1>4
  <2> QED
    BY <1>3, <2>1 DEF Satisfying
<1>7. \A w \in Of(v) : IsFiniteSet(w)
  BY FiniteWords DEF Of
<1>8. ASSUME NEW x \in span PROVE x \in Dual(sat) /\ Plus(x, e) \in Dual(sat)
  <2>1. x \in Word /\ \A w \in sat : w \in Of(v) /\ ~Odd(w \cap x) /\ ~Odd(w \cap e)
    BY DEF Dual, Satisfying
  <2>2. \A w \in sat : ~Odd(w \cap Plus(x, e))
    BY <1>7, <2>1, OddMeets
  <2>3. Plus(x, e) \in Word
    BY <1>1, <2>1, PlusFacts
  <2> HIDE DEF e
  <2> QED
    BY <2>1, <2>2, <2>3 DEF Dual
<1>9. ASSUME NEW s \in Dual(sat) PROVE s \in span \/ \E x \in span : s = Plus(x, e)
  <2>1. s \in Word
    BY DEF Dual
  <2>2. PICK y \in Word : Times(y, B) = s
    BY <2>1, Onto DEF Echelon
  <2> DEFINE z == y \ {row}
  <2>3. z \in SUBSET (n .. W - 1)
    <3> SUFFICES ASSUME NEW c \in z, c < n PROVE FALSE
      BY <1>0 DEF Word, Bit
    <3>1. c \in (0 .. n - 1) \ {row}
      BY <1>0 DEF Word, Bit
    <3>2. Odd(u[c] \cap s)
      BY <1>4, <2>2, <3>1
    <3> QED
      BY <1>6, <3>1, <3>2 DEF Dual
  <2>4. z \in Word /\ Times(z, B) \in span
    BY <2>3, ZeroRowsDual
  <2>5. CASE row \notin y
    BY <2>2, <2>4, <2>5
  <2>6. CASE row \in y
    <3>1. y = Plus(z, {row})
      BY <2>6 DEF Plus
    <3>2. IsFiniteSet(z) /\ IsFiniteSet({row})
      BY <1>0, <2>4, FiniteWords
    <3> HIDE DEF z
    <3>3. s = Plus(Times(z, B), e)
      BY <1>1, <2>2, <3>1, <3>2, TimesPlus
    <3> QED
      BY <2>4, <3>3
  <2> QED
    BY <2>5, <2>6
<1>10. Dual(sat) = Spanned(span, e)
  <2> HIDE DEF e
  <2> QED
    BY <1>8, <1>9 DEF Spanned
<1>11. Cardinality(sat) >= n - 1
  <2> DEFINE C == (0 .. n - 1) \ {row}
             f == [c \in C |-> u[c]]
  <2>1. IsFiniteSet(0 .. n - 1) /\ Cardinality(0 .. n - 1) = n
    <3>1. 0 \in Int /\ n - 1 \in Int /\ (n - 1) - 0 + 1 = n /\ (0 > n - 1 => n = 0)
      BY <1>0
    <3> QED
      BY <3>1, FS_Interval
  <2>2. Cardinality(C) = n - 1
    <3>1. Cardinality(C) = IF row \in 0 .. n - 1 THEN Cardinality(0 .. n - 1) - 1
                                                 ELSE Cardinality(0 .. n - 1)
      BY <2>1, FS_RemoveElement
    <3> QED
      BY <2>1, <3>1
  <2>3. \A c, q \in C : u[c] = u[q] => c = q
    <3> SUFFICES ASSUME NEW c \in C, NEW q \in C, u[c] = u[q] PROVE c = q
      OBVIOUS
    <3>1. Odd(u[c] \cap Times({c}, B))
      BY <1>0, <1>4
    <3>2. q \in {c}
      BY <1>0, <1>4, <3>1
    <3> QED
      BY <3>2
  <2>4. \A c \in C : u[c] \in sat
    BY <1>6
  <2> HIDE DEF C
  <2>5. f \in Injection(C, sat)
    BY <2>3, <2>4 DEF Injection, IsInjective
  <2>6. sat \in SUBSET Word
    BY DEF Satisfying, Of
  <2>7. IsFiniteSet(sat)
    BY <2>6, FiniteWords, FS_Subset
  <2>8. Cardinality(C) <= Cardinality(sat)
    BY <2>5, <2>7, FS_Injection
  <2>9. Cardinality(sat) \in Nat
    BY <2>7, FS_CardinalityType
  <2> QED
    BY <1>0, <2>2, <2>8, <2>9
<1> QED
  BY <1>1, <1>5, <1>10, <1>11

-----------------------------------------------------------------------------
(* Invertible matrices *)

LEMMA Extended ==
  ASSUME NEW n \in Nat, n < W, NEW R \in [n + 1 .. W - 1 -> Word], Independent(R)
  PROVE  \E w \in Word : Independent([r \in n .. W - 1 |-> IF r = n THEN w ELSE R[r]])
<1>0. W \in Nat /\ n + 1 \in 0 .. W
  BY SlicerAssumed
<1>1. DOMAIN R = n + 1 .. W - 1
  OBVIOUS
<1>2. /\ IsFiniteSet(n + 1 .. W - 1) /\ Cardinality(n + 1 .. W - 1) = W - (n + 1)
  BY <1>0, SelectionsFinite
<1>3. PICK w \in Word : w \notin Span(R)
  <2> SUFFICES ASSUME Word \subseteq Span(R) PROVE FALSE
    OBVIOUS
  <2>1. Span(R) = SUBSET Bit
    BY TimesType DEF Span, Word
  <2>2. Cardinality(SUBSET Bit) = Cardinality(SUBSET (n + 1 .. W - 1))
    BY <1>1, <1>2, <2>1, SpanSize
  <2>3. IsFiniteSet(SUBSET Bit)
    BY FiniteWords DEF Word
  <2>4. Cardinality(SUBSET Bit) <= Cardinality(SUBSET (n + 1 .. W - 1))
    BY <2>2, <2>3, FS_CardinalityType
  <2>5. W <= W - (n + 1)
    BY <1>2, <2>4, FiniteWords, PowerSizes
  <2> QED
    BY <1>0, <2>5
<1> DEFINE N == [r \in n .. W - 1 |-> IF r = n THEN w ELSE R[r]]
<1>4. N[n] = w /\ \A r \in n + 1 .. W - 1 : N[r] = R[r]
  BY <1>0
<1>5. ASSUME NEW z \in SUBSET (n + 1 .. W - 1) PROVE Times(z, N) = Times(z, R)
  <2>1. \A c : {r \in z : c \in N[r]} = {r \in z : c \in R[r]}
    BY <1>4
  <2> HIDE DEF N
  <2> QED
    BY <2>1 DEF Times, One
<1>6. ASSUME NEW x \in SUBSET (n .. W - 1), x # {} PROVE Times(x, N) # {}
  <2>1. CASE n \notin x
    <3>1. x \in SUBSET (n + 1 .. W - 1)
      BY <1>0, <2>1
    <3> QED
      BY <1>1, <1>5, <1>6, <3>1 DEF Independent
  <2>2. CASE n \in x
    <3> DEFINE z == x \ {n}
    <3>1. z \in SUBSET (n + 1 .. W - 1) /\ x = Plus(z, {n})
      BY <1>0, <2>2 DEF Plus
    <3>2. IsFiniteSet(z) /\ IsFiniteSet({n})
      BY <1>2, <3>1, FS_Subset, FS_Singleton
    <3> HIDE DEF z, N
    <3>3. Times(x, N) = Plus(Times(z, N), Times({n}, N))
      BY <3>1, <3>2, TimesPlus
    <3>4. Times({n}, N) = w
      BY <1>4, OneOfUnit
    <3>5. Times(z, N) \in Span(R)
      BY <1>1, <1>5, <3>1 DEF Span
    <3>6. Times(z, N) # w
      BY <1>3, <3>5
    <3>7. Times(x, N) = Plus(Times(z, N), w)
      BY <3>3, <3>4
    <3>8. Plus(Times(z, N), w) # {}
      BY <3>6, PlusFacts
    <3> QED
      BY <3>7, <3>8
  <2> QED
    BY <2>1, <2>2
<1>7. DOMAIN N = n .. W - 1
  OBVIOUS
<1> HIDE DEF N
<1>8. Independent(N)
  BY <1>6, <1>7 DEF Independent
<1> QED
  BY <1>8 DEF N

\* Independent equations are the last rows of an invertible matrix.
LEMMA Completed ==
  ASSUME NEW eqs \in Seq(Word), Independent(eqs), NEW n \in 0 .. W, n = W - Len(eqs)
  PROVE  \E R \in [Bit -> Word] : Independent(R) /\ \A r \in n .. W - 1 : R[r] = eqs[r - n + 1]
<1> DEFINE Works(k, R) == /\ R \in [k .. W - 1 -> Word] /\ Independent(R)
                          /\ \A r \in n .. W - 1 : R[r] = eqs[r - n + 1]
           Good == {k \in 0 .. n : \E R : Works(k, R)}
<1>0. /\ W \in Nat /\ n \in Nat /\ Len(eqs) = W - n /\ DOMAIN eqs = 1 .. W - n
      /\ \A r \in n .. W - 1 : r - n + 1 \in 1 .. W - n
  BY SlicerAssumed
<1>1. n \in Good
  <2> DEFINE R == [r \in n .. W - 1 |-> eqs[r - n + 1]]
  <2>1. R \in [n .. W - 1 -> Word]
    BY <1>0
  <2>2. FreeRows(R, n) = eqs
    <3>1. \A r \in 1 .. W - n : n + r - 1 \in n .. W - 1 /\ (n + r - 1) - n + 1 = r
      BY <1>0
    <3>2. \A r \in 1 .. W - n : R[n + r - 1] = eqs[r]
      BY <3>1
    <3>3. eqs = [r \in 1 .. W - n |-> eqs[r]]
      BY <1>0
    <3> QED
      BY <3>2, <3>3 DEF FreeRows
  <2> HIDE DEF R
  <2>3. Independent(R)
    <3> SUFFICES ASSUME NEW y \in SUBSET (n .. W - 1), y # {} PROVE Times(y, R) # {}
      BY <2>1 DEF Independent
    <3>1. PICK x \in SUBSET (1 .. W - n) : Shifted(x, n) = y
      BY Unshifted
    <3>2. x # {}
      BY <3>1 DEF Shifted
    <3>3. Times(y, R) = Times(x, eqs)
      BY <2>2, <3>1, ShiftedTimes
    <3> QED
      BY <1>0, <3>2, <3>3 DEF Independent
  <2>4. \A r \in n .. W - 1 : R[r] = eqs[r - n + 1]
    BY DEF R
  <2> QED
    BY <1>0, <2>1, <2>3, <2>4
<1>2. PICK k \in Good : \A o \in Good : k <= o
  <2>1. Good \in SUBSET Nat /\ Good # {}
    BY <1>0, <1>1
  <2> HIDE DEF Good
  <2> QED
    BY <2>1, Least
<1>3. PICK R : Works(k, R)
  OBVIOUS
<1>4. k = 0
  <2> SUFFICES ASSUME k # 0 PROVE FALSE
    OBVIOUS
  <2>1. PICK m \in Nat : m = k - 1
    BY <1>0
  <2>2. m < W /\ m + 1 = k /\ m \in 0 .. n /\ ~(k <= m) /\ m < n
    BY <1>0, <2>1
  <2>3. PICK w \in Word : Independent([r \in m .. W - 1 |-> IF r = m THEN w ELSE R[r]])
    BY <1>3, <2>2, Extended
  <2> DEFINE N == [r \in m .. W - 1 |-> IF r = m THEN w ELSE R[r]]
  <2>4. N \in [m .. W - 1 -> Word]
    BY <1>0, <1>3, <2>2
  <2>5. \A r \in n .. W - 1 : N[r] = eqs[r - n + 1]
    BY <1>0, <1>3, <2>2
  <2>6. Works(m, N)
    BY <2>3, <2>4, <2>5
  <2>7. m \in Good
    BY <2>2, <2>6
  <2> QED
    BY <1>2, <2>2, <2>7
<1> QED
  BY <1>3, <1>4 DEF Bit

\* The transpose of an invertible matrix is one.
Transposed(R) == [c \in Bit |-> {r \in Bit : c \in R[r]}]

LEMMA EvenSums ==
  ASSUME NEW R \in [Bit -> Word], NEW x \in Word, \A r \in Bit : ~Odd(x \cap R[r])
  PROVE  \A y \in Word : ~Odd(x \cap Times(y, R))
<1> DEFINE Bad == {y \in Word : Odd(x \cap Times(y, R))}
           Sizes == {Cardinality(y) : y \in Bad}
<1> SUFFICES ASSUME Bad # {} PROVE FALSE
  OBVIOUS
<1>0. \A y \in Word : IsFiniteSet(y) /\ Cardinality(y) \in Nat
  BY FiniteWords, FS_CardinalityType
<1>1. PICK y \in Bad : \A z \in Bad : Cardinality(y) <= Cardinality(z)
  <2>1. Sizes \in SUBSET Nat /\ Sizes # {}
    BY <1>0
  <2>2. PICK k \in Sizes : \A o \in Sizes : k <= o
    <3> HIDE DEF Sizes
    <3> QED
      BY <2>1, Least
  <2> QED
    BY <2>2
<1>2. y # {}
  <2>1. Times({}, R) = {} /\ x \cap {} = {}
    BY OneOfNone
  <2> QED
    BY <1>1, <2>1, OddFew
<1>3. PICK r : r \in y
  BY <1>2
<1> DEFINE z == y \ {r}
<1>4. z \in Word /\ r \in Bit /\ {r} \in Word /\ y = Plus(z, {r})
  BY <1>3 DEF Word, Plus
<1>5. Cardinality(z) = Cardinality(y) - 1
  BY <1>0, <1>3, FS_RemoveElement
<1>6. ~(Cardinality(y) <= Cardinality(z))
  BY <1>0, <1>5
<1> HIDE DEF z
<1>7. ~Odd(x \cap Times(z, R))
  BY <1>1, <1>4, <1>6
<1>8. Times(y, R) = Plus(Times(z, R), R[r])
  <2>1. Times({r}, R) = R[r]
    BY <1>4, OneOfUnit
  <2> QED
    BY <1>0, <1>4, <2>1, TimesPlus
<1>9. ~Odd(x \cap Times(y, R))
  BY <1>0, <1>4, <1>7, <1>8, OddMeets
<1> QED
  BY <1>1, <1>9

LEMMA TransposedOne ==
  ASSUME NEW R \in [Bit -> Word], NEW x \in Word, NEW r \in Bit
  PROVE  One(x, Transposed(R), r) <=> Odd(x \cap R[r])
<1>1. {c \in x : r \in Transposed(R)[c]} = x \cap R[r]
  BY DEF Transposed, Word
<1> QED
  BY <1>1 DEF One

LEMMA TransposedIndependent ==
  ASSUME NEW R \in [Bit -> Word], Independent(R)
  PROVE  Transposed(R) \in [Bit -> Word] /\ Independent(Transposed(R))
<1>1. Transposed(R) \in [Bit -> Word] /\ DOMAIN Transposed(R) = Bit
  BY DEF Transposed, Word
<1>2. ASSUME NEW x \in Word, x # {}, Times(x, Transposed(R)) = {} PROVE FALSE
  <2>1. \A r \in Bit : ~Odd(x \cap R[r])
    BY <1>2, TransposedOne DEF Times
  <2>2. PICK c \in Bit : c \in x
    BY <1>2 DEF Word
  <2>3. PICK y \in Word : Times(y, R) = {c}
    BY Onto DEF Word
  <2>4. x \cap {c} = {c}
    BY <2>2
  <2>5. Odd(x \cap Times(y, R))
    BY <2>3, <2>4, OddFew
  <2> QED
    BY <2>1, <2>5, EvenSums
<1> QED
  BY <1>1, <1>2 DEF Independent, Word

\* Gauss and Jordan find a pivot in every column of an invertible matrix,
LEMMA InvertPivots ==
  ASSUME NEW A0 \in [Bit -> Word], Independent(A0), NEW A \in [Bit -> Word], NEW B \in [Bit -> Word],
         Independent(B), NEW n \in Bit, UnitColumns(A, n),
         \A x \in Word : Times(x, A) = Times(Times(x, B), A0)
  PROVE  \E r \in n .. W - 1 : n \in A[r]
<1> SUFFICES ASSUME \A r \in n .. W - 1 : n \notin A[r] PROVE FALSE
  OBVIOUS
<1>0. W \in Nat /\ n \in Nat /\ n \in 0 .. W /\ {n} \in Word
  BY SlicerAssumed DEF Bit, Word
<1>1. PICK y \in Word : Times(y, A0) = {n}
  BY <1>0, Onto
<1>2. PICK x \in Word : Times(x, B) = y
  BY Onto
<1>3. Times(x, A) = {n}
  BY <1>1, <1>2
<1>4. ASSUME NEW c \in x, c < n PROVE FALSE
  <2>1. c \in 0 .. n - 1 /\ c \in Bit /\ c # n
    BY <1>0, <1>4 DEF Word, Bit
  <2>2. One(x, A, c)
    BY <1>0, <2>1, UnitOne
  <2> QED
    BY <1>3, <2>1, <2>2 DEF Times
<1>5. \A r \in x : r \in n .. W - 1
  BY <1>0, <1>4 DEF Word, Bit
<1>6. {r \in x : n \in A[r]} = {}
  BY <1>5
<1>7. ~One(x, A, n)
  BY <1>6, OddFew DEF One
<1> QED
  BY <1>3, <1>7 DEF Times

\* and end with its inverse on both sides.
LEMMA InvertEnds ==
  ASSUME NEW A0 \in [Bit -> Word], NEW A \in [Bit -> Word], NEW B \in [Bit -> Word],
         Independent(B), UnitColumns(A, W),
         \A x \in Word : Times(x, A) = Times(Times(x, B), A0), NEW x \in Word
  PROVE  Times(Times(x, B), A0) = x /\ Times(Times(x, A0), B) = x
<1>0. W \in Nat /\ W \in 0 .. W
  BY SlicerAssumed
<1>1. \A z \in Word : Times(z, A) = z
  <2> SUFFICES ASSUME NEW z \in Word PROVE Times(z, A) = z
    OBVIOUS
  <2>1. \A c \in Bit : One(z, A, c) <=> c \in z
    BY <1>0, UnitOne DEF Bit
  <2> QED
    BY <2>1 DEF Times, Word
<1>2. \A z \in Word : Times(Times(z, B), A0) = z
  BY <1>1
<1>3. PICK z \in Word : Times(z, B) = x
  BY Onto
<1> QED
  BY <1>2, <1>3

-----------------------------------------------------------------------------
(* Counting what is in a list *)

LEMMA IndicesFinite ==
  ASSUME NEW n \in Nat
  PROVE  /\ IsFiniteSet(1 .. n) /\ Cardinality(1 .. n) = n
         /\ \A S \in SUBSET (1 .. n) : IsFiniteSet(S) /\ Cardinality(S) \in Nat /\ Cardinality(S) <= n
<1>1. IsFiniteSet(1 .. n) /\ Cardinality(1 .. n) = n
  BY FS_Interval
<1> QED
  BY <1>1, FS_Subset, FS_CardinalityType

LEMMA CountType ==
  ASSUME NEW s \in Seq(Word), NEW x
  PROVE  Count(s, x) \in Nat
BY IndicesFinite DEF Count

\* Images under an injection have the size of what they are images of.
LEMMA ImageSize ==
  ASSUME NEW S, IsFiniteSet(S), NEW f, DOMAIN f = S, \A u \in S : \A v \in S : f[u] = f[v] => u = v
  PROVE  IsFiniteSet({f[u] : u \in S}) /\ Cardinality({f[u] : u \in S}) = Cardinality(S)
<1> DEFINE R == {f[u] : u \in S}
           g == [u \in S |-> f[u]]
<1>1. g \in Bijection(S, R)
  BY DEF Bijection, Injection, Surjection, IsInjective
<1>2. ExistsBijection(S, R)
  BY <1>1 DEF ExistsBijection
<1> QED
  BY <1>2, FS_Bijection

LEMMA CountConcat ==
  ASSUME NEW s \in Seq(Word), NEW t \in Seq(Word), NEW x
  PROVE  Count(s \o t, x) = Count(s, x) + Count(t, x)
<1> DEFINE A == {n \in 1 .. Len(s) : s[n] = x}
           B == {n \in 1 .. Len(t) : t[n] = x}
           f == [n \in B |-> Len(s) + n]
           C == {f[n] : n \in B}
<1>1. IsFiniteSet(A) /\ IsFiniteSet(B)
  BY IndicesFinite
<1>2. IsFiniteSet(C) /\ Cardinality(C) = Cardinality(B)
  <2>1. \A u \in B : \A v \in B : f[u] = f[v] => u = v
    OBVIOUS
  <2> HIDE DEF B
  <2> QED
    BY <1>1, <2>1, ImageSize
<1>3. {n \in DOMAIN (s \o t) : (s \o t)[n] = x} = A \cup C
  <2>1. DOMAIN (s \o t) = 1 .. Len(s) + Len(t)
    OBVIOUS
  <2>2. \A n \in 1 .. Len(s) : (s \o t)[n] = s[n] /\ n \in 1 .. Len(s) + Len(t)
    OBVIOUS
  <2>3. \A n \in 1 .. Len(t) : (s \o t)[Len(s) + n] = t[n] /\ Len(s) + n \in 1 .. Len(s) + Len(t)
    OBVIOUS
  <2>4. ASSUME NEW n \in 1 .. Len(s) + Len(t), (s \o t)[n] = x PROVE n \in A \cup C
    <3>1. CASE n \in 1 .. Len(s)
      BY <2>2, <2>4, <3>1
    <3>2. CASE n \notin 1 .. Len(s)
      <4>1. n - Len(s) \in 1 .. Len(t) /\ Len(s) + (n - Len(s)) = n
        BY <3>2
      <4>2. n - Len(s) \in B
        BY <2>3, <2>4, <4>1
      <4>3. f[n - Len(s)] = n
        BY <4>1, <4>2
      <4> QED
        BY <4>2, <4>3
    <3> QED
      BY <3>1, <3>2
  <2>5. ASSUME NEW n \in A \cup C PROVE n \in 1 .. Len(s) + Len(t) /\ (s \o t)[n] = x
    <3>1. CASE n \in A
      BY <2>2, <3>1
    <3>2. CASE n \in C
      <4>1. PICK u \in B : n = Len(s) + u
        BY <3>2
      <4> QED
        BY <2>3, <4>1
    <3> QED
      BY <2>5, <3>1, <3>2
  <2> HIDE DEF A, C
  <2> QED
    BY <2>1, <2>4, <2>5
<1>4. A \cap C = {}
  <2>1. \A n \in B : f[n] > Len(s)
    OBVIOUS
  <2>2. \A n \in A : ~(n > Len(s))
    OBVIOUS
  <2> HIDE DEF A, B, f
  <2> QED
    BY <2>1, <2>2
<1>5. Cardinality(A \cup C) = Cardinality(A) + Cardinality(C) - Cardinality(A \cap C)
  <2> HIDE DEF A, C
  <2> QED
    BY <1>1, <1>2, FS_Union
<1>6. Cardinality(A) = Count(s, x) /\ Cardinality(B) = Count(t, x)
  <2>1. DOMAIN s = 1 .. Len(s) /\ DOMAIN t = 1 .. Len(t)
    OBVIOUS
  <2> QED
    BY <2>1, Zenon DEF Count
<1>7. Cardinality(A \cup C) = Count(s \o t, x)
  BY <1>3 DEF Count
<1> HIDE DEF A, B, C
<1>8. Count(s, x) \in Nat /\ Count(t, x) \in Nat /\ Cardinality(A \cap C) = 0
  BY <1>4, CountType, FS_EmptySet
<1>9. Cardinality(C) = Count(t, x)
  BY <1>2, <1>6
<1> QED
  BY <1>5, <1>6, <1>7, <1>8, <1>9

LEMMA CountFew ==
  ASSUME NEW x
  PROVE  /\ Count(<<>>, x) = 0
         /\ \A y : Count(<<y>>, x) = IF y = x THEN 1 ELSE 0
<1>1. Count(<<>>, x) = 0
  BY FS_EmptySet DEF Count
<1>2. ASSUME NEW y PROVE Count(<<y>>, x) = IF y = x THEN 1 ELSE 0
  <2>1. {n \in DOMAIN <<y>> : <<y>>[n] = x} = IF y = x THEN {1} ELSE {}
    <3>1. DOMAIN <<y>> = {1} /\ <<y>>[1] = y
      OBVIOUS
    <3> QED
      BY <3>1
  <2> QED
    BY <2>1, FS_EmptySet, FS_Singleton DEF Count
<1> QED
  BY <1>1, <1>2

LEMMA CountReverse ==
  ASSUME NEW s \in Seq(Word)
  PROVE  /\ Slicing!Reverse(s) \in Seq(Word) /\ Len(Slicing!Reverse(s)) = Len(s)
         /\ \A x : Count(Slicing!Reverse(s), x) = Count(s, x)
<1> DEFINE t == [n \in 1 .. Len(s) |-> s[Len(s) - n + 1]]
<1>1. Slicing!Reverse(s) = t
  BY DEF Slicing!Reverse
<1>2. \A n \in 1 .. Len(s) : Len(s) - n + 1 \in 1 .. Len(s) /\ Len(s) - (Len(s) - n + 1) + 1 = n
  OBVIOUS
<1>3. t \in Seq(Word) /\ Len(t) = Len(s)
  BY <1>2
<1>4. ASSUME NEW x PROVE Count(t, x) = Count(s, x)
  <2> DEFINE A == {n \in 1 .. Len(s) : s[n] = x}
             f == [n \in A |-> Len(s) - n + 1]
             C == {f[n] : n \in A}
  <2>1. Cardinality(C) = Cardinality(A)
    <3>1. \A u \in A : \A v \in A : f[u] = f[v] => u = v
      OBVIOUS
    <3>2. IsFiniteSet(A)
      BY IndicesFinite
    <3> HIDE DEF A
    <3> QED
      BY <3>1, <3>2, ImageSize
  <2>2. {n \in DOMAIN t : t[n] = x} = C
    <3>1. ASSUME NEW n \in 1 .. Len(s), t[n] = x PROVE n \in C
      <4>1. Len(s) - n + 1 \in A /\ f[Len(s) - n + 1] = n
        BY <1>2, <3>1
      <4> QED
        BY <4>1
    <3>2. ASSUME NEW n \in C PROVE n \in 1 .. Len(s) /\ t[n] = x
      BY <1>2, <3>2
    <3> HIDE DEF C
    <3> QED
      BY <3>1, <3>2
  <2>3. DOMAIN s = 1 .. Len(s)
    OBVIOUS
  <2>4. Count(t, x) = Cardinality(C)
    BY <2>2, Zenon DEF Count
  <2>5. Count(s, x) = Cardinality(A)
    BY <2>3, Zenon DEF Count
  <2> QED
    BY <2>1, <2>4, <2>5, Zenon
<1> QED
  BY <1>1, <1>3, <1>4
-----------------------------------------------------------------------------
(* Folds over a list *)

\* A step of filter_active takes a word of the list, and one of Permuted a draw.
StepOf(kind, data, acc, n) ==
    IF kind = "move" THEN Slicing!Moved(acc, data[n]) ELSE Slicing!Exchanged(acc, n, data[n])

\* The fold of the first n steps, as FoldLeft takes it.
FoldsBy(f, kind, base, data, s) ==
    IF s = {} THEN base ELSE StepOf(kind, data, f[s \ {Slicing!Max(s)}], Slicing!Max(s))
Folds(f, kind, base, data, n) == f = [s \in SUBSET (1 .. n) |-> FoldsBy(f, kind, base, data, s)]

LEMMA GreatestIs ==
  ASSUME NEW n \in Nat, NEW s \in SUBSET (1 .. n + 1), n + 1 \in s
  PROVE  Slicing!Max(s) = n + 1 /\ s \ {n + 1} \in SUBSET (1 .. n)
<1>1. \A y \in s : n + 1 >= y
  OBVIOUS
<1>2. \A m \in s : (\A y \in s : m >= y) => m = n + 1
  OBVIOUS
<1>3. Slicing!Max(s) = n + 1
  BY <1>1, <1>2 DEF Slicing!Max
<1> QED
  BY <1>3

\* The recursion of the fold is well founded.
LEMMA FoldExists ==
  ASSUME NEW kind, NEW base, NEW data
  PROVE  \A n \in Nat : \E f : Folds(f, kind, base, data, n)
<1> DEFINE X == {n \in Nat : ~ \E f : Folds(f, kind, base, data, n)}
<1> SUFFICES ASSUME X # {} PROVE FALSE
  OBVIOUS
<1>1. PICK m \in X : \A n \in X : m <= n
  BY Least
<1>2. CASE m = 0
  <2> DEFINE f == [s \in SUBSET (1 .. 0) |-> base]
  <2>1. \A s \in SUBSET (1 .. 0) : f[s] = base /\ FoldsBy(f, kind, base, data, s) = base
    BY DEF FoldsBy
  <2>2. f = [s \in SUBSET (1 .. 0) |-> FoldsBy(f, kind, base, data, s)]
    BY <2>1
  <2> QED
    BY <1>1, <1>2, <2>2 DEF Folds
<1>3. CASE m # 0
  <2>1. PICK n \in Nat : m = n + 1 /\ ~(m <= n)
    <3>1. m - 1 \in Nat /\ m = (m - 1) + 1 /\ ~(m <= m - 1)
      BY <1>3
    <3> QED
      BY <3>1
  <2>2. PICK f : Folds(f, kind, base, data, n)
    BY <1>1, <2>1
  <2>3. \A s \in SUBSET (1 .. n) : f[s] = FoldsBy(f, kind, base, data, s)
    BY <2>2 DEF Folds
  <2> DEFINE Longer(s) == IF n + 1 \in s THEN StepOf(kind, data, f[s \ {n + 1}], n + 1) ELSE f[s]
             g == [s \in SUBSET (1 .. n + 1) |-> Longer(s)]
  <2>4. \A s \in SUBSET (1 .. n) : s \in SUBSET (1 .. n + 1) /\ n + 1 \notin s
    OBVIOUS
  <2>5. \A s \in SUBSET (1 .. n) : g[s] = f[s]
    BY <2>4
  <2>6. ASSUME NEW s \in SUBSET (1 .. n + 1) PROVE g[s] = FoldsBy(g, kind, base, data, s)
    <3>1. CASE n + 1 \in s
      <4>1. Slicing!Max(s) = n + 1 /\ s \ {n + 1} \in SUBSET (1 .. n)
        BY <3>1, GreatestIs
      <4>2. g[s] = StepOf(kind, data, f[s \ {n + 1}], n + 1)
        BY <3>1
      <4>3. g[s \ {n + 1}] = f[s \ {n + 1}] /\ s # {}
        BY <2>5, <3>1, <4>1
      <4> HIDE DEF g
      <4> QED
        BY <4>1, <4>2, <4>3 DEF FoldsBy
    <3>2. CASE n + 1 \notin s
      <4>1. s \in SUBSET (1 .. n) /\ s \ {Slicing!Max(s)} \in SUBSET (1 .. n)
        <5>1. \A y \in 1 .. n + 1 : y = n + 1 \/ y \in 1 .. n
          OBVIOUS
        <5>2. \A y \in s : y \in 1 .. n
          BY <3>2, <5>1
        <5> QED
          BY <5>2
      <4>2. g[s] = f[s] /\ g[s \ {Slicing!Max(s)}] = f[s \ {Slicing!Max(s)}]
        BY <2>5, <4>1
      <4>3. f[s] = FoldsBy(f, kind, base, data, s)
        BY <2>3, <4>1
      <4> HIDE DEF g
      <4> QED
        BY <4>2, <4>3 DEF FoldsBy
    <3> QED
      BY <3>1, <3>2
  <2>7. g = [s \in SUBSET (1 .. n + 1) |-> FoldsBy(g, kind, base, data, s)]
    BY <2>6
  <2> HIDE DEF g
  <2>8. Folds(g, kind, base, data, m)
    BY <2>1, <2>7 DEF Folds
  <2> QED
    BY <1>1, <2>8
<1> QED
  BY <1>2, <1>3

\* It takes the steps in their order.
LEMMA FoldSteps ==
  ASSUME NEW kind, NEW base, NEW data, NEW n \in Nat, NEW f, Folds(f, kind, base, data, n)
  PROVE  /\ f[1 .. 0] = base
         /\ \A m \in Nat : m < n => f[1 .. m + 1] = StepOf(kind, data, f[1 .. m], m + 1)
<1>1. \A s \in SUBSET (1 .. n) : f[s] = FoldsBy(f, kind, base, data, s)
  BY DEF Folds
<1>2. f[1 .. 0] = base
  <2>1. 1 .. 0 \in SUBSET (1 .. n) /\ 1 .. 0 = {}
    OBVIOUS
  <2>2. f[1 .. 0] = FoldsBy(f, kind, base, data, 1 .. 0)
    BY <1>1, <2>1
  <2> QED
    BY <2>1, <2>2 DEF FoldsBy
<1>3. ASSUME NEW m \in Nat, m < n PROVE f[1 .. m + 1] = StepOf(kind, data, f[1 .. m], m + 1)
  <2>1. 1 .. m + 1 \in SUBSET (1 .. n) /\ m + 1 \in 1 .. m + 1 /\ (1 .. m + 1) \ {m + 1} = 1 .. m
    BY <1>3
  <2>2. Slicing!Max(1 .. m + 1) = m + 1
    BY <2>1, GreatestIs
  <2>3. f[1 .. m + 1] = FoldsBy(f, kind, base, data, 1 .. m + 1) /\ 1 .. m + 1 # {}
    BY <1>1, <2>1
  <2> QED
    BY <2>1, <2>2, <2>3 DEF FoldsBy
<1> QED
  BY <1>2, <1>3

LEMMA MovedFold ==
  ASSUME NEW base, NEW v \in Seq(Word)
  PROVE  \E f : /\ Folds(f, "move", base, v, Len(v))
                /\ Slicing!FoldLeft(Slicing!Moved, base, v) = f[1 .. Len(v)]
<1>1. DOMAIN v = 1 .. Len(v)
  OBVIOUS
<1> DEFINE F == CHOOSE f : Folds(f, "move", base, v, Len(v))
<1>2. Slicing!FoldLeft(Slicing!Moved, base, v) = F[1 .. Len(v)]
  BY <1>1 DEF Slicing!FoldLeft, Slicing!MapThenFoldSet, Folds, FoldsBy, StepOf
<1>3. Folds(F, "move", base, v, Len(v))
  BY FoldExists
<1> QED
  BY <1>2, <1>3

\* A non-empty set of numbers below a bound has a greatest one.
LEMMA SomeGreatest ==
  ASSUME NEW n \in Nat, NEW s \in SUBSET (0 .. n), s # {}
  PROVE  \E u \in s : \A y \in s : u >= y
<1> DEFINE X == {u \in Nat : \A y \in s : y <= u}
<1>1. n \in X
  OBVIOUS
<1>2. PICK m \in X : \A u \in X : m <= u
  BY <1>1, Least
<1>3. m \in s
  <2> SUFFICES ASSUME m \notin s PROVE FALSE
    OBVIOUS
  <2>1. PICK y \in s : y \in 0 .. n
    OBVIOUS
  <2>2. \A z \in s : z <= m - 1
    BY <1>2
  <2>3. m - 1 \in Nat
    <3>1. y <= m - 1 /\ m \in Nat
      BY <1>2, <2>2
    <3> QED
      BY <2>1, <3>1
  <2>4. m - 1 \in X /\ ~(m <= m - 1)
    BY <2>2, <2>3
  <2> QED
    BY <1>2, <2>4
<1> QED
  BY <1>2, <1>3

LEMMA GreatestIn ==
  ASSUME NEW n \in Nat, NEW s \in SUBSET (1 .. n), s # {}
  PROVE  Slicing!Max(s) \in s
<1>0. s \in SUBSET (0 .. n)
  OBVIOUS
<1>1. \E u \in s : \A y \in s : u >= y
  BY <1>0, SomeGreatest
<1> QED
  BY <1>1 DEF Slicing!Max

LEMMA PermutedFold ==
  ASSUME slicerD \in Nat, NEW v, NEW draws
  PROVE  \E f : /\ Folds(f, "exchange", v, draws, slicerD)
                /\ Slicing!Permuted(v, draws) = f[1 .. slicerD]
<1> DEFINE seq == [n \in 1 .. slicerD |-> n]
           By(f, s) == IF s = {} THEN v
                       ELSE Slicing!Exchanged(f[s \ {Slicing!Max(s)}], seq[Slicing!Max(s)],
                                              draws[seq[Slicing!Max(s)]])
           Fold(f) == f = [s \in SUBSET (1 .. slicerD) |-> By(f, s)]
           F == CHOOSE f : Fold(f)
<1>1. DOMAIN seq = 1 .. slicerD
  OBVIOUS
<1>2. Slicing!Permuted(v, draws) = F[1 .. slicerD]
  BY <1>1 DEF Slicing!Permuted, Slicing!FoldLeft, Slicing!MapThenFoldSet, Slicing!d, Slicing!k, slicerD
<1>3. ASSUME NEW f, NEW s \in SUBSET (1 .. slicerD) PROVE By(f, s) = FoldsBy(f, "exchange", v, draws, s)
  <2>1. s # {} => seq[Slicing!Max(s)] = Slicing!Max(s)
    BY GreatestIn
  <2> HIDE DEF seq
  <2> QED
    BY <2>1 DEF FoldsBy, StepOf
<1>4. \A f : Fold(f) <=> Folds(f, "exchange", v, draws, slicerD)
  <2> HIDE DEF By
  <2> QED
    BY <1>3 DEF Folds
<1>5. \E f : Fold(f)
  BY <1>4, FoldExists
<1> HIDE DEF Fold
<1>6. Fold(F)
  BY <1>5
<1> QED
  BY <1>2, <1>4, <1>6

-----------------------------------------------------------------------------
(* The lists *)

LEMMA ExchangedIs ==
  ASSUME NEW v \in Seq(Word), NEW u \in 1 .. Len(v), NEW o \in 1 .. Len(v)
  PROVE  /\ Slicing!Exchanged(v, u, o) \in Seq(Word) /\ Len(Slicing!Exchanged(v, u, o)) = Len(v)
         /\ Of(Slicing!Exchanged(v, u, o)) = Of(v)
<1> DEFINE ex == [v EXCEPT ![u] = v[o], ![o] = v[u]]
<1>1. Slicing!Exchanged(v, u, o) = ex
  BY DEF Slicing!Exchanged
<1>2. /\ DOMAIN v = 1 .. Len(v) /\ DOMAIN ex = 1 .. Len(v)
      /\ \A n \in 1 .. Len(v) : ex[n] = IF n = o THEN v[u] ELSE IF n = u THEN v[o] ELSE v[n]
  OBVIOUS
<1>3. \A n \in 1 .. Len(v) : v[n] \in Word
  OBVIOUS
<1>4. \A n \in 1 .. Len(v) : ex[n] \in Word
  BY <1>2, <1>3
<1>5. ex \in [1 .. Len(v) -> Word]
  <2>1. ex = [n \in 1 .. Len(v) |-> ex[n]]
    OBVIOUS
  <2> HIDE DEF ex
  <2> QED
    BY <1>4, <2>1
<1> HIDE DEF ex
<1>6. ex \in Seq(Word) /\ Len(ex) = Len(v)
  BY <1>5
<1>7. ASSUME NEW y PROVE y \in Of(ex) <=> y \in Of(v)
  <2>1. \A n \in 1 .. Len(v) : \E m \in 1 .. Len(v) : ex[n] = v[m]
    BY <1>2
  <2>2. \A n \in 1 .. Len(v) : \E m \in 1 .. Len(v) : v[n] = ex[m]
    <3> TAKE n \in 1 .. Len(v)
    <3>1. v[n] = ex[IF n = o THEN u ELSE IF n = u THEN o ELSE n]
      BY <1>2
    <3> QED
      BY <3>1
  <2>3. Of(ex) = {ex[n] : n \in 1 .. Len(v)} /\ Of(v) = {v[n] : n \in 1 .. Len(v)}
    BY <1>2, Zenon DEF Of
  <2> QED
    BY <2>1, <2>2, <2>3
<1> QED
  BY <1>1, <1>6, <1>7

\* Drawing the first vectors at random changes their order only.
LEMMA PermutedIs ==
  ASSUME slicerD \in Nat, NEW v \in Seq(Word), NEW draws \in [1 .. slicerD -> 1 .. Len(v)],
         \A n \in 1 .. slicerD : draws[n] >= n
  PROVE  /\ Slicing!Permuted(v, draws) \in Seq(Word) /\ Len(Slicing!Permuted(v, draws)) = Len(v)
         /\ Of(Slicing!Permuted(v, draws)) = Of(v)
<1>1. PICK f : /\ Folds(f, "exchange", v, draws, slicerD)
               /\ Slicing!Permuted(v, draws) = f[1 .. slicerD]
  BY PermutedFold
<1>2. /\ f[1 .. 0] = v
      /\ \A m \in Nat : m < slicerD => f[1 .. m + 1] = StepOf("exchange", draws, f[1 .. m], m + 1)
  BY <1>1, FoldSteps
<1> DEFINE Right(w) == w \in Seq(Word) /\ Len(w) = Len(v) /\ Of(w) = Of(v)
           Bad == {m \in Nat : m <= slicerD /\ ~Right(f[1 .. m])}
<1>3. Bad = {}
  <2> SUFFICES ASSUME Bad # {} PROVE FALSE
    OBVIOUS
  <2>1. PICK m \in Bad : \A n \in Bad : m <= n
    BY Least
  <2>2. m # 0
    BY <1>2, <2>1
  <2>3. PICK n \in Nat : m = n + 1 /\ n < slicerD
    <3>1. m - 1 \in Nat /\ m = (m - 1) + 1 /\ m - 1 < slicerD
      BY <2>1, <2>2
    <3> QED
      BY <3>1
  <2>4. Right(f[1 .. n])
    BY <2>1, <2>3
  <2>5. f[1 .. m] = Slicing!Exchanged(f[1 .. n], m, draws[m])
    BY <1>2, <2>3 DEF StepOf
  <2>6. m \in 1 .. Len(v) /\ draws[m] \in 1 .. Len(v)
    <3>1. m \in 1 .. slicerD
      BY <2>3
    <3>2. draws[m] \in 1 .. Len(v) /\ draws[m] >= m
      BY <3>1
    <3> QED
      BY <2>3, <3>2
  <2>7. Right(f[1 .. m])
    BY <2>4, <2>5, <2>6, ExchangedIs
  <2> QED
    BY <2>1, <2>7
<1>4. Right(f[1 .. slicerD])
  BY <1>3
<1> QED
  BY <1>1, <1>4

LEMMA PairIs ==
  \A p, q : <<p, q>>[1] = p /\ <<p, q>>[2] = q
OBVIOUS

LEMMA SatisfyIs ==
  ASSUME NEW x \in Word, NEW e
  PROVE  Slicing!satisfy_equation(x, e) <=> ~Odd(x \cap e)
<1>1. IsFiniteSet(x \cap e)
  BY FiniteWords, FS_Intersection
<1>2. PICK p \in Nat : p = Cardinality(x \cap e)
  BY <1>1, FS_CardinalityType
<1>3. p % 2 = 0 <=> ~(p % 2 = 1)
  OBVIOUS
<1>4. Slicing!satisfy_equation(x, e) <=> Cardinality(x \cap e) % 2 = 0
  BY SameCardinality, Zenon DEF Slicing!satisfy_equation
<1> QED
  BY <1>2, <1>3, <1>4 DEF Odd

CountTo(v, m, x) == Cardinality({n \in 1 .. m : v[n] = x})

\* The first m words of a list went to two: those that satisfy an equation, and the others.
Parted(v, rej, e, m, kept, out) ==
    /\ kept \in Seq(Word) /\ out \in Seq(Word)
    /\ Of(kept) = {x \in {v[n] : n \in 1 .. m} : ~Odd(x \cap e)}
    /\ Len(kept) + Len(out) = m + Len(rej)
    /\ \A x : Count(kept, x) + Count(out, x) = CountTo(v, m, x) + Count(rej, x)

LEMMA CountNext ==
  ASSUME NEW v \in Seq(Word), NEW m \in Nat, NEW x
  PROVE  /\ CountTo(v, m, x) \in Nat
         /\ CountTo(v, m + 1, x)
                = CountTo(v, m, x) + (IF v[m + 1] = x THEN 1 ELSE 0)
<1> DEFINE A == {n \in 1 .. m : v[n] = x}
<1>1. IsFiniteSet(A) /\ Cardinality(A) \in Nat /\ m + 1 \notin A
  BY IndicesFinite
<1>2. \A n : n \in 1 .. m + 1 <=> n \in 1 .. m \/ n = m + 1
  OBVIOUS
<1>3. {n \in 1 .. m + 1 : v[n] = x} = IF v[m + 1] = x THEN A \cup {m + 1} ELSE A
  BY <1>2
<1>4. Cardinality(A \cup {m + 1}) = Cardinality(A) + 1
  <2> HIDE DEF A
  <2> QED
    BY <1>1, FS_AddElement
<1>5. CASE v[m + 1] = x
  <2>1. CountTo(v, m + 1, x) = Cardinality(A) + 1
    BY <1>3, <1>4, <1>5, Zenon DEF CountTo
  <2> QED
    BY <1>1, <1>5, <2>1, Zenon DEF CountTo
<1>6. CASE v[m + 1] # x
  <2>1. CountTo(v, m + 1, x) = Cardinality(A)
    BY <1>3, <1>6, Zenon DEF CountTo
  <2>2. Cardinality(A) + 0 = Cardinality(A)
    <3> HIDE DEF A
    <3> QED
      BY <1>1
  <2> QED
    BY <1>1, <1>6, <2>1, <2>2, Zenon DEF CountTo
<1> QED
  BY <1>5, <1>6, Zenon

LEMMA PartedStarts ==
  ASSUME NEW v \in Seq(Word), NEW rej \in Seq(Word), NEW e
  PROVE  Parted(v, rej, e, 0, <<>>, rej)
<1>1. \A x : Count(<<>>, x) = 0 /\ Count(rej, x) \in Nat /\ CountTo(v, 0, x) = 0
  <2> TAKE x
  <2>1. {n \in 1 .. 0 : v[n] = x} = {}
    OBVIOUS
  <2> QED
    BY <2>1, CountFew, CountType, FS_EmptySet DEF CountTo
<1>2. Of(<<>>) = {}
  BY DEF Of
<1> QED
  BY <1>1, <1>2 DEF Parted

LEMMA PartedStep ==
  ASSUME NEW v \in Seq(Word), NEW rej \in Seq(Word), NEW m \in Nat, m + 1 <= Len(v),
         NEW kept, NEW out, Parted(v, rej, best_equation, m, kept, out),
         NEW lists, lists = Slicing!Moved(<<kept, out>>, v[m + 1])
  PROVE  /\ lists = <<lists[1], lists[2]>>
         /\ Parted(v, rej, best_equation, m + 1, lists[1], lists[2])
<1> DEFINE y == v[m + 1]
<1>1. y \in Word /\ kept \in Seq(Word) /\ out \in Seq(Word) /\ <<y>> \in Seq(Word)
  BY DEF Parted
<1>2. {v[n] : n \in 1 .. m + 1} = {v[n] : n \in 1 .. m} \cup {y}
  <2>1. \A n : n \in 1 .. m + 1 <=> n \in 1 .. m \/ n = m + 1
    OBVIOUS
  <2> QED
    BY <2>1
<1>3. \A x : /\ Count(<<y>>, x) = IF y = x THEN 1 ELSE 0
             /\ Count(kept, x) \in Nat /\ Count(out, x) \in Nat /\ Count(rej, x) \in Nat
             /\ CountTo(v, m, x) \in Nat
             /\ CountTo(v, m + 1, x)
                    = CountTo(v, m, x) + (IF y = x THEN 1 ELSE 0)
  <2> TAKE x
  <2>1. Count(<<y>>, x) = IF y = x THEN 1 ELSE 0
    BY CountFew, Zenon
  <2>2. Count(kept, x) \in Nat /\ Count(out, x) \in Nat /\ Count(rej, x) \in Nat
    BY <1>1, CountType
  <2>3. /\ CountTo(v, m, x) \in Nat
        /\ CountTo(v, m + 1, x)
               = CountTo(v, m, x) + (IF y = x THEN 1 ELSE 0)
    BY CountNext
  <2> QED
    BY <2>1, <2>2, <2>3, Zenon
<1>4. \A x : Count(kept, x) + Count(out, x) = CountTo(v, m, x) + Count(rej, x)
  BY DEF Parted
<1>5. CASE ~Odd(y \cap best_equation)
  <2>1. lists[1] = kept \o <<y>> /\ lists[2] = out /\ lists = <<kept \o <<y>>, out>>
    <3>1. Append(kept, y) = kept \o <<y>>
      BY <1>1
    <3>2. lists = <<Append(kept, y), out>>
      BY <1>1, <1>5, SatisfyIs DEF Slicing!Moved
    <3> QED
      BY <3>1, <3>2, PairIs, Zenon
  <2>2. \A x : Count(kept \o <<y>>, x) = Count(kept, x) + Count(<<y>>, x)
    BY <1>1, CountConcat
  <2>3. Of(kept \o <<y>>) = Of(kept) \cup {y}
    <3>1. /\ DOMAIN (kept \o <<y>>) = 1 .. Len(kept) + 1 /\ DOMAIN kept = 1 .. Len(kept)
          /\ \A n \in 1 .. Len(kept) + 1 : (kept \o <<y>>)[n] = IF n = Len(kept) + 1 THEN y ELSE kept[n]
          /\ Len(kept) \in Nat
      BY <1>1
    <3>2. \A n : n \in 1 .. Len(kept) + 1 <=> n \in 1 .. Len(kept) \/ n = Len(kept) + 1
      BY <3>1
    <3>3. \A n \in 1 .. Len(kept) : n # Len(kept) + 1
      BY <3>1
    <3> HIDE DEF y
    <3> QED
      BY <3>1, <3>2, <3>3 DEF Of
  <2>4. Of(kept \o <<y>>) = {x \in {v[n] : n \in 1 .. m + 1} : ~Odd(x \cap best_equation)}
    <3> HIDE DEF y
    <3> QED
      BY <1>2, <1>5, <2>3 DEF Parted
  <2>5. Len(kept \o <<y>>) + Len(out) = m + 1 + Len(rej) /\ kept \o <<y>> \in Seq(Word)
    <3>1. Len(kept \o <<y>>) = Len(kept) + 1
      BY <1>1
    <3>2. Len(kept) \in Nat /\ Len(out) \in Nat /\ Len(rej) \in Nat
      BY <1>1
    <3>3. Len(kept) + Len(out) = m + Len(rej)
      BY DEF Parted
    <3> QED
      BY <1>1, <3>1, <3>2, <3>3
  <2>6. \A x : Count(kept \o <<y>>, x) + Count(out, x)
                   = CountTo(v, m + 1, x) + Count(rej, x)
    <3> TAKE x
    <3>1. PICK p \in Nat : p = Count(kept, x)
      BY <1>3
    <3>2. PICK q \in Nat : q = Count(out, x)
      BY <1>3
    <3>3. PICK r \in Nat : r = Count(rej, x)
      BY <1>3
    <3>4. PICK z \in Nat : z = CountTo(v, m, x)
      BY <1>3
    <3>5. PICK w \in Nat : w = Count(<<y>>, x) /\ CountTo(v, m + 1, x) = z + w
      BY <1>3, <3>4
    <3>6. p + q = z + r
      BY <1>4, <3>1, <3>2, <3>3, <3>4
    <3>7. Count(kept \o <<y>>, x) = p + w
      BY <2>2, <3>1, <3>5, Zenon
    <3>8. (p + w) + q = (z + w) + r
      BY <3>6
    <3> QED
      BY <3>2, <3>3, <3>5, <3>7, <3>8, Zenon
  <2> HIDE DEF y
  <2> QED
    BY <1>1, <2>1, <2>4, <2>5, <2>6, Zenon DEF Parted
<1>6. CASE Odd(y \cap best_equation)
  <2>1. lists[1] = kept /\ lists[2] = <<y>> \o out /\ lists = <<kept, <<y>> \o out>>
    <3>1. lists = <<kept, <<y>> \o out>>
      BY <1>1, <1>6, SatisfyIs DEF Slicing!Moved
    <3> QED
      BY <3>1, PairIs, Zenon
  <2>2. \A x : Count(<<y>> \o out, x) = Count(<<y>>, x) + Count(out, x)
    BY <1>1, CountConcat
  <2>3. Of(kept) = {x \in {v[n] : n \in 1 .. m + 1} : ~Odd(x \cap best_equation)}
    <3> HIDE DEF y
    <3> QED
      BY <1>2, <1>6 DEF Parted
  <2>4. Len(kept) + Len(<<y>> \o out) = m + 1 + Len(rej) /\ <<y>> \o out \in Seq(Word)
    <3>1. Len(<<y>> \o out) = Len(out) + 1
      BY <1>1
    <3>2. Len(kept) \in Nat /\ Len(out) \in Nat /\ Len(rej) \in Nat
      BY <1>1
    <3>3. Len(kept) + Len(out) = m + Len(rej)
      BY DEF Parted
    <3> QED
      BY <1>1, <3>1, <3>2, <3>3
  <2>5. \A x : Count(kept, x) + Count(<<y>> \o out, x)
                   = CountTo(v, m + 1, x) + Count(rej, x)
    <3> TAKE x
    <3>1. PICK p \in Nat : p = Count(kept, x)
      BY <1>3
    <3>2. PICK q \in Nat : q = Count(out, x)
      BY <1>3
    <3>3. PICK r \in Nat : r = Count(rej, x)
      BY <1>3
    <3>4. PICK z \in Nat : z = CountTo(v, m, x)
      BY <1>3
    <3>5. PICK w \in Nat : w = Count(<<y>>, x) /\ CountTo(v, m + 1, x) = z + w
      BY <1>3, <3>4
    <3>6. p + q = z + r
      BY <1>4, <3>1, <3>2, <3>3, <3>4
    <3>7. Count(<<y>> \o out, x) = w + q
      BY <2>2, <3>2, <3>5, Zenon
    <3>8. p + (w + q) = (z + w) + r
      BY <3>6
    <3> QED
      BY <3>1, <3>3, <3>5, <3>7, <3>8, Zenon
  <2> HIDE DEF y
  <2> QED
    BY <1>1, <2>1, <2>3, <2>4, <2>5, Zenon DEF Parted
<1> QED
  BY <1>5, <1>6

\* filter_active keeps the vectors that satisfy the equation, and loses none.
Filtered(v, rej, kept, out) ==
    /\ kept \in Seq(Word) /\ out \in Seq(Word)
    /\ Of(kept) = Satisfying(Of(v), best_equation)
    /\ Len(kept) + Len(out) = Len(v) + Len(rej)
    /\ \A x : Count(kept, x) + Count(out, x) = Count(v, x) + Count(rej, x)

LEMMA FilteredIs ==
  ASSUME NEW v \in Seq(Word), NEW rej \in Seq(Word), NEW lists,
         lists = Slicing!FoldLeft(Slicing!Moved, <<<<>>, rej>>, v)
  PROVE  Filtered(v, rej, lists[1], lists[2])
<1>1. PICK f : Folds(f, "move", <<<<>>, rej>>, v, Len(v)) /\ lists = f[1 .. Len(v)]
  BY MovedFold
<1>2. Len(v) \in Nat /\ DOMAIN v = 1 .. Len(v)
  OBVIOUS
<1>3. /\ f[1 .. 0] = <<<<>>, rej>>
      /\ \A m \in Nat : m < Len(v) => f[1 .. m + 1] = StepOf("move", v, f[1 .. m], m + 1)
  BY <1>1, <1>2, FoldSteps
<1> DEFINE Right(m) == /\ f[1 .. m] = <<f[1 .. m][1], f[1 .. m][2]>>
                       /\ Parted(v, rej, best_equation, m, f[1 .. m][1], f[1 .. m][2])
           Bad == {m \in Nat : m <= Len(v) /\ ~Right(m)}
<1>4. Right(0)
  BY <1>3, PartedStarts
<1>5. Bad = {}
  <2> SUFFICES ASSUME Bad # {} PROVE FALSE
    OBVIOUS
  <2>1. PICK m \in Bad : \A n \in Bad : m <= n
    BY Least
  <2>2. m # 0
    <3> HIDE DEF Right
    <3> QED
      BY <1>4, <2>1
  <2>3. PICK n \in Nat : m = n + 1 /\ n < Len(v)
    <3>1. m - 1 \in Nat /\ m = (m - 1) + 1 /\ m - 1 < Len(v)
      BY <1>2, <2>1, <2>2
    <3> QED
      BY <3>1
  <2>4. Right(n)
    <3> HIDE DEF Right
    <3> QED
      BY <1>2, <2>1, <2>3
  <2>5. f[1 .. m] = Slicing!Moved(f[1 .. n], v[m])
    BY <1>3, <2>3 DEF StepOf
  <2>6. f[1 .. m] = Slicing!Moved(<<f[1 .. n][1], f[1 .. n][2]>>, v[m])
    BY <2>4, <2>5
  <2>7. Right(m)
    <3>1. n + 1 <= Len(v)
      BY <1>2, <2>3
    <3> QED
      BY <2>3, <2>4, <2>6, <3>1, PartedStep
  <2> HIDE DEF Right
  <2> QED
    BY <2>1, <2>7
<1>6. Right(Len(v))
  <2> HIDE DEF Right
  <2> QED
    BY <1>2, <1>5
<1>7. Parted(v, rej, best_equation, Len(v), lists[1], lists[2])
  BY <1>1, <1>6
<1> QED
  BY <1>2, <1>7, Zenon DEF Filtered, Parted, Satisfying, Of, Count, CountTo

-----------------------------------------------------------------------------
(* The steps of the slicer *)

LEMMA SlicerNames ==
  /\ Slicing!L = slicerL /\ Slicing!l = input.l
  /\ Slicing!k = Len(equations) /\ Slicing!d = slicerD
BY DEF Slicing!L, Slicing!l, Slicing!k, Slicing!d, slicerL, slicerD

LEMMA SlicerSizes ==
  ASSUME SlicerTypeOK
  PROVE  /\ W \in Nat \ {0} /\ input.l \in 0 .. W - 1 /\ slicerL \in Seq(Word)
         /\ slicerD \in 0 .. W /\ Len(equations) \in Nat
         /\ equations \in Seq(Word) /\ active \in Seq(Word) /\ reject \in Seq(Word) /\ done \in Seq(Word)
<1>1. input \in SlicerInputs /\ {active, reject, done, equations} \subseteq Seq(Word) /\ Len(equations) <= W
  BY DEF SlicerTypeOK
<1>2. equations \in Seq(Word) /\ active \in Seq(Word) /\ reject \in Seq(Word) /\ done \in Seq(Word)
  BY <1>1, Zenon
<1>3. Len(equations) \in Nat
  BY <1>2
<1> QED
  BY <1>1, <1>2, <1>3, SlicerAssumed DEF slicerD, slicerL

\* What only depends on the lists and the output.
LEMMA ListsKept ==
  ASSUME SlicerInv, UNCHANGED <<input, active, reject, equations, done, output_size>>,
         spc \notin {"invert", "saved", "written"}, spc' \notin {"invert", "saved", "written"}
  PROVE  /\ EquationsInv' /\ SliceInv' /\ InvertInv' /\ SavedInv' /\ CountInv' /\ SizeInv'
<1>1. EquationsInv'
  BY DEF SlicerInv, EquationsInv, slicerD
<1>2. SliceInv' /\ InvertInv' /\ SavedInv'
  BY DEF SliceInv, InvertInv, SavedInv
<1>3. CountInv'
  BY DEF SlicerInv, CountInv, slicerL
<1>4. SizeInv'
  BY DEF SlicerInv, SizeInv, InHand, Slicing!output_space, Slicing!Header, Slicing!L, Slicing!l
<1> QED
  BY <1>1, <1>2, <1>3, <1>4

LEMMA StartRoundInv ==
  ASSUME SlicerInv, Slicing!StartRound
  PROVE  SlicerInv'
<1>1. /\ spc = "slice" /\ active # <<>> /\ Len(equations) < input.l
      /\ M' = active /\ rows' = Slicing!transpose(active) /\ E' = [r \in Bit |-> {r}]
      /\ j' = 0 /\ scan' = 1 /\ trials' = RandomTrials /\ spc' = "rank"
      /\ UNCHANGED <<input, active, reject, equations>>
      /\ UNCHANGED <<best_weight, best_equation, it>>
      /\ UNCHANGED <<slice, done, output_size>>
  BY SlicerNames, SlicingIs DEF Slicing!StartRound, Slicing!StartEchelonize, Slicing!listVars,
     Slicing!bestVars, Slicing!outVars
<1>2. SlicerTypeOK
  BY DEF SlicerInv
<1>3. active \in Seq(Word) /\ slicerD \in 0 .. W
  BY <1>2, SlicerSizes
<1>4. /\ Slicing!transpose(active) \in [Bit -> SUBSET Nat]
      /\ Echelon(active, Slicing!transpose(active), Identity, 0, 1, RandomTrials)
  BY <1>3, EchelonStarts
<1>5. E' = Identity
  BY <1>1 DEF Identity
<1>6. SlicerTypeOK'
  <2>1. E' \in [Bit -> Word] /\ RandomTrials \in Nat /\ 0 \in 0 .. W
    BY <1>5, IdentityIs, SlicerAssumed
  <2> QED
    BY <1>1, <1>2, <1>3, <1>4, <2>1 DEF SlicerTypeOK
<1>7. RoundInv'
  BY <1>1 DEF RoundInv, InRound, Searching
<1>8. EchelonInv'
  <2>1. j' <= slicerD'
    BY <1>1, <1>3 DEF slicerD
  <2> QED
    BY <1>1, <1>4, <1>5, <2>1 DEF EchelonInv
<1>9. BestInv'
  BY <1>1 DEF BestInv, Searching
<1> QED
  BY <1>1, <1>6, <1>7, <1>8, <1>9, ListsKept DEF SlicerInv

LEMMA PivotInv ==
  ASSUME SlicerInv, Slicing!Pivot
  PROVE  SlicerInv'
<1> DEFINE p == Slicing!Min(Slicing!PivotRows)
<1>1. /\ spc \in {"rank", "search"} /\ j < slicerD /\ Slicing!PivotRows # {}
      /\ rows' = Pivoted(rows, rows, p, j) /\ E' = Pivoted(E, rows, p, j)
      /\ j' = j + 1 /\ scan' = j + 2
      /\ UNCHANGED <<M, trials, spc>>
      /\ UNCHANGED <<input, active, reject, equations>>
      /\ UNCHANGED <<best_weight, best_equation, it>>
      /\ UNCHANGED <<slice, done, output_size>>
  BY SlicerNames DEF Slicing!Pivot, Pivoted, Slicing!listVars, Slicing!bestVars, Slicing!outVars
<1>2. SlicerTypeOK
  BY DEF SlicerInv
<1>3. slicerD \in 0 .. W /\ j \in 0 .. W /\ W \in Nat
  BY <1>2, SlicerSizes DEF SlicerTypeOK
<1>4. j \in Bit /\ j + 1 \in 0 .. W /\ j + 1 <= slicerD /\ j + 2 \in Nat
  BY <1>1, <1>3 DEF Bit
<1>5. p \in j .. W - 1 /\ j \in rows[p]
  <2>1. Slicing!PivotRows = {r \in j .. W - 1 : j \in rows[r]}
    BY DEF Slicing!PivotRows
  <2>2. Slicing!PivotRows \in SUBSET Nat
    BY <1>3, <2>1
  <2>3. p \in Slicing!PivotRows
    BY <1>1, <2>2, MinIs
  <2> QED
    BY <2>1, <2>3
<1> HIDE DEF p
<1>6. M \in Seq(Word) /\ rows \in [Bit -> SUBSET Nat] /\ E \in [Bit -> Word] /\ p \in Bit
  BY <1>2, <1>3, <1>5 DEF SlicerTypeOK, Bit
<1>7. Echelon(M, rows, E, j, scan, trials)
  BY <1>1 DEF SlicerInv, EchelonInv
<1>8. Echelon(M, rows', E', j + 1, j + 2, trials)
  BY <1>1, <1>4, <1>5, <1>6, <1>7, EchelonPivots
<1>9. SlicerTypeOK'
  <2>1. rows' \in [Bit -> SUBSET Nat]
    BY <1>1, <1>4, <1>6, PivotedType
  <2>2. E' \in [Bit -> Word]
    BY <1>1, <1>4, <1>6, PivotedType DEF Word
  <2> QED
    BY <1>1, <1>2, <1>4, <2>1, <2>2 DEF SlicerTypeOK
<1>10. RoundInv'
  BY <1>1 DEF SlicerInv, RoundInv, InRound, Searching
<1>11. EchelonInv'
  BY <1>1, <1>4, <1>8 DEF EchelonInv, slicerD
<1>12. BestInv'
  BY <1>1 DEF SlicerInv, BestInv, Searching, Divides, slicerD
<1> QED
  BY <1>1, <1>9, <1>10, <1>11, <1>12, ListsKept DEF SlicerInv


LEMMA SwapColumnInv ==
  ASSUME SlicerInv, Slicing!SwapColumn
  PROVE  SlicerInv'
<1>1. /\ spc \in {"rank", "search"} /\ j < slicerD /\ Slicing!PivotRows = {}
      /\ UNCHANGED <<M, E, j, spc>>
      /\ UNCHANGED <<input, active, reject, equations>>
      /\ UNCHANGED <<best_weight, best_equation, it>>
      /\ UNCHANGED <<slice, done, output_size>>
  BY SlicerNames DEF Slicing!SwapColumn, Slicing!listVars, Slicing!bestVars, Slicing!outVars
<1>2. SlicerTypeOK
  BY DEF SlicerInv
<1>3. slicerD \in 0 .. W /\ j \in Nat /\ W \in Nat /\ scan \in Nat /\ trials \in Nat
  BY <1>2, SlicerSizes DEF SlicerTypeOK
<1>4. M \in Seq(Word) /\ rows \in [Bit -> SUBSET Nat] /\ E \in [Bit -> Word] /\ Len(M) \in Nat
  BY <1>2 DEF SlicerTypeOK
<1>5. Echelon(M, rows, E, j, scan, trials) /\ j <= slicerD
  BY <1>1 DEF SlicerInv, EchelonInv
<1>6. \A r \in j .. W - 1 : j \notin rows[r]
  BY <1>1 DEF Slicing!PivotRows
<1>7. \E o \in j + 1 .. Len(M) - 1 :
          /\ rows' = Slicing!swap_columns(j, o)
          /\ \/ trials > 0 /\ j + 1 < Len(M) /\ scan' = scan /\ trials' = trials - 1
             \/ ~(trials > 0 /\ j + 1 < Len(M)) /\ o = scan /\ scan' = scan + 1 /\ trials' = trials
  <2>1. CASE /\ trials > 0 /\ j + 1 < Len(M)
             /\ \E o \in j + 1 .. Len(M) - 1 : rows' = Slicing!swap_columns(j, o)
             /\ trials' = trials - 1 /\ UNCHANGED scan
    BY <2>1
  <2>2. CASE /\ ~(trials > 0 /\ j + 1 < Len(M)) /\ scan < Len(M)
             /\ rows' = Slicing!swap_columns(j, scan) /\ scan' = scan + 1 /\ UNCHANGED trials
    <3>1. scan >= j + 1
      BY <1>5 DEF Echelon
    <3>2. scan \in j + 1 .. Len(M) - 1
      BY <1>3, <1>4, <2>2, <3>1
    <3> QED
      BY <2>2, <3>2
  <2> QED
    BY <2>1, <2>2 DEF Slicing!SwapColumn, Slicing!NextColumn
<1>8. PICK o \in j + 1 .. Len(M) - 1 :
          /\ rows' = Slicing!swap_columns(j, o)
          /\ \/ trials > 0 /\ j + 1 < Len(M) /\ scan' = scan /\ trials' = trials - 1
             \/ ~(trials > 0 /\ j + 1 < Len(M)) /\ o = scan /\ scan' = scan + 1 /\ trials' = trials
  BY <1>7
<1>9. scan' \in Nat /\ trials' \in Nat /\ o \in Nat
  BY <1>3, <1>4, <1>8
<1>10. Echelon(M, rows', E, j, scan', trials')
  BY <1>3, <1>4, <1>5, <1>6, <1>8, <1>9, EchelonSwaps
<1>11. rows' \in [Bit -> SUBSET Nat]
  BY <1>3, <1>4, <1>8, <1>9, SwapColumnsIs
<1>12. SlicerTypeOK'
  BY <1>1, <1>2, <1>9, <1>11 DEF SlicerTypeOK
<1>13. RoundInv'
  BY <1>1 DEF SlicerInv, RoundInv, InRound, Searching
<1>14. EchelonInv'
  BY <1>1, <1>5, <1>10 DEF EchelonInv, slicerD
<1>15. BestInv'
  BY <1>1 DEF SlicerInv, BestInv, Searching, Divides, slicerD
<1> QED
  BY <1>1, <1>12, <1>13, <1>14, <1>15, ListsKept DEF SlicerInv

\* When echelonize ends, what is below the pivots is zero; with all the equations known that is
\* after all W - k columns.
LEMMA EchelonizedIs ==
  ASSUME SlicerInv, spc \in {"rank", "search"}, Slicing!Echelonized
  PROVE  /\ Echelon(M, rows, E, j, scan, trials)
         /\ \A r \in j .. W - 1 : rows[r] = {} \/ j = slicerD
         /\ Dual(Of(active)) = Span(equations) =>
                /\ j = slicerD
                /\ \A r \in j .. W - 1 : rows[r] = {}
<1>1. SlicerTypeOK
  BY DEF SlicerInv
<1>2. /\ slicerD \in 0 .. W /\ j \in 0 .. W /\ W \in Nat /\ scan \in Nat /\ trials \in Nat
      /\ equations \in Seq(Word) /\ Len(equations) \in Nat
      /\ M \in Seq(Word) /\ E \in [Bit -> Word]
  BY <1>1, SlicerSizes DEF SlicerTypeOK
<1>3. Echelon(M, rows, E, j, scan, trials) /\ j <= slicerD
  BY DEF SlicerInv, EchelonInv
<1>4. Of(M) = Of(active) /\ Independent(equations)
  BY DEF SlicerInv, RoundInv, EquationsInv, InRound, Searching
<1>5. j # slicerD => \A r \in j .. W - 1 : rows[r] = {}
  <2> SUFFICES ASSUME j # slicerD PROVE \A r \in j .. W - 1 : rows[r] = {}
    OBVIOUS
  <2>1. Slicing!PivotRows = {} /\ ~(trials > 0 /\ j + 1 < Len(M)) /\ scan >= Len(M)
    BY SlicerNames DEF Slicing!Echelonized
  <2>2. \A r \in j .. W - 1 : j \notin rows[r]
    BY <2>1 DEF Slicing!PivotRows
  <2> QED
    BY <1>2, <1>3, <2>1, <2>2, EchelonEnds
<1>6. ASSUME Dual(Of(active)) = Span(equations)
      PROVE  j = slicerD /\ \A r \in j .. W - 1 : rows[r] = {}
  <2>1. j = slicerD
    <3> SUFFICES ASSUME j # slicerD PROVE FALSE
      OBVIOUS
    <3>1. W - j <= Len(equations)
      BY <1>2, <1>3, <1>4, <1>5, <1>6, RankEnough
    <3> QED
      BY <1>2, <1>3, <3>1 DEF slicerD
  <2>2. j = W - Len(equations)
    BY <2>1 DEF slicerD
  <2> QED
    BY <1>2, <1>3, <1>4, <1>6, <2>1, <2>2, RankExact
<1> QED
  BY <1>3, <1>5, <1>6

LEMMA RankCheckedInv ==
  ASSUME SlicerInv, Slicing!RankChecked
  PROVE  SlicerInv'
<1>1. /\ spc = "rank" /\ Slicing!Echelonized
      /\ equations' = equations \o Slicing!FreeEquations
      /\ best_weight' = Len(M) /\ best_equation' = {} /\ it' = 0
      /\ UNCHANGED <<input, active, reject>>
      /\ UNCHANGED <<M, rows, E, j, scan, trials>>
      /\ UNCHANGED <<slice, done, output_size>>
  BY DEF Slicing!RankChecked, Slicing!roundVars, Slicing!outVars, Slicing!Zero
<1>2. spc' = IF \E r \in j .. slicerD - 1 : rows[r] # {} THEN "assert"
             ELSE IF Len(equations) + (slicerD - j) >= input.l THEN "slice"
             ELSE IF Len(M) < j THEN "assert" ELSE "permute"
  BY SlicerNames, Zenon DEF Slicing!RankChecked
<1>3. SlicerTypeOK
  BY DEF SlicerInv
<1>4. /\ slicerD \in 0 .. W /\ j \in 0 .. W /\ W \in Nat \ {0} /\ scan \in Nat /\ trials \in Nat
      /\ equations \in Seq(Word) /\ Len(equations) \in Nat /\ input.l \in 0 .. W - 1
      /\ M \in Seq(Word) /\ Len(M) \in Nat /\ E \in [Bit -> Word]
  BY <1>3, SlicerSizes DEF SlicerTypeOK
<1>5. /\ Of(M) = Of(active) /\ M # <<>> /\ Len(equations) < input.l
      /\ EquationsInv /\ CountInv /\ SizeInv
  BY <1>1 DEF SlicerInv, RoundInv, InRound
<1>6. /\ Echelon(M, rows, E, j, scan, trials) /\ j <= slicerD
      /\ \A r \in j .. W - 1 : rows[r] = {} \/ j = slicerD
      /\ Dual(Of(active)) = Span(equations) => j = slicerD
  BY <1>1, EchelonizedIs DEF SlicerInv, EchelonInv
<1>7. ~ \E r \in j .. slicerD - 1 : rows[r] # {}
  <2>1. ASSUME NEW r \in j .. slicerD - 1 PROVE rows[r] = {}
    <3>1. r \in j .. W - 1 /\ j # slicerD
      BY <1>4
    <3> QED
      BY <1>6, <3>1
  <2> QED
    BY <2>1
<1>8. ~(Len(M) < j)
  BY <1>4, <1>6, PivotsFit
<1>9. Slicing!FreeEquations = [r \in 1 .. slicerD - j |-> E[j + r - 1]]
  BY SlicerNames, Zenon DEF Slicing!FreeEquations
\* Either way the equations are now all that the active vectors satisfy.
<1>10. /\ equations' \in Seq(Word) /\ Independent(equations')
       /\ Dual(Of(active)) = Span(equations')
       /\ Len(equations') = Len(equations) + (slicerD - j) /\ j = W - Len(equations')
  <2>1. CASE equations = <<>>
    <3>1. slicerD = W /\ Len(equations) = 0
      BY <1>4, <2>1 DEF slicerD
    <3>2. Slicing!FreeEquations = FreeRows(E, j)
      BY <1>9, <3>1 DEF FreeRows
    <3>3. \A r \in j .. W - 1 : rows[r] = {}
      <4>1. j = W => \A r \in j .. W - 1 : FALSE
        BY <1>4
      <4> QED
        BY <1>6, <3>1, <4>1
    <3>4. /\ FreeRows(E, j) \in Seq(Word) /\ Len(FreeRows(E, j)) = W - j
          /\ Independent(FreeRows(E, j))
          /\ Dual(Of(M)) = Span(FreeRows(E, j))
      BY <1>4, <1>6, <3>3, FreeSpan
    <3>5. equations' = FreeRows(E, j)
      BY <1>1, <2>1, <3>2, <3>4
    <3> QED
      BY <1>4, <1>5, <3>1, <3>4, <3>5
  <2>2. CASE equations # <<>>
    <3>1. Dual(Of(active)) = Span(equations) /\ Independent(equations)
      BY <1>5, <2>2 DEF EquationsInv
    <3>2. j = slicerD
      BY <1>6, <3>1
    <3>3. Slicing!FreeEquations = <<>>
      BY <1>4, <1>9, <3>2
    <3>4. equations' = equations
      BY <1>1, <1>4, <3>3
    <3> QED
      BY <1>4, <3>1, <3>2, <3>4 DEF slicerD
  <2> QED
    BY <2>1, <2>2
<1>11. \/ spc' = "slice" /\ Len(equations') >= input.l
       \/ spc' = "permute" /\ Len(equations') < input.l
  <2>1. spc' = IF Len(equations) + (slicerD - j) >= input.l THEN "slice" ELSE "permute"
    BY <1>2, <1>7, <1>8, Zenon
  <2>2. spc' = IF Len(equations') >= input.l THEN "slice" ELSE "permute"
    BY <1>10, <2>1, Zenon
  <2>3. Len(equations') >= input.l \/ Len(equations') < input.l
    BY <1>4, <1>10
  <2>4. ~(Len(equations') >= input.l /\ Len(equations') < input.l)
    BY <1>4, <1>10
  <2> QED
    BY <2>2, <2>3, <2>4, Zenon
<1>12. active # <<>>
  BY <1>4, <1>5 DEF Of
<1>13. reject # <<>> => equations' = equations
  <2> SUFFICES ASSUME reject # <<>> PROVE equations' = equations
    OBVIOUS
  <2>1. equations # <<>>
    BY <1>4, <1>5 DEF EquationsInv
  <2>2. j = slicerD
    BY <1>5, <1>6, <2>1 DEF EquationsInv
  <2>3. Slicing!FreeEquations = <<>>
    BY <1>4, <1>9, <2>2
  <2> QED
    BY <1>1, <1>4, <2>3
<1>14. SlicerTypeOK'
  <2>1. Len(equations') <= W /\ {} \in Word
    BY <1>4, <1>10 DEF Word
  <2>2. {active, reject, done, equations}' \subseteq Seq(Word)
    BY <1>1, <1>3, <1>10 DEF SlicerTypeOK
  <2> QED
    BY <1>1, <1>3, <1>4, <1>11, <2>1, <2>2 DEF SlicerTypeOK
<1>15. EquationsInv'
  <2>1. reject' # <<>> => Len(equations') \in 1 .. input'.l /\ Len(active') >= slicerD'
    BY <1>1, <1>5, <1>13 DEF EquationsInv, slicerD
  <2> QED
    BY <1>1, <1>10, <1>12, <2>1 DEF EquationsInv
<1>16. RoundInv'
  BY <1>1, <1>5, <1>10, <1>11 DEF RoundInv, InRound, Searching
<1>17. EchelonInv' /\ SliceInv' /\ InvertInv' /\ SavedInv'
  BY <1>11 DEF EchelonInv, SliceInv, InvertInv, SavedInv
<1>18. BestInv'
  BY <1>1, <1>4, <1>11 DEF BestInv, Searching
<1>19. CountInv'
  BY <1>1, <1>5, <1>11 DEF CountInv, slicerL
<1>20. SizeInv'
  BY <1>1, <1>5, <1>11 DEF SizeInv, InHand, Slicing!output_space, Slicing!Header, Slicing!L, Slicing!l
<1> QED
  BY <1>14, <1>15, <1>16, <1>17, <1>18, <1>19, <1>20 DEF SlicerInv

LEMMA PermuteInv ==
  ASSUME SlicerInv, Slicing!Permute
  PROVE  SlicerInv'
<1>1. /\ spc = "permute" /\ it' = it + 1 /\ spc' = "search"
      /\ E' = [r \in Bit |-> {r}] /\ j' = 0 /\ scan' = 1 /\ trials' = RandomTrials
      /\ UNCHANGED <<input, active, reject, equations>>
      /\ UNCHANGED <<best_weight, best_equation>>
      /\ UNCHANGED <<slice, done, output_size>>
  BY SlicingIs DEF Slicing!Permute, Slicing!StartEchelonize, Slicing!listVars, Slicing!outVars
<1>2. PICK draws \in [1 .. slicerD -> 1 .. Len(M)] :
          /\ \A n \in 1 .. slicerD : draws[n] >= n
          /\ M' = Slicing!Permuted(M, draws)
          /\ rows' = Slicing!transpose(Slicing!Permuted(M, draws))
  BY SlicerNames DEF Slicing!Permute, Slicing!StartEchelonize
<1>3. SlicerTypeOK
  BY DEF SlicerInv
<1>4. M \in Seq(Word) /\ slicerD \in 0 .. W /\ slicerD \in Nat /\ Len(M) \in Nat
  BY <1>3, SlicerSizes DEF SlicerTypeOK
<1>5. M' \in Seq(Word) /\ Len(M') = Len(M) /\ Of(M') = Of(M)
  BY <1>2, <1>4, PermutedIs
<1>6. /\ rows' \in [Bit -> SUBSET Nat]
      /\ Echelon(M', rows', Identity, 0, 1, RandomTrials)
  BY <1>2, <1>5, EchelonStarts
<1>7. E' = Identity
  BY <1>1 DEF Identity
<1>8. SlicerTypeOK'
  <2>1. E' \in [Bit -> Word] /\ RandomTrials \in Nat /\ 0 \in 0 .. W
    BY <1>7, IdentityIs, SlicerAssumed
  <2>2. it' \in Nat
    BY <1>1, <1>3 DEF SlicerTypeOK
  <2> QED
    BY <1>1, <1>3, <1>5, <1>6, <2>1, <2>2 DEF SlicerTypeOK
<1>9. RoundInv'
  <2>1. M # <<>>
    BY <1>1 DEF SlicerInv, RoundInv, InRound, Searching
  <2>2. M' # <<>>
    BY <1>4, <1>5, <2>1
  <2> QED
    BY <1>1, <1>5, <2>2 DEF SlicerInv, RoundInv, InRound, Searching
<1>10. EchelonInv'
  <2>1. j' <= slicerD'
    BY <1>1, <1>4 DEF slicerD
  <2> QED
    BY <1>1, <1>6, <1>7, <2>1 DEF EchelonInv
<1>11. BestInv'
  BY <1>1, <1>5 DEF SlicerInv, BestInv, Searching, Divides, slicerD
<1> QED
  BY <1>1, <1>8, <1>9, <1>10, <1>11, ListsKept DEF SlicerInv


\* The row that is chosen is one of the lightest.
LEMMA ChosenRow ==
  ASSUME NEW X \in SUBSET Nat, X # {}, NEW w \in [X -> Nat], NEW row,
         row = CHOOSE r \in X : \A o \in X : w[r] < w[o] \/ (w[r] = w[o] /\ r <= o)
  PROVE  row \in X
<1>1. PICK m \in {w[r] : r \in X} : \A n \in {w[r] : r \in X} : m <= n
  <2>1. {w[r] : r \in X} \in SUBSET Nat /\ {w[r] : r \in X} # {}
    OBVIOUS
  <2> QED
    BY <2>1, Least
<1>2. PICK u \in {r \in X : w[r] = m} : \A o \in {r \in X : w[r] = m} : u <= o
  <2>1. {r \in X : w[r] = m} \in SUBSET Nat /\ {r \in X : w[r] = m} # {}
    BY <1>1
  <2> QED
    BY <2>1, Least
<1>3. ASSUME NEW o \in X PROVE w[u] < w[o] \/ (w[u] = w[o] /\ u <= o)
  <2>1. w[u] = m /\ m <= w[o] /\ w[o] \in Nat /\ m \in Nat
    BY <1>1, <1>2, <1>3
  <2>2. w[o] = m => u <= o
    BY <1>2, <1>3
  <2> QED
    BY <2>1, <2>2
<1> QED
  BY <1>2, <1>3

LEMMA LightestRow ==
  ASSUME rows \in [Bit -> SUBSET Nat], slicerD \in 0 .. W, Slicing!Better # {},
         \A r \in Bit : Slicing!Weight(r) \in Nat, NEW row,
         row = CHOOSE r \in Slicing!Better : \A o \in Slicing!Better :
                   Slicing!Weight(r) < Slicing!Weight(o)
                   \/ (Slicing!Weight(r) = Slicing!Weight(o) /\ r <= o)
  PROVE  row \in 0 .. slicerD - 1 /\ Slicing!Weight(row) < best_weight
<1> DEFINE X == Slicing!Better
           w == [r \in X |-> Slicing!Weight(r)]
<1>1. X = {r \in 0 .. slicerD - 1 : Slicing!Weight(r) < best_weight}
  BY SlicerNames DEF Slicing!Better
<1>2. \A r \in X : r \in Bit /\ r \in Nat
  BY <1>1, SlicerAssumed DEF Bit
<1>3. w \in [X -> Nat] /\ X \in SUBSET Nat /\ X # {}
  BY <1>2
<1>4. row = CHOOSE r \in X : \A o \in X : w[r] < w[o] \/ (w[r] = w[o] /\ r <= o)
  <2> DEFINE Least1(r) == \A o \in X : Slicing!Weight(r) < Slicing!Weight(o)
                              \/ (Slicing!Weight(r) = Slicing!Weight(o) /\ r <= o)
             Least2(r) == \A o \in X : w[r] < w[o] \/ (w[r] = w[o] /\ r <= o)
  <2>1. \A r \in X : Least1(r) <=> Least2(r)
    <3> HIDE DEF X
    <3> QED
      OBVIOUS
  <2>2. row = CHOOSE r \in X : Least1(r)
    OBVIOUS
  <2> HIDE DEF X, Least1, Least2
  <2>3. (CHOOSE r \in X : Least1(r)) = CHOOSE r \in X : Least2(r)
    BY <2>1
  <2>4. row = CHOOSE r \in X : Least2(r)
    BY <2>2, <2>3
  <2> QED
    BY <2>4 DEF Least2
<1> HIDE DEF X, w
<1>5. row \in X
  BY <1>3, <1>4, ChosenRow
<1> QED
  BY <1>1, <1>5

\* While equations are missing, a row of the echelon form is lighter than the matrix is wide.
LEMMA SomeRowIsLight ==
  ASSUME NEW v \in Seq(Word), NEW A, NEW B, NEW n \in 2 .. W, NEW sc, NEW tr, Echelon(v, A, B, n, sc, tr)
  PROVE  /\ \A r \in Bit : IsFiniteSet(A[r]) /\ Cardinality(A[r]) \in Nat
         /\ Cardinality(A[0]) < Len(v)
<1>1. W \in Nat /\ 0 \in Bit /\ n \in 0 .. W
  BY SlicerAssumed DEF Bit
<1>2. Len(v) \in Nat /\ n <= Len(v)
  BY <1>1, PivotsFit
<1>3. IsFiniteSet(Column(v)) /\ Cardinality(Column(v)) = Len(v)
  <2>1. 0 \in Int /\ Len(v) - 1 \in Int
    BY <1>2
  <2>2. /\ IsFiniteSet(0 .. Len(v) - 1)
        /\ Cardinality(0 .. Len(v) - 1) = IF 0 > Len(v) - 1 THEN 0 ELSE (Len(v) - 1) - 0 + 1
    BY <2>1, FS_Interval
  <2> QED
    BY <1>2, <2>2 DEF Column
<1>4. \A r \in Bit : A[r] \subseteq Column(v)
  BY DEF Echelon
<1>5. 1 \in Column(v) /\ 1 \notin A[0]
  <2>1. UnitColumns(A, n) /\ 1 \in 0 .. n - 1
    BY DEF Echelon
  <2> QED
    BY <1>1, <1>2, <2>1 DEF UnitColumns, Column
<1>6. ASSUME NEW r \in Bit
      PROVE  IsFiniteSet(A[r]) /\ Cardinality(A[r]) \in Nat
  BY <1>3, <1>4, FS_Subset, FS_CardinalityType
<1>7. Cardinality(A[0]) <= Len(v) /\ Cardinality(A[0]) # Len(v)
  BY <1>1, <1>3, <1>4, <1>5, FS_Subset
<1> QED
  BY <1>1, <1>2, <1>6, <1>7

LEMMA WeighedInv ==
  ASSUME SlicerInv, Slicing!Weighed
  PROVE  SlicerInv'
<1>1. /\ spc = "search" /\ Slicing!Echelonized
      /\ UNCHANGED <<input, active, reject, equations>> /\ UNCHANGED it
      /\ UNCHANGED <<M, rows, E, j, scan, trials>>
      /\ UNCHANGED <<slice, done, output_size>>
  BY DEF Slicing!Weighed, Slicing!listVars, Slicing!roundVars, Slicing!outVars
<1>2. SlicerTypeOK
  BY DEF SlicerInv
<1>3. /\ slicerD \in 0 .. W /\ j \in 0 .. W /\ W \in Nat \ {0} /\ scan \in Nat /\ trials \in Nat
      /\ equations \in Seq(Word) /\ Len(equations) \in Nat /\ input.l \in 0 .. W - 1
      /\ M \in Seq(Word) /\ Len(M) \in Nat /\ E \in [Bit -> Word] /\ rows \in [Bit -> SUBSET Nat]
      /\ best_weight \in Nat /\ best_equation \in Word
  BY <1>2, SlicerSizes DEF SlicerTypeOK
<1>4. /\ Of(M) = Of(active) /\ Len(equations) < input.l /\ Dual(Of(active)) = Span(equations)
      /\ best_weight <= Len(M) /\ (best_weight < Len(M) => Divides(best_equation))
  BY <1>1 DEF SlicerInv, RoundInv, BestInv, InRound, Searching
<1>5. /\ Echelon(M, rows, E, j, scan, trials) /\ j = slicerD
      /\ \A r \in j .. W - 1 : rows[r] = {}
  BY <1>1, <1>4, EchelonizedIs
<1>6. j \in 2 .. W
  BY <1>3, <1>4, <1>5 DEF slicerD
<1>7. \A r \in Bit : Slicing!Weight(r) = Cardinality(rows[r])
  BY SameCardinality, Zenon DEF Slicing!Weight
<1>8. (\A r \in Bit : Slicing!Weight(r) \in Nat) /\ Slicing!Weight(0) < Len(M) /\ 0 \in Bit
  <2>1. 0 \in Bit
    BY <1>3 DEF Bit
  <2>2. /\ \A r \in Bit : Cardinality(rows[r]) \in Nat
        /\ Cardinality(rows[0]) < Len(M)
    BY <1>3, <1>5, <1>6, SomeRowIsLight
  <2> QED
    BY <1>7, <2>1, <2>2
<1>9. /\ best_weight' \in Nat /\ best_weight' < Len(M) /\ Divides(best_equation')
  <2>1. CASE Slicing!Better = {}
    <3>1. UNCHANGED <<best_weight, best_equation>>
      BY <1>5, <2>1, SlicerNames DEF Slicing!Weighed
    <3>2. 0 \in 0 .. slicerD - 1
      BY <1>5, <1>6
    <3>3. ~(Slicing!Weight(0) < best_weight)
      BY <2>1, <3>2, SlicerNames DEF Slicing!Better
    <3>4. best_weight < Len(M)
      BY <1>3, <1>8, <3>3
    <3> QED
      BY <1>3, <1>4, <3>1, <3>4
  <2>2. CASE Slicing!Better # {}
    <3> DEFINE row == CHOOSE r \in Slicing!Better : \A o \in Slicing!Better :
                          Slicing!Weight(r) < Slicing!Weight(o)
                          \/ (Slicing!Weight(r) = Slicing!Weight(o) /\ r <= o)
    <3>1. best_weight' = Slicing!Weight(row) /\ best_equation' = E[row]
      BY <1>5, <2>2, SlicerNames DEF Slicing!Weighed
    <3>2. row \in 0 .. slicerD - 1 /\ Slicing!Weight(row) < best_weight
      BY <1>3, <1>8, <2>2, LightestRow
    <3> HIDE DEF row
    <3>3. row \in Bit
      BY <1>3, <3>2 DEF Bit
    <3>4. best_weight' \in Nat /\ best_weight' < Len(M)
      BY <1>3, <1>4, <1>8, <3>1, <3>2, <3>3
    <3>5. /\ E[row] \in Word /\ E[row] \notin Span(equations)
          /\ Dual(Satisfying(Of(active), E[row])) = Spanned(Span(equations), E[row])
          /\ Cardinality(Satisfying(Of(active), E[row])) >= slicerD - 1
      <4>1. row \in 0 .. j - 1
        BY <1>5, <3>2
      <4>2. Span(equations) = Dual(Of(M)) /\ Satisfying(Of(active), E[row]) = Satisfying(Of(M), E[row])
        BY <1>4
      <4>3. PICK sat : sat = Satisfying(Of(M), E[row])
        OBVIOUS
      <4>4. PICK span : span = Dual(Of(M))
        OBVIOUS
      <4>5. /\ E[row] \in Word /\ E[row] \notin span
            /\ Dual(sat) = Spanned(span, E[row])
            /\ Cardinality(sat) >= j - 1
        BY <1>3, <1>5, <4>1, <4>3, <4>4, RowDivides
      <4>6. Span(equations) = span /\ Satisfying(Of(active), E[row]) = sat
        BY <4>2, <4>3, <4>4
      <4> QED
        BY <1>5, <4>5, <4>6
    <3> QED
      BY <3>1, <3>4, <3>5 DEF Divides
  <2> QED
    BY <2>1, <2>2
<1>10. spc' \in {"filter", "permute"}
  BY <1>5, SlicerNames DEF Slicing!Weighed
<1>11. SlicerTypeOK'
  BY <1>1, <1>2, <1>9, <1>10 DEF SlicerTypeOK, Divides
<1>12. RoundInv'
  BY <1>1, <1>10 DEF SlicerInv, RoundInv, InRound, Searching
<1>13. EchelonInv'
  BY <1>10 DEF EchelonInv
<1>14. Divides(best_equation)'
  BY <1>1, <1>9 DEF Divides, slicerD
<1>15. BestInv'
  BY <1>1, <1>3, <1>9, <1>14 DEF BestInv
<1>16. spc' \notin {"invert", "saved", "written"}
  BY <1>10
<1> QED
  BY <1>1, <1>11, <1>12, <1>13, <1>15, <1>16, ListsKept DEF SlicerInv


LEMMA TimesSame ==
  ASSUME NEW x, NEW A, NEW B, \A r \in x : A[r] = B[r]
  PROVE  Times(x, A) = Times(x, B)
<1>1. ASSUME NEW c PROVE One(x, A, c) <=> One(x, B, c)
  <2>1. {r \in x : c \in A[r]} = {r \in x : c \in B[r]}
    OBVIOUS
  <2> QED
    BY <2>1, Zenon DEF One
<1> QED
  BY <1>1, Zenon DEF Times

\* One more equation, that does not follow from the others.
LEMMA AppendIndependent ==
  ASSUME NEW eqs \in Seq(Word), Independent(eqs), NEW e \in Word, e \notin Span(eqs)
  PROVE  /\ Append(eqs, e) \in Seq(Word) /\ Len(Append(eqs, e)) = Len(eqs) + 1
         /\ Independent(Append(eqs, e))
         /\ Span(Append(eqs, e)) = Spanned(Span(eqs), e)
<1> DEFINE B == Append(eqs, e)
           n == Len(eqs) + 1
<1>1. /\ B \in Seq(Word) /\ Len(B) = n /\ DOMAIN B = 1 .. n /\ n \in Nat /\ DOMAIN eqs = 1 .. Len(eqs)
      /\ B[n] = e /\ (\A r \in 1 .. Len(eqs) : B[r] = eqs[r]) /\ Len(eqs) \in Nat
  OBVIOUS
<1>2. \A r : r \in 1 .. n <=> r \in 1 .. Len(eqs) \/ r = n
  OBVIOUS
<1>3. n \notin 1 .. Len(eqs)
  OBVIOUS
<1> HIDE DEF B, n
<1>4. ASSUME NEW x \in SUBSET (1 .. Len(eqs))
      PROVE  /\ Times(x, B) = Times(x, eqs)
             /\ Times(x \cup {n}, B) = Plus(Times(x, eqs), e)
  <2>1. Times(x, B) = Times(x, eqs)
    BY <1>1, TimesSame
  <2>2. x \cup {n} = Plus(x, {n})
    BY <1>3 DEF Plus
  <2>3. IsFiniteSet(x) /\ IsFiniteSet({n})
    BY <1>1, IndicesFinite, FS_Singleton
  <2>4. Times({n}, B) = e
    BY <1>1, OneOfUnit
  <2>5. Times(Plus(x, {n}), B) = Plus(Times(x, B), Times({n}, B))
    BY <2>3, TimesPlus
  <2> QED
    BY <2>1, <2>2, <2>4, <2>5, Zenon
<1>5. ASSUME NEW x \in SUBSET (1 .. n), x # {} PROVE Times(x, B) # {}
  <2>1. x \ {n} \in SUBSET (1 .. Len(eqs))
    BY <1>2
  <2>2. CASE n \notin x
    <3>1. x \ {n} = x
      BY <2>2
    <3> QED
      BY <1>1, <1>4, <1>5, <2>1, <3>1 DEF Independent
  <2>3. CASE n \in x
    <3>1. x = (x \ {n}) \cup {n}
      BY <2>3
    <3>2. Times(x, B) = Plus(Times(x \ {n}, eqs), e)
      BY <1>4, <2>1, <3>1, Zenon
    <3>3. Times(x \ {n}, eqs) # e
      BY <1>1, <2>1 DEF Span
    <3>4. PICK u : u = Times(x \ {n}, eqs)
      OBVIOUS
    <3>5. Plus(u, e) # {}
      BY <3>3, <3>4, PlusFacts
    <3> QED
      BY <3>2, <3>4, <3>5
  <2> QED
    BY <2>2, <2>3
<1>6. Independent(B)
  BY <1>1, <1>5 DEF Independent
<1>7. ASSUME NEW y \in Span(B) PROVE y \in Spanned(Span(eqs), e)
  <2>1. PICK x \in SUBSET (1 .. n) : y = Times(x, B)
    BY <1>1 DEF Span
  <2>2. x \ {n} \in SUBSET (1 .. Len(eqs))
    BY <1>2
  <2>3. Times(x \ {n}, eqs) \in Span(eqs)
    BY <1>1, <2>2 DEF Span
  <2>4. CASE n \notin x
    <3>1. x \ {n} = x
      BY <2>4
    <3> QED
      BY <1>4, <2>1, <2>2, <2>3, <3>1 DEF Spanned
  <2>5. CASE n \in x
    <3>1. x = (x \ {n}) \cup {n}
      BY <2>5
    <3>2. y = Plus(Times(x \ {n}, eqs), e)
      BY <1>4, <2>1, <2>2, <3>1, Zenon
    <3> QED
      BY <2>3, <3>2 DEF Spanned
  <2> QED
    BY <2>4, <2>5
<1>8. ASSUME NEW z \in Span(eqs) PROVE z \in Span(B) /\ Plus(z, e) \in Span(B)
  <2>1. PICK x \in SUBSET (1 .. Len(eqs)) : z = Times(x, eqs)
    BY <1>1 DEF Span
  <2>2. x \in SUBSET (1 .. n) /\ x \cup {n} \in SUBSET (1 .. n)
    BY <1>2
  <2>3. z = Times(x, B) /\ Plus(z, e) = Times(x \cup {n}, B)
    BY <1>4, <2>1
  <2> QED
    BY <1>1, <2>2, <2>3 DEF Span
<1>9. Span(B) = Spanned(Span(eqs), e)
  BY <1>7, <1>8 DEF Spanned
<1> QED
  BY <1>1, <1>6, <1>9 DEF B, n

\* A list is at least as long as the set of what is in it.
LEMMA OfSize ==
  ASSUME NEW s \in Seq(Word)
  PROVE  Len(s) >= Cardinality(Of(s)) /\ Cardinality(Of(s)) \in Nat
<1> DEFINE f == [n \in 1 .. Len(s) |-> s[n]]
<1>1. DOMAIN s = 1 .. Len(s) /\ Len(s) \in Nat
  OBVIOUS
<1>2. IsFiniteSet(1 .. Len(s)) /\ Cardinality(1 .. Len(s)) = Len(s)
  BY <1>1, IndicesFinite
<1>3. f \in Surjection(1 .. Len(s), Of(s))
  BY <1>1 DEF Surjection, Of
<1>4. IsFiniteSet(Of(s)) /\ Cardinality(Of(s)) <= Len(s)
  BY <1>2, <1>3, FS_Surjection
<1> QED
  BY <1>1, <1>4, FS_CardinalityType

LEMMA FilterInv ==
  ASSUME SlicerInv, Slicing!filter_active
  PROVE  SlicerInv'
<1>0. PICK lists : lists = Slicing!FoldLeft(Slicing!Moved, <<<<>>, reject>>, active)
  OBVIOUS
<1>1. /\ spc = "filter" /\ spc' = "slice"
      /\ active' = lists[1] /\ reject' = lists[2]
      /\ equations' = Append(equations, best_equation)
      /\ UNCHANGED input
      /\ UNCHANGED <<M, rows, E, j, scan, trials>>
      /\ UNCHANGED <<best_weight, best_equation, it>>
      /\ UNCHANGED <<slice, done, output_size>>
  BY <1>0 DEF Slicing!filter_active, Slicing!roundVars, Slicing!bestVars, Slicing!outVars
<1>2. SlicerTypeOK
  BY DEF SlicerInv
<1>3. /\ slicerD \in 0 .. W /\ W \in Nat \ {0} /\ input.l \in 0 .. W - 1
      /\ equations \in Seq(Word) /\ active \in Seq(Word) /\ reject \in Seq(Word) /\ done \in Seq(Word)
      /\ Len(equations) \in Nat /\ slicerL \in Seq(Word)
  BY <1>2, SlicerSizes
<1>4. /\ active' \in Seq(Word) /\ reject' \in Seq(Word)
      /\ Of(active') = Satisfying(Of(active), best_equation)
      /\ Len(active') + Len(reject') = Len(active) + Len(reject)
      /\ \A x : Count(active', x) + Count(reject', x) = Count(active, x) + Count(reject, x)
  <2>1. Filtered(active, reject, lists[1], lists[2])
    BY <1>0, <1>3, FilteredIs
  <2> QED
    BY <1>1, <2>1 DEF Filtered
<1>5. /\ Divides(best_equation) /\ EquationsInv /\ CountInv /\ SizeInv
      /\ Of(M) = Of(active) /\ M # <<>> /\ M \in Seq(Word) /\ Len(equations) < input.l
  BY <1>1 DEF SlicerInv, SlicerTypeOK, BestInv, RoundInv, InRound, Searching
<1>6. /\ best_equation \in Word /\ best_equation \notin Span(equations)
      /\ Dual(Of(active')) = Spanned(Span(equations), best_equation)
      /\ Cardinality(Of(active')) >= slicerD - 1
  BY <1>4, <1>5 DEF Divides
<1>7. /\ equations' \in Seq(Word) /\ Len(equations') = Len(equations) + 1
      /\ Independent(equations')
      /\ Dual(Of(active')) = Span(equations')
  BY <1>1, <1>3, <1>5, <1>6, AppendIndependent DEF EquationsInv
<1>8. /\ slicerD' = slicerD - 1 /\ slicerD' \in Nat \ {0}
      /\ Len(equations') \in 1 .. input.l /\ Len(equations') <= W
  BY <1>1, <1>3, <1>5, <1>7 DEF slicerD
<1>9. Len(active') >= slicerD' /\ active' # <<>> /\ active # <<>>
  <2>1. Len(active') >= slicerD'
    <3>1. Len(active') >= Cardinality(Of(active')) /\ Cardinality(Of(active')) \in Nat
      BY <1>4, OfSize
    <3>2. Len(active') \in Nat
      BY <1>4
    <3> QED
      BY <1>3, <1>6, <1>8, <3>1, <3>2
  <2>2. active' # <<>>
    <3>1. PICK n \in Nat \ {0} : n = slicerD'
      BY <1>8
    <3>2. active' = <<>> => Len(active') = 0
      OBVIOUS
    <3> QED
      BY <2>1, <3>1, <3>2
  <2>3. active # <<>>
    BY <1>5 DEF Of
  <2> QED
    BY <2>1, <2>2, <2>3
<1>10. SlicerTypeOK'
  <2>1. {active, reject, done, equations}' \subseteq Seq(Word)
    BY <1>1, <1>3, <1>4, <1>7
  <2> QED
    BY <1>1, <1>2, <1>8, <2>1 DEF SlicerTypeOK
<1>11. EquationsInv'
  BY <1>1, <1>7, <1>8, <1>9 DEF EquationsInv
<1>12. RoundInv' /\ EchelonInv' /\ BestInv' /\ SliceInv' /\ InvertInv' /\ SavedInv'
  BY <1>1 DEF RoundInv, EchelonInv, BestInv, SliceInv, InvertInv, SavedInv, InRound, Searching
<1>13. CountInv'
  <2>1. Len(done') + Len(active') + Len(reject') = Len(slicerL')
    <3>1. Len(done) \in Nat /\ Len(active) \in Nat /\ Len(reject) \in Nat
          /\ Len(active') \in Nat /\ Len(reject') \in Nat
      BY <1>3, <1>4
    <3>2. Len(done) + Len(active) + Len(reject) = Len(slicerL)
      BY <1>5 DEF CountInv
    <3>3. slicerL' = slicerL /\ done' = done
      BY <1>1 DEF slicerL
    <3>4. Len(done) + Len(active') + Len(reject') = Len(slicerL)
      BY <1>4, <3>1, <3>2
    <3> QED
      BY <3>3, <3>4
  <2>2. \A x \in Word : Count(done', x) + Count(active', x) + Count(reject', x) = Count(slicerL', x)
    <3> TAKE x \in Word
    <3>1. Count(done, x) \in Nat /\ Count(active, x) \in Nat /\ Count(reject, x) \in Nat
          /\ Count(active', x) \in Nat /\ Count(reject', x) \in Nat
      BY <1>3, <1>4, CountType
    <3>2. Count(done, x) + Count(active, x) + Count(reject, x) = Count(slicerL, x)
      BY <1>5 DEF CountInv
    <3>3. slicerL' = slicerL /\ done' = done
      BY <1>1 DEF slicerL
    <3>4. Count(active', x) + Count(reject', x) = Count(active, x) + Count(reject, x)
      BY <1>4
    <3>5. Count(done, x) + Count(active', x) + Count(reject', x) = Count(slicerL, x)
      BY <3>1, <3>2, <3>4
    <3> QED
      BY <3>3, <3>5
  <2> QED
    BY <1>1, <2>1, <2>2 DEF CountInv
<1>14. SizeInv'
  BY <1>1, <1>5, <1>9 DEF SizeInv, InHand, Slicing!output_space, Slicing!Header, Slicing!L, Slicing!l
<1> QED
  BY <1>10, <1>11, <1>12, <1>13, <1>14 DEF SlicerInv


LEMMA NonsingularIs ==
  ASSUME NEW A \in [Bit -> Word]
  PROVE  Slicing!Nonsingular(A) <=> Independent(A)
<1>1. Slicing!Nonsingular(A) <=> \A x \in Word \ {{}} : Times(x, A) # {}
  BY SlicingIs, Zenon DEF Slicing!Nonsingular, Slicing!Zero
<1>2. DOMAIN A = Bit
  OBVIOUS
<1> QED
  BY <1>1, <1>2 DEF Independent, Word

LEMMA PaddedIs ==
  ASSUME SlicerTypeOK, NEW random \in [0 .. slicerD - 1 -> Word], NEW R,
         R = [r \in Bit |-> IF r < slicerD THEN random[r] ELSE equations[r - slicerD + 1]]
  PROVE  /\ R \in [Bit -> Word]
         /\ Slicing!PaddedMatrix(random) = Transposed(R)
<1>1. /\ slicerD \in 0 .. W /\ W \in Nat /\ Len(equations) \in Nat /\ equations \in Seq(Word)
      /\ slicerD = W - Len(equations)
  BY SlicerSizes DEF slicerD
<1>2. ASSUME NEW r \in Bit PROVE R[r] \in Word
  <2>1. CASE r < slicerD
    <3>1. r \in 0 .. slicerD - 1
      BY <1>1, <2>1 DEF Bit
    <3> QED
      BY <2>1, <3>1
  <2>2. CASE ~(r < slicerD)
    <3>1. r - slicerD + 1 \in 1 .. Len(equations)
      BY <1>1, <2>2 DEF Bit
    <3> QED
      BY <1>1, <2>2, <3>1
  <2> QED
    BY <2>1, <2>2
<1>3. Slicing!PaddedMatrix(random) = [c \in Bit |-> {r \in Bit : c \in R[r]}]
  <2>1. \A r \in Bit : R[r] = IF r < Slicing!d THEN random[r] ELSE equations[r - Slicing!d + 1]
    BY SlicerNames
  <2> QED
    BY SlicerNames, SlicingIs, Zenon DEF Slicing!PaddedMatrix
<1> QED
  BY <1>2, <1>3 DEF Transposed

\* The quotient is the most often that the divisor fits.
LEMMA QuotientIs ==
  ASSUME NEW n \in Nat, NEW w \in Nat \ {0}, NEW x \in Nat, n * w <= x
  PROVE  n <= x \div w
<1>1. PICK q \in Nat : q = x \div w
  OBVIOUS
<1>2. x < w * (q + 1)
  BY <1>1
<1> SUFFICES ASSUME n >= q + 1 PROVE FALSE
  BY <1>1
<1>3. PICK m \in Nat : n = q + 1 + m
  <2>1. n - (q + 1) \in Nat /\ n = q + 1 + (n - (q + 1))
    OBVIOUS
  <2> QED
    BY <2>1
<1>4. n * w = w * (q + 1) + m * w /\ m * w \in Nat
  BY <1>3
<1> QED
  BY <1>2, <1>4

LEMMA SlicerSpace ==
  ASSUME SlicerTypeOK
  PROVE  /\ Slicing!Header \in Nat
         /\ Slicing!output_space \in Nat
         /\ \A n, size \in Nat : n * (W - input.l) <= Len(done) /\ Len(done) <= Len(slicerL)
                                 /\ size <= Len(slicerL)
                => Slicing!Header * n + Slicing!Header + size <= Slicing!output_space
<1>1. /\ W \in Nat \ {0} /\ input.l \in 0 .. W - 1 /\ slicerL \in Seq(Word) /\ done \in Seq(Word)
  BY SlicerSizes
<1>2. PICK w \in Nat \ {0} : w = W - input.l
  BY <1>1
<1>3. PICK len \in Nat : len = Len(slicerL)
  BY <1>1
<1>4. PICK q \in Nat : q = len \div w
  OBVIOUS
<1>5. PICK h \in Nat : h = Slicing!Header
  BY <1>1 DEF Slicing!Header
<1>6. Slicing!output_space = h * (1 + q) + len
  BY <1>2, <1>3, <1>4, <1>5, SlicerNames DEF Slicing!output_space
<1>7. ASSUME NEW n \in Nat, NEW size \in Nat, n * w <= Len(done), Len(done) <= len, size <= len
      PROVE  h * n + h + size <= h * (1 + q) + len
  <2>1. n * w <= len
    <3>1. n * w \in Nat /\ Len(done) \in Nat
      BY <1>1
    <3> QED
      BY <1>7, <3>1
  <2>2. n <= q
    BY <1>4, <2>1, QuotientIs
  <2>3. h * n <= h * q
    BY <2>2
  <2>4. h * (1 + q) = h + h * q /\ h * n \in Nat /\ h * q \in Nat
    OBVIOUS
  <2> QED
    BY <1>7, <2>3, <2>4
<1>8. h * (1 + q) + len \in Nat
  OBVIOUS
<1> QED
  BY <1>2, <1>3, <1>5, <1>6, <1>7, <1>8

LEMMA DrawInv ==
  ASSUME SlicerInv, Slicing!Draw
  PROVE  SlicerInv'
<1>1. /\ spc = "slice" /\ active # <<>> /\ Len(equations) >= input.l
      /\ E' = [r \in Bit |-> {r}] /\ j' = 0
      /\ output_size' = output_size + Slicing!Header + Len(active)
      /\ UNCHANGED <<input, active, reject, equations>>
      /\ UNCHANGED <<M, scan, trials>>
      /\ UNCHANGED <<best_weight, best_equation, it>>
      /\ UNCHANGED done
  BY SlicerNames, SlicingIs DEF Slicing!Draw, Slicing!listVars, Slicing!bestVars
<1>2. SlicerTypeOK
  BY DEF SlicerInv
<1>3. /\ slicerD \in 0 .. W /\ W \in Nat \ {0} /\ input.l \in 0 .. W - 1
      /\ equations \in Seq(Word) /\ active \in Seq(Word) /\ reject \in Seq(Word) /\ done \in Seq(Word)
      /\ Len(equations) \in Nat /\ slicerL \in Seq(Word) /\ output_size \in Nat
      /\ slicerD = W - Len(equations)
  BY <1>2, SlicerSizes DEF SlicerTypeOK, slicerD
<1>4. EquationsInv /\ CountInv /\ SizeInv
  BY DEF SlicerInv
<1> DEFINE Rows(random) == [r \in Bit |-> IF r < slicerD THEN random[r] ELSE equations[r - slicerD + 1]]
<1>5. \A random \in [0 .. slicerD - 1 -> Word] :
          Rows(random) \in [Bit -> Word] /\ Slicing!PaddedMatrix(random) = Transposed(Rows(random))
  BY <1>2, PaddedIs
\* The equations can be completed, so that some draw inverts.
<1>6. \E random \in [0 .. slicerD - 1 -> Word] : Slicing!Nonsingular(Slicing!PaddedMatrix(random))
  <2>1. PICK R \in [Bit -> Word] : Independent(R)
                                   /\ \A r \in slicerD .. W - 1 : R[r] = equations[r - slicerD + 1]
    BY <1>3, <1>4, Completed DEF EquationsInv
  <2> DEFINE random == [r \in 0 .. slicerD - 1 |-> R[r]]
  <2>2. random \in [0 .. slicerD - 1 -> Word]
    BY <1>3 DEF Bit
  <2>3. R = Rows(random)
    <3>1. \A r \in Bit : R[r] = IF r < slicerD THEN random[r] ELSE equations[r - slicerD + 1]
      <4> TAKE r \in Bit
      <4>1. CASE r < slicerD
        BY <1>3, <4>1 DEF Bit
      <4>2. CASE ~(r < slicerD)
        <5>1. r \in slicerD .. W - 1
          BY <1>3, <4>2 DEF Bit
        <5> QED
          BY <2>1, <4>2, <5>1
      <4> QED
        BY <4>1, <4>2
    <3> HIDE DEF random
    <3> QED
      BY <3>1
  <2> HIDE DEF random
  <2>4. Slicing!PaddedMatrix(random) = Transposed(R)
    BY <1>5, <2>2, <2>3
  <2>5. Transposed(R) \in [Bit -> Word] /\ Independent(Transposed(R))
    BY <2>1, TransposedIndependent
  <2> QED
    BY <2>2, <2>4, <2>5, NonsingularIs
<1>7. PICK random \in [0 .. slicerD - 1 -> Word] :
          /\ Slicing!Nonsingular(Slicing!PaddedMatrix(random))
          /\ slice' = [Slicing!NoSlice EXCEPT !.l = Len(equations), !.M = Slicing!PaddedMatrix(random)]
          /\ rows' = Slicing!PaddedMatrix(random)
          /\ spc' = "invert"
  BY <1>6, SlicerNames, SlicingIs DEF Slicing!Draw
<1>8. PICK R \in [Bit -> Word] : R = Rows(random)
  BY <1>5
<1>9. PICK A : A = Slicing!PaddedMatrix(random)
  OBVIOUS
<1>10. A = Transposed(R) /\ A \in [Bit -> Word] /\ Independent(A)
  <2>1. A = Transposed(R)
    BY <1>5, <1>8, <1>9
  <2>2. A \in [Bit -> Word]
    BY <2>1 DEF Transposed, Word
  <2> QED
    BY <1>7, <1>9, <2>1, <2>2, NonsingularIs
<1>11. \A r \in slicerD .. W - 1 : r \in Bit /\ R[r] = equations[r - slicerD + 1]
  BY <1>3, <1>8 DEF Bit
<1> HIDE DEF Rows
<1>12. /\ slice' \in [l : Nat, M : [Bit -> Word], Minv : [Bit -> Word], CM : Seq(Word)]
       /\ slice'.l = Len(equations) /\ slice'.M = A
  <2>1. Slicing!NoSlice = [l |-> 0, M |-> [r \in Bit |-> {}], Minv |-> [r \in Bit |-> {}], CM |-> <<>>]
    BY SlicingIs DEF Slicing!NoSlice, Slicing!Zero
  <2>2. {} \in Word
    BY DEF Word
  <2>3. slice' = [l |-> Len(equations), M |-> A, Minv |-> [r \in Bit |-> {}], CM |-> <<>>]
    BY <1>7, <1>9, <2>1
  <2> QED
    BY <1>3, <1>10, <2>2, <2>3
<1>13. E' = Identity
  BY <1>1 DEF Identity
<1>14. SlicerTypeOK'
  <2>1. E' \in [Bit -> Word] /\ 0 \in 0 .. W
    BY <1>3, <1>13, IdentityIs
  <2>2. rows' \in [Bit -> SUBSET Nat]
    BY <1>3, <1>7, <1>9, <1>10 DEF Word, Bit
  <2>3. output_size' \in Nat
    BY <1>1, <1>2, <1>3, SlicerSpace
  <2> QED
    BY <1>1, <1>2, <1>7, <2>1, <2>2, <2>3 DEF SlicerTypeOK
<1>15. EquationsInv' /\ CountInv'
  BY <1>1, <1>4, <1>7 DEF EquationsInv, CountInv, slicerD, slicerL
<1>16. RoundInv' /\ EchelonInv' /\ BestInv' /\ SavedInv'
  BY <1>7 DEF RoundInv, EchelonInv, BestInv, SavedInv, InRound, Searching
<1>17. SliceInv'
  <2>1. ASSUME NEW r \in slicerD .. W - 1, NEW x \in Word
        PROVE  One(x, A, r) <=> Odd(x \cap equations[r - slicerD + 1])
    <3>1. r \in Bit /\ R[r] = equations[r - slicerD + 1]
      BY <1>11
    <3>2. One(x, Transposed(R), r) <=> Odd(x \cap R[r])
      BY <3>1, TransposedOne
    <3> QED
      BY <1>10, <3>1, <3>2
  <2>2. slicerD' = slicerD
    BY <1>1 DEF slicerD
  <2> QED
    BY <1>1, <1>10, <1>12, <2>1, <2>2 DEF SliceInv
<1>18. InvertInv'
  <2>1. UnitColumns(A, 0)
    BY DEF UnitColumns
  <2>2. \A x \in Word : Times(x, A) = Times(Times(x, Identity), A)
    BY IdentityIs
  <2> QED
    BY <1>1, <1>7, <1>9, <1>10, <1>12, <1>13, <2>1, <2>2, IdentityIs DEF InvertInv
<1>19. SizeInv'
  <2>1. PICK n \in Nat : /\ output_size = Slicing!Header * n + Len(done) + 0
                         /\ n * (W - input.l) <= Len(done)
    BY <1>1, <1>4 DEF SizeInv, InHand
  <2>2. PICK h \in Nat : h = Slicing!Header
    BY <1>2, SlicerSpace
  <2>3. h * n \in Nat /\ Len(done) \in Nat /\ Len(active) \in Nat /\ Len(reject) \in Nat
    BY <1>3
  <2>4. Len(done) + Len(active) + Len(reject) = Len(slicerL)
    BY <1>4 DEF CountInv
  <2>5. output_size' = h * n + Len(done) + (h + Len(active))
    BY <1>1, <2>1, <2>2, <2>3
  <2>6. h * n + h + (Len(done) + Len(active)) <= Slicing!output_space
    <3>1. Len(done) + Len(active) \in Nat /\ Len(done) <= Len(slicerL)
          /\ Len(done) + Len(active) <= Len(slicerL)
      BY <2>3, <2>4
    <3> QED
      BY <1>2, <2>1, <2>2, <3>1, SlicerSpace
  <2>7. output_size' <= Slicing!output_space
    <3>1. h * n + Len(done) + (h + Len(active)) = h * n + h + (Len(done) + Len(active))
      BY <2>3
    <3> QED
      BY <2>5, <2>6, <3>1
  <2>8. Slicing!output_space' = Slicing!output_space /\ Slicing!Header' = Slicing!Header
    BY <1>1 DEF Slicing!output_space, Slicing!Header, Slicing!L, Slicing!l
  <2> QED
    BY <1>1, <1>7, <2>1, <2>2, <2>5, <2>7, <2>8 DEF SizeInv, InHand
<1> QED
  BY <1>14, <1>15, <1>16, <1>17, <1>18, <1>19 DEF SlicerInv


LEMMA InvertStepInv ==
  ASSUME SlicerInv, Slicing!Invert
  PROVE  SlicerInv'
<1> DEFINE p == Slicing!Min(Slicing!PivotRows)
<1>1. /\ spc = "invert" /\ j < W /\ j' = j + 1
      /\ UNCHANGED <<M, scan, trials>>
      /\ UNCHANGED <<input, active, reject, equations>>
      /\ UNCHANGED <<best_weight, best_equation, it>>
      /\ UNCHANGED <<slice, done, output_size>>
  BY DEF Slicing!Invert, Slicing!listVars, Slicing!bestVars, Slicing!outVars
<1>2. SlicerTypeOK
  BY DEF SlicerInv
<1>3. W \in Nat \ {0} /\ j \in 0 .. W /\ E \in [Bit -> Word]
  BY <1>2, SlicerSizes DEF SlicerTypeOK
<1>4. j \in Bit /\ j + 1 \in 0 .. W
  BY <1>1, <1>3 DEF Bit
<1>5. /\ UnitColumns(rows, j) /\ rows \in [Bit -> Word] /\ Independent(E)
      /\ \A x \in Word : Times(x, rows) = Times(Times(x, E), slice.M)
      /\ slice.M \in [Bit -> Word] /\ Independent(slice.M)
  BY <1>1 DEF SlicerInv, InvertInv, SliceInv
<1>6. Slicing!PivotRows = {r \in j .. W - 1 : j \in rows[r]}
  BY DEF Slicing!PivotRows
\* The matrix of a slice is invertible, so that there is a pivot.
<1>7. Slicing!PivotRows # {}
  <2>1. \E r \in j .. W - 1 : j \in rows[r]
    BY <1>3, <1>4, <1>5, InvertPivots
  <2> QED
    BY <1>6, <2>1
<1>8. /\ rows' = Pivoted(rows, rows, p, j) /\ E' = Pivoted(E, rows, p, j) /\ spc' = "invert"
  BY <1>1, <1>7 DEF Slicing!Invert, Pivoted
<1>9. p \in j .. W - 1 /\ j \in rows[p] /\ p \in Bit
  <2>1. Slicing!PivotRows \in SUBSET Nat
    BY <1>3, <1>6
  <2>2. p \in Slicing!PivotRows
    BY <1>7, <2>1, MinIs
  <2> HIDE DEF p
  <2> QED
    BY <1>3, <1>6, <2>2 DEF Bit
<1> HIDE DEF p
<1>10. rows' \in [Bit -> Word] /\ E' \in [Bit -> Word]
  <2>1. rows \in [Bit -> SUBSET Bit] /\ E \in [Bit -> SUBSET Bit]
    BY <1>3, <1>5 DEF Word
  <2>2. Pivoted(rows, rows, p, j) \in [Bit -> SUBSET Bit] /\ Pivoted(E, rows, p, j) \in [Bit -> SUBSET Bit]
    BY <1>4, <1>9, <2>1, PivotedType
  <2> QED
    BY <1>8, <2>2 DEF Word
<1>11. UnitColumns(rows', j + 1)
  BY <1>4, <1>5, <1>8, <1>9, PivotedUnit
<1>12. Independent(E')
  BY <1>3, <1>4, <1>5, <1>8, <1>9, IndependentStays
<1>13. ASSUME NEW x \in Word PROVE Times(x, rows') = Times(Times(x, E'), slice.M)
  <2>1. PICK y \in Word : /\ Mimics(x, Pivoted(rows, rows, p, j), y, rows)
                          /\ Mimics(x, Pivoted(E, rows, p, j), y, E)
    BY <1>3, <1>4, <1>5, <1>9, PivotedOne
  <2>2. Times(x, rows') = Times(y, rows)
    BY <1>8, <2>1 DEF Mimics, Times
  <2>3. Times(x, E') = Times(y, E)
    BY <1>8, <2>1 DEF Mimics, Times
  <2> QED
    BY <1>5, <2>2, <2>3
<1>14. SlicerTypeOK'
  <2>1. rows' \in [Bit -> SUBSET Nat]
    BY <1>3, <1>10 DEF Word, Bit
  <2> QED
    BY <1>1, <1>2, <1>4, <1>8, <1>10, <2>1 DEF SlicerTypeOK
<1>15. EquationsInv' /\ CountInv'
  BY <1>1, <1>8 DEF SlicerInv, EquationsInv, CountInv, slicerD, slicerL
<1>16. RoundInv' /\ EchelonInv' /\ BestInv' /\ SavedInv'
  BY <1>8 DEF RoundInv, EchelonInv, BestInv, SavedInv, InRound, Searching
<1>17. SliceInv'
  BY <1>1, <1>8 DEF SlicerInv, SliceInv, slicerD
<1>18. InvertInv'
  BY <1>1, <1>10, <1>11, <1>12, <1>13 DEF InvertInv
<1>19. SizeInv'
  BY <1>1, <1>8 DEF SlicerInv, SizeInv, InHand, Slicing!output_space, Slicing!Header, Slicing!L, Slicing!l
<1> QED
  BY <1>14, <1>15, <1>16, <1>17, <1>18, <1>19 DEF SlicerInv

\* The vectors of the slice are in the list that was read.
LEMMA ActiveInList ==
  ASSUME SlicerInv, NEW n \in DOMAIN active
  PROVE  active[n] \in Word /\ \E m \in DOMAIN slicerL : slicerL[m] = active[n]
<1>1. active \in Seq(Word) /\ reject \in Seq(Word) /\ done \in Seq(Word) /\ slicerL \in Seq(Word)
  BY SlicerSizes DEF SlicerInv
<1>2. active[n] \in Word
  BY <1>1
<1>3. PICK x \in Word : x = active[n]
  BY <1>2
<1>4. DOMAIN active = 1 .. Len(active) /\ Len(active) \in Nat
  BY <1>1
<1>5. Count(active, x) \in Nat /\ Count(active, x) # 0
  <2>1. IsFiniteSet({c \in DOMAIN active : active[c] = x}) /\ n \in {c \in DOMAIN active : active[c] = x}
    BY <1>3, <1>4, IndicesFinite
  <2> QED
    BY <1>1, <2>1, CountType, FS_EmptySet DEF Count
<1>6. Count(done, x) \in Nat /\ Count(reject, x) \in Nat
      /\ Count(done, x) + Count(active, x) + Count(reject, x) = Count(slicerL, x)
  BY <1>1, CountType DEF SlicerInv, CountInv
<1>7. Count(slicerL, x) # 0
  BY <1>5, <1>6
<1>8. {m \in DOMAIN slicerL : slicerL[m] = x} # {}
  BY <1>7, FS_EmptySet DEF Count
<1> QED
  BY <1>2, <1>3, <1>8

\* The leading bits of the product are the equations' values, which are zero.
LEMMA LeadingZero ==
  ASSUME SlicerInv, spc = "invert", NEW n \in DOMAIN active
  PROVE  Slicing!Top(Times(active[n], slice.M), slice.l) = {}
<1>1. SlicerTypeOK
  BY DEF SlicerInv
<1>2. /\ slicerD \in 0 .. W /\ W \in Nat \ {0} /\ slicerD = W - Len(equations)
      /\ equations \in Seq(Word) /\ Len(equations) \in Nat
  BY <1>1, SlicerSizes DEF slicerD
<1>3. /\ slice.l = Len(equations)
      /\ \A r \in slicerD .. W - 1, x \in Word :
             One(x, slice.M, r) <=> Odd(x \cap equations[r - slicerD + 1])
  BY DEF SlicerInv, SliceInv
<1>4. active[n] \in Word /\ active[n] \in Of(active)
  BY ActiveInList DEF Of
<1>5. ASSUME NEW r \in Times(active[n], slice.M), r >= slicerD PROVE FALSE
  <2>1. One(active[n], slice.M, r) /\ r \in Bit
    BY DEF Times
  <2>2. r \in slicerD .. W - 1 /\ r - slicerD + 1 \in 1 .. Len(equations)
    BY <1>2, <1>5, <2>1 DEF Bit
  <2>3. Odd(active[n] \cap equations[r - slicerD + 1])
    BY <1>3, <1>4, <2>1, <2>2
  <2>4. equations # <<>> /\ DOMAIN equations = 1 .. Len(equations)
    BY <1>2, <2>2
  <2>5. Dual(Of(active)) = Span(equations)
    BY <2>4 DEF SlicerInv, EquationsInv
  <2>6. equations[r - slicerD + 1] \in Span(equations)
    <3>1. equations[r - slicerD + 1] \in Word
      BY <1>2, <2>2
    <3>2. Times({r - slicerD + 1}, equations) = equations[r - slicerD + 1]
      BY <3>1, OneOfUnit
    <3>3. {r - slicerD + 1} \in SUBSET DOMAIN equations
      BY <2>2, <2>4
    <3> QED
      BY <3>2, <3>3 DEF Span
  <2> QED
    BY <1>4, <2>3, <2>5, <2>6 DEF Dual
<1>6. Slicing!Top(Times(active[n], slice.M), slice.l) = {r \in Times(active[n], slice.M) : r >= slicerD}
  BY <1>2, <1>3 DEF Slicing!Top
<1> QED
  BY <1>5, <1>6

LEMMA SaveSliceInv ==
  ASSUME SlicerInv, Slicing!SaveSlice
  PROVE  SlicerInv'
<1>1. /\ spc = "invert" /\ j = W /\ spc' = "saved"
      /\ UNCHANGED <<M, rows, E, j, scan, trials>>
      /\ UNCHANGED <<input, active, reject, equations>>
      /\ UNCHANGED <<best_weight, best_equation, it>>
      /\ UNCHANGED <<done, output_size>>
  BY DEF Slicing!SaveSlice, Slicing!listVars, Slicing!bestVars, Slicing!roundVars
<1> DEFINE C == [n \in DOMAIN active |-> Times(active[n], slice.M)]
<1>2. slice' = [slice EXCEPT !.Minv = E, !.CM = C]
  BY SlicingIs DEF Slicing!SaveSlice
<1>3. SlicerTypeOK
  BY DEF SlicerInv
<1>4. /\ active \in Seq(Word) /\ E \in [Bit -> Word] /\ W \in Nat \ {0}
  BY <1>3, SlicerSizes DEF SlicerTypeOK
<1>5. SliceInv /\ InvertInv
  BY DEF SlicerInv
<1>6. /\ slice \in [l : Nat, M : [Bit -> Word], Minv : [Bit -> Word], CM : Seq(Word)]
      /\ slice.l >= input.l /\ slice.M \in [Bit -> Word]
      /\ UnitColumns(rows, W) /\ rows \in [Bit -> Word] /\ Independent(E)
      /\ \A x \in Word : Times(x, rows) = Times(Times(x, E), slice.M)
  BY <1>1, <1>5 DEF SliceInv, InvertInv
<1>7. C \in Seq(Word)
  <2>1. DOMAIN active = 1 .. Len(active) /\ Len(active) \in Nat
    BY <1>4
  <2>2. C \in [1 .. Len(active) -> Word]
    BY <2>1, TimesType
  <2> HIDE DEF C
  <2> QED
    BY <2>1, <2>2
<1> HIDE DEF C
<1>8. /\ slice' \in [l : Nat, M : [Bit -> Word], Minv : [Bit -> Word], CM : Seq(Word)]
      /\ slice'.l = slice.l /\ slice'.M = slice.M /\ slice'.Minv = E /\ slice'.CM = C
  BY <1>2, <1>4, <1>6, <1>7
<1>9. \A x \in Word : Times(Times(x, E), slice.M) = x /\ Times(Times(x, slice.M), E) = x
  BY <1>4, <1>6, InvertEnds
<1>10. SlicerTypeOK'
  BY <1>1, <1>3 DEF SlicerTypeOK
<1>11. EquationsInv' /\ CountInv'
  BY <1>1 DEF SlicerInv, EquationsInv, CountInv, slicerD, slicerL
<1>12. RoundInv' /\ EchelonInv' /\ BestInv' /\ InvertInv'
  BY <1>1 DEF RoundInv, EchelonInv, BestInv, InvertInv, InRound, Searching
<1>13. SliceInv'
  BY <1>1, <1>5, <1>8 DEF SliceInv, slicerD
<1>14. SizeInv'
  BY <1>1 DEF SlicerInv, SizeInv, InHand, Slicing!output_space, Slicing!Header, Slicing!L, Slicing!l
<1>15. ASSUME NEW n \in Bit
       PROVE  Times(slice.M[n], E) = {n} /\ Times(E[n], slice.M) = {n}
  <2>1. {n} \in Word /\ Times({n}, slice.M) = slice.M[n] /\ Times({n}, E) = E[n]
    BY <1>4, <1>6, OneOfUnit DEF Word
  <2> QED
    BY <1>9, <2>1
<1>16. ASSUME NEW n \in DOMAIN active
       PROVE  /\ Slicing!Top(C[n], slice.l) = {}
              /\ \E m \in DOMAIN slicerL : slicerL[m] = Times(C[n], E)
  <2>1. C[n] = Times(active[n], slice.M)
    BY DEF C
  <2>2. active[n] \in Word /\ \E m \in DOMAIN slicerL : slicerL[m] = active[n]
    BY ActiveInList
  <2>3. Times(C[n], E) = active[n]
    BY <1>9, <2>1, <2>2
  <2>4. Slicing!Top(Times(active[n], slice.M), slice.l) = {}
    BY <1>1, LeadingZero
  <2> QED
    BY <2>1, <2>2, <2>3, <2>4
<1>17. DOMAIN C = DOMAIN active
  BY DEF C
<1>18. Slicing!SliceChecked(slice')
  <2>1. Slicing!SliceChecked(slice') <=>
            /\ slice'.l >= input.l
            /\ \A n \in Bit : Times(slice'.M[n], slice'.Minv) = {n} /\ Times(slice'.Minv[n], slice'.M) = {n}
            /\ \A n \in DOMAIN slice'.CM : /\ Slicing!Top(slice'.CM[n], slice'.l) = {}
                                           /\ Times(slice'.CM[n], slice'.Minv) \in Slicing!Range(slicerL)
    BY SlicingIs, SlicerNames, Zenon DEF Slicing!SliceChecked, Slicing!Zero
  <2>2. \A n \in DOMAIN C : Times(C[n], E) \in Slicing!Range(slicerL)
    BY <1>16, <1>17 DEF Slicing!Range
  <2> QED
    BY <1>6, <1>8, <1>15, <1>16, <1>17, <2>1, <2>2
<1>19. SavedInv'
  <2>1. Slicing!SliceChecked(slice)'
    BY <1>1, <1>18 DEF Slicing!SliceChecked, Slicing!L, Slicing!l
  <2> QED
    BY <2>1 DEF SavedInv
<1> QED
  BY <1>10, <1>11, <1>12, <1>13, <1>14, <1>19 DEF SlicerInv

LEMMA WrittenInv ==
  ASSUME SlicerInv, Slicing!Written
  PROVE  SlicerInv'
<1>1. /\ spc = "slice" /\ active = <<>> /\ spc' = "written"
      /\ UNCHANGED <<M, rows, E, j, scan, trials>>
      /\ UNCHANGED <<input, active, reject, equations>>
      /\ UNCHANGED <<best_weight, best_equation, it>>
      /\ UNCHANGED <<slice, done, output_size>>
  BY DEF Slicing!Written, Slicing!listVars, Slicing!bestVars, Slicing!roundVars, Slicing!outVars
<1>2. SlicerTypeOK'
  BY <1>1 DEF SlicerInv, SlicerTypeOK
<1>3. EquationsInv' /\ CountInv'
  BY <1>1 DEF SlicerInv, EquationsInv, CountInv, slicerD, slicerL
<1>4. RoundInv' /\ EchelonInv' /\ BestInv' /\ SliceInv' /\ InvertInv' /\ SavedInv'
  BY <1>1 DEF RoundInv, EchelonInv, BestInv, SliceInv, InvertInv, SavedInv, InRound, Searching
<1>5. SizeInv'
  BY <1>1 DEF SlicerInv, SizeInv, InHand, Slicing!output_space, Slicing!Header, Slicing!L, Slicing!l
<1> QED
  BY <1>2, <1>3, <1>4, <1>5 DEF SlicerInv


\* The vectors of the slice are written, and those that were rejected on the way are next.
LEMMA NextSliceInv ==
  ASSUME SlicerInv, Slicing!NextSlice
  PROVE  SlicerInv'
<1>1. /\ spc = "saved" /\ spc' = "slice"
      /\ done' = done \o active /\ active' = reject /\ reject' = <<>> /\ equations' = <<>>
      /\ M' = <<>> /\ rows' = [r \in Bit |-> {}] /\ E' = [r \in Bit |-> {r}]
      /\ j' = 0 /\ scan' = 0 /\ trials' = 0 /\ best_weight' = 0 /\ best_equation' = {} /\ it' = 0
      /\ UNCHANGED <<input, output_size>>
  BY SlicingIs DEF Slicing!NextSlice, Slicing!Zero
<1>2. SlicerTypeOK
  BY DEF SlicerInv
<1>3. /\ slicerD \in 0 .. W /\ W \in Nat \ {0} /\ input.l \in 0 .. W - 1
      /\ equations \in Seq(Word) /\ active \in Seq(Word) /\ reject \in Seq(Word) /\ done \in Seq(Word)
      /\ Len(equations) \in Nat /\ slicerL \in Seq(Word) /\ slicerD = W - Len(equations)
      /\ Len(done) \in Nat /\ Len(active) \in Nat /\ Len(reject) \in Nat
  BY <1>2, SlicerSizes DEF slicerD
<1>4. EquationsInv /\ CountInv /\ SizeInv
  BY DEF SlicerInv
<1>5. done' \in Seq(Word) /\ Len(done') = Len(done) + Len(active)
  BY <1>1, <1>3
<1>6. SlicerTypeOK'
  <2>1. E' = Identity
    BY <1>1 DEF Identity
  <2>2. E' \in [Bit -> Word] /\ {} \in Word /\ 0 \in 0 .. W /\ 0 \in Nat
    BY <1>3, <2>1, IdentityIs DEF Word
  <2>3. {active, reject, done, equations}' \subseteq Seq(Word) /\ <<>> \in Seq(Word)
    BY <1>1, <1>3, <1>5
  <2>4. Len(equations') = 0 /\ 0 <= W
    BY <1>1, <1>3
  <2>5. rows' \in [Bit -> SUBSET Nat]
    BY <1>1
  <2> QED
    BY <1>1, <1>2, <2>2, <2>3, <2>4, <2>5 DEF SlicerTypeOK
<1>7. EquationsInv'
  <2>1. Independent(<<>>)
    BY DEF Independent
  <2> QED
    BY <1>1, <2>1 DEF EquationsInv
<1>8. RoundInv' /\ EchelonInv' /\ BestInv' /\ SliceInv' /\ InvertInv' /\ SavedInv'
  BY <1>1 DEF RoundInv, EchelonInv, BestInv, SliceInv, InvertInv, SavedInv, InRound, Searching
<1>9. CountInv'
  <2>1. Len(done') + Len(active') + Len(reject') = Len(slicerL')
    <3>1. Len(done) + Len(active) + Len(reject) = Len(slicerL) /\ slicerL' = slicerL
      BY <1>1, <1>4 DEF CountInv, slicerL
    <3>2. Len(reject') = 0
      BY <1>1
    <3>3. Len(done) + Len(active) + Len(reject) + 0 = Len(slicerL)
      BY <1>3, <3>1
    <3> QED
      BY <1>1, <1>5, <3>1, <3>2, <3>3, Zenon
  <2>2. ASSUME NEW x \in Word
        PROVE  Count(done', x) + Count(active', x) + Count(reject', x) = Count(slicerL', x)
    <3>1. Count(done, x) \in Nat /\ Count(active, x) \in Nat /\ Count(reject, x) \in Nat
      BY <1>3, CountType
    <3>2. Count(done, x) + Count(active, x) + Count(reject, x) = Count(slicerL, x) /\ slicerL' = slicerL
      BY <1>1, <1>4 DEF CountInv, slicerL
    <3>3. Count(done', x) = Count(done, x) + Count(active, x)
      BY <1>1, <1>3, CountConcat
    <3>4. Count(reject', x) = 0 /\ Count(active', x) = Count(reject, x)
      BY <1>1, CountFew
    <3>5. Count(done, x) + Count(active, x) + Count(reject, x) + 0 = Count(slicerL, x)
      BY <3>1, <3>2
    <3> QED
      BY <3>2, <3>3, <3>4, <3>5, Zenon
  <2> QED
    BY <1>1, <2>1, <2>2 DEF CountInv
\* Unless it is the last one, the slice had at least W - l vectors.
<1>10. SizeInv'
  <2>1. PICK n \in Nat :
            /\ output_size = Slicing!Header * n + Len(done) + (Slicing!Header + Len(active))
            /\ active # <<>> => n * (W - input.l) <= Len(done)
            /\ output_size <= Slicing!output_space
    BY <1>1, <1>4 DEF SizeInv, InHand
  <2>2. PICK h \in Nat : h = Slicing!Header
    BY <1>2, SlicerSpace
  <2>3. output_size = h * (n + 1) + (Len(done) + Len(active)) + 0
    <3>1. h * (n + 1) = h * n + h /\ h * n \in Nat
      OBVIOUS
    <3> QED
      BY <1>3, <2>1, <2>2, <3>1
  <2>4. reject # <<>> => (n + 1) * (W - input.l) <= Len(done) + Len(active)
    <3> SUFFICES ASSUME reject # <<>> PROVE (n + 1) * (W - input.l) <= Len(done) + Len(active)
      OBVIOUS
    <3>1. Len(equations) \in 1 .. input.l /\ Len(active) >= slicerD
      BY <1>4 DEF EquationsInv
    <3>2. equations # <<>>
      BY <3>1
    <3>3. n * (W - input.l) <= Len(done)
      BY <1>4, <2>1, <3>2 DEF EquationsInv
    <3>4. PICK w \in Nat : w = W - input.l
      BY <1>3
    <3>5. Len(active) >= w
      BY <1>3, <3>1, <3>4
    <3>6. (n + 1) * w = n * w + w /\ n * w \in Nat
      OBVIOUS
    <3>7. n * w <= Len(done)
      BY <3>3, <3>4
    <3>8. (n + 1) * w <= Len(done) + Len(active)
      BY <1>3, <3>5, <3>6, <3>7
    <3> QED
      BY <3>4, <3>8
  <2>5. Slicing!output_space' = Slicing!output_space /\ Slicing!Header' = Slicing!Header
    BY <1>1 DEF Slicing!output_space, Slicing!Header, Slicing!L, Slicing!l
  <2>6. /\ output_size' = Slicing!Header' * (n + 1) + Len(done') + 0
        /\ active' # <<>> => (n + 1) * (W' - input'.l) <= Len(done')
        /\ output_size' <= Slicing!output_space'
    BY <1>1, <1>5, <2>1, <2>2, <2>3, <2>4, <2>5
  <2>7. n + 1 \in Nat /\ ~InHand'
    BY <1>1 DEF InHand
  <2> QED
    BY <2>6, <2>7 DEF SizeInv
<1> QED
  BY <1>6, <1>7, <1>8, <1>9, <1>10 DEF SlicerInv

LEMMA SlicerInit == Slicing!Init => SlicerInv
<1> SUFFICES ASSUME Slicing!Init PROVE SlicerInv
  OBVIOUS
<1>1. /\ input \in SlicerInputs /\ active = Slicing!Reverse(slicerL) /\ reject = <<>> /\ equations = <<>>
      /\ M = <<>> /\ rows = [r \in Bit |-> {}] /\ E = [r \in Bit |-> {r}]
      /\ j = 0 /\ scan = 0 /\ trials = 0 /\ best_weight = 0 /\ best_equation = {} /\ it = 0
      /\ done = <<>> /\ output_size = 0 /\ spc = "slice"
  BY SlicingIs, SlicerNames DEF Slicing!Init, Slicing!Zero
<1>2. W \in Nat \ {0} /\ slicerL \in Seq(Word) /\ input.l \in 0 .. W - 1
  BY <1>1, SlicerAssumed DEF slicerL
<1>3. /\ active \in Seq(Word) /\ Len(active) = Len(slicerL)
      /\ \A x : Count(active, x) = Count(slicerL, x)
  BY <1>1, <1>2, CountReverse
<1>4. SlicerTypeOK
  <2>1. E = Identity
    BY <1>1 DEF Identity
  <2>2. E \in [Bit -> Word] /\ {} \in Word /\ 0 \in 0 .. W /\ 0 \in Nat
    BY <1>2, <2>1, IdentityIs DEF Word
  <2>3. {active, reject, done, equations} \subseteq Seq(Word) /\ <<>> \in Seq(Word)
    BY <1>1, <1>3
  <2>4. Len(equations) = 0 /\ 0 <= W
    BY <1>1, <1>2
  <2>5. rows \in [Bit -> SUBSET Nat]
    BY <1>1
  <2> QED
    BY <1>1, <2>2, <2>3, <2>4, <2>5 DEF SlicerTypeOK
<1>5. EquationsInv
  <2>1. Independent(<<>>)
    BY DEF Independent
  <2> QED
    BY <1>1, <2>1 DEF EquationsInv
<1>6. RoundInv /\ EchelonInv /\ BestInv /\ SliceInv /\ InvertInv /\ SavedInv
  BY <1>1 DEF RoundInv, EchelonInv, BestInv, SliceInv, InvertInv, SavedInv, InRound, Searching
<1>7. CountInv
  <2>1. Len(done) + Len(active) + Len(reject) = Len(slicerL)
    <3>1. Len(done) = 0 /\ Len(reject) = 0 /\ Len(slicerL) \in Nat
      BY <1>1, <1>2
    <3> QED
      BY <1>3, <3>1
  <2>2. ASSUME NEW x \in Word
        PROVE  Count(done, x) + Count(active, x) + Count(reject, x) = Count(slicerL, x)
    <3>1. Count(done, x) = 0 /\ Count(reject, x) = 0 /\ Count(slicerL, x) \in Nat
      BY <1>1, <1>2, CountFew, CountType
    <3> QED
      BY <1>3, <3>1
  <2> QED
    BY <1>1, <2>1, <2>2 DEF CountInv
<1>8. SizeInv
  <2>1. Slicing!Header \in Nat /\ Slicing!output_space \in Nat
    BY <1>4, SlicerSpace
  <2>2. output_size = Slicing!Header * 0 + Len(done) + 0 /\ Len(done) = 0
    BY <1>1, <2>1
  <2>3. 0 * (W - input.l) <= Len(done)
    BY <1>2, <2>2
  <2>4. output_size <= Slicing!output_space /\ ~InHand
    BY <1>1, <2>1 DEF InHand
  <2> QED
    BY <2>2, <2>3, <2>4 DEF SizeInv
<1> QED
  BY <1>4, <1>5, <1>6, <1>7, <1>8 DEF SlicerInv

LEMMA SlicerNext == SlicerInv /\ (Slicing!Slice \/ UNCHANGED slicerVars) => SlicerInv'
<1>1. SlicerInv /\ Slicing!Slice => SlicerInv'
  BY StartRoundInv, PivotInv, SwapColumnInv, RankCheckedInv, PermuteInv, WeighedInv, FilterInv, DrawInv,
     InvertStepInv, SaveSliceInv, NextSliceInv, WrittenInv DEF Slicing!Slice
<1>2. ASSUME SlicerInv, UNCHANGED slicerVars PROVE SlicerInv'
  <2>1. /\ UNCHANGED <<input, active, reject, equations, done, output_size>>
        /\ UNCHANGED <<M, rows, E, j, scan, trials, best_weight, best_equation, it, slice, spc>>
    BY <1>2 DEF slicerVars
  <2>2. SlicerTypeOK' /\ EquationsInv' /\ RoundInv' /\ EchelonInv'
    BY <1>2, <2>1 DEF SlicerInv, SlicerTypeOK, EquationsInv, RoundInv, EchelonInv, InRound, Searching, slicerD
  <2>3. BestInv' /\ SliceInv' /\ InvertInv'
    BY <1>2, <2>1 DEF SlicerInv, BestInv, Divides, SliceInv, InvertInv, Searching, slicerD
  <2>4. SavedInv'
    BY <1>2, <2>1 DEF SlicerInv, SavedInv, Slicing!SliceChecked, Slicing!L, Slicing!l
  <2>5. CountInv' /\ SizeInv'
    BY <1>2, <2>1 DEF SlicerInv, CountInv, SizeInv, InHand, slicerL, Slicing!output_space, Slicing!Header,
       Slicing!L, Slicing!l
  <2> QED
    BY <2>2, <2>3, <2>4, <2>5 DEF SlicerInv
<1> QED
  BY <1>1, <1>2

LEMMA SlicerSafe == SlicerInv => Slicing!SlicesSound
<1> SUFFICES ASSUME SlicerInv PROVE Slicing!SlicesSound
  OBVIOUS
<1>1. SlicerTypeOK /\ EquationsInv /\ CountInv /\ SizeInv /\ SavedInv
  BY DEF SlicerInv
<1>2. Slicing!NeverImpossible
  BY <1>1 DEF SlicerTypeOK, Slicing!NeverImpossible
<1>3. Slicing!OutputFits
  BY <1>1 DEF SizeInv, Slicing!OutputFits
<1>4. ASSUME spc = "written"
      PROVE  /\ Len(done) = Len(slicerL)
             /\ \A x \in Slicing!Range(slicerL) : Count(done, x) = Count(slicerL, x)
  <2>1. active = <<>>
    BY <1>1, <1>4 DEF CountInv
  <2>2. reject = <<>>
    <3>1. equations = <<>>
      BY <1>1, <2>1 DEF EquationsInv
    <3> QED
      BY <1>1, <3>1 DEF EquationsInv
  <2>3. done \in Seq(Word) /\ slicerL \in Seq(Word) /\ Len(done) \in Nat
    BY <1>1, SlicerSizes
  <2>4. Len(done) = Len(slicerL)
    <3>1. Len(active) = 0 /\ Len(reject) = 0
      BY <2>1, <2>2
    <3>2. Len(done) + 0 + 0 = Len(slicerL)
      BY <1>1, <3>1, Zenon DEF CountInv
    <3> QED
      BY <2>3, <3>2
  <2>5. ASSUME NEW x \in Slicing!Range(slicerL) PROVE Count(done, x) = Count(slicerL, x)
    <3>1. x \in Word
      BY <2>3 DEF Slicing!Range
    <3>2. Count(active, x) = 0 /\ Count(reject, x) = 0 /\ Count(done, x) \in Nat
      BY <2>1, <2>2, <2>3, CountFew, CountType
    <3>3. Count(done, x) + 0 + 0 = Count(slicerL, x)
      BY <1>1, <3>1, <3>2, Zenon DEF CountInv
    <3> QED
      BY <3>2, <3>3
  <2> QED
    BY <2>4, <2>5
<1>5. Slicing!SlicesChecked
  <2>1. \A s, x : Count(s, x) = Slicing!Cardinality({n \in DOMAIN s : s[n] = x})
    BY SameCardinality, Zenon DEF Count
  <2>2. spc = "saved" => Slicing!SliceChecked(slice)
    BY <1>1 DEF SavedInv
  <2> QED
    BY <1>4, <2>1, <2>2, SlicerNames, Zenon DEF Slicing!SlicesChecked
<1> QED
  BY <1>2, <1>3, <1>5 DEF Slicing!SlicesSound

\* Whatever the list, l and the random choices, every slice can be made (the equations of a slice can be
\* padded to an invertible matrix, and no assertion fails on the way), passes slice_checker.c and has
\* room in what is allocated for the output, and the slices together hold the vectors of the list.
THEOREM SlicesSoundHolds == MCSpec => []SlicesSound
<1> DEFINE Inv == part = "slicer" => SlicerInv
<1>1. MCInit => Inv
  BY SlicerInit DEF MCInit
<1>2. Inv /\ [MCNext]_allVars => Inv'
  <2> SUFFICES ASSUME Inv, [MCNext]_allVars PROVE Inv'
    OBVIOUS
  <2>1. part' = part
    BY DEF MCNext, MergerStep, SlicerStep, PipelineStep, SolutionStep, allVars
  <2>2. part = "slicer" => Slicing!Slice \/ UNCHANGED slicerVars
    BY DEF MCNext, MergerStep, SlicerStep, PipelineStep, SolutionStep, allVars
  <2> QED
    BY <2>1, <2>2, SlicerNext
<1>3. Inv => SlicesSound
  BY SlicerSafe DEF SlicesSound
<1> QED
  BY <1>1, <1>2, <1>3, PTL DEF MCSpec

-----------------------------------------------------------------------------
(* The way of a preimage: what the splitter, the tasks and the postprocessing have done is what the jobs,
   the answers of SHA256 and the steps before them say. *)

BlockOf(job) == Trace!build_plaintext_block(job[1], job[2])
HashOf(job) == sha[BlockOf(job)]

TraceTypeOK ==
    /\ bits \in 0 .. word_bits - 1
    /\ step \in Nat
    /\ mined \subseteq Trace!Kind \X Nat
    /\ \A block \in DOMAIN sha : sha[block] \in Digests
    /\ \A job \in mined : BlockOf(job) \in DOMAIN sha

\* The entries are the valid jobs, with what was answered when they were mined.
EntriesInv ==
    step > Len(Jobs) =>
        entries = {Trace!Entry(job, HashOf(job)) : job \in {x \in mined : Trace!Valid(HashOf(x))}}

\* What a task reports: three entries of slots whose numbers XOR to 0, as their partial hashes do.
Joins(e, f, g) ==
    /\ e.kind = "foo" /\ f.kind = "bar" /\ g.kind = "foobar"
    /\ g.slot = Trace!Xor(e.slot, f.slot)
    /\ Trace!Xor3(e.hash, f.hash, g.hash) = <<Trace!Zero, Trace!Zero>>
Joined(e, f, g) ==
    [val |-> <<e.hash, f.hash, g.hash>>, task_index |-> <<e.slot, f.slot, Trace!Xor(e.slot, f.slot)>>]

SolutionsInv ==
    step > Len(Jobs) + 1 =>
        /\ \A s \in solutions : \E e, f, g \in entries : Joins(e, f, g) /\ s = Joined(e, f, g)
        /\ \A e, f, g \in entries : Joins(e, f, g) => Joined(e, f, g) \in solutions

TraceOf(s) ==
    <<Trace!Found("foo", s.task_index[1], s.val[1]),
      Trace!Found("bar", s.task_index[2], s.val[2]),
      Trace!Found("foobar", s.task_index[3], s.val[3])>>

TracedInv == step > Len(Jobs) + 2 => traced = {TraceOf(s) : s \in solutions}

TraceInv == TraceTypeOK /\ EntriesInv /\ SolutionsInv /\ TracedInv

LEMMA TraceSizes ==
  /\ word_bits \in Nat \ {0}
  /\ Len(Jobs) \in Nat
  /\ \A n \in 1 .. Len(Jobs) : Jobs[n] \in Trace!Kind \X Nat
  /\ \A h \in Digests :
       /\ DOMAIN h = 1 .. 4
       /\ \A n \in 1 .. 4 : h[n] \in SUBSET (0 .. word_bits - 1)
<1>1. /\ word_bits \in Nat \ {0}
      /\ Digests \subseteq Trace!Word \X Trace!Word \X Trace!Word \X Trace!Word
      /\ Jobs \in Seq(Trace!Kind \X Nat)
  BY MCPreprocessAssumption DEF Trace!SolutionsAssumption
<1>2. ASSUME NEW h \in Digests
      PROVE  DOMAIN h = 1 .. 4 /\ \A n \in 1 .. 4 : h[n] \in SUBSET (0 .. word_bits - 1)
  <2>1. PICK w1, w2, w3, w4 \in Trace!Word : h = <<w1, w2, w3, w4>>
    BY <1>1
  <2>2. {w1, w2, w3, w4} \subseteq SUBSET (0 .. word_bits - 1)
    BY <2>1 DEF Trace!Word, Trace!Bit
  <2>3. h[1] = w1 /\ h[2] = w2 /\ h[3] = w3 /\ h[4] = w4 /\ DOMAIN h = 1 .. 4
    BY <2>1
  <2>4. \A n \in 1 .. 4 : n = 1 \/ n = 2 \/ n = 3 \/ n = 4
    OBVIOUS
  <2> QED
    BY <2>2, <2>3, <2>4, Zenon
<1> QED
  BY <1>1, <1>2

LEMMA SameBlock == \A kind, counter : Trace!gen_foobar_work(kind, counter) = BlockOf(<<kind, counter>>)
BY DEF Trace!gen_foobar_work, BlockOf, Trace!build_plaintext_block

LEMMA AskedBefore ==
  ASSUME TraceTypeOK, NEW job \in mined
  PROVE  /\ \A h : Trace!FullHash(job, h) = HashOf(job)
         /\ HashOf(job) \in Digests
         /\ job \in Trace!Kind \X Nat
BY DEF TraceTypeOK, Trace!FullHash, HashOf, BlockOf

\* An entry passes dict_checker, and is of a job.
LEMMA EntryIs ==
  ASSUME TraceTypeOK, EntriesInv, step > Len(Jobs), NEW e \in entries
  PROVE  /\ e.kind \in Trace!Kind /\ e.preimage \in Nat
         /\ e.full \in Digests /\ Trace!DictChecked(e)
<1>1. PICK job \in mined : Trace!Valid(HashOf(job)) /\ e = Trace!Entry(job, HashOf(job))
  BY DEF EntriesInv
<1>2. e.kind = job[1] /\ e.preimage = job[2] /\ e.full = HashOf(job)
      /\ e.hash = Trace!extract_partial_hash(HashOf(job))
      /\ e.slot = Trace!extract_partitioning_key(bits, HashOf(job))
  BY <1>1 DEF Trace!Entry
<1>3. <<e.kind, e.preimage>> = job
  BY <1>2, AskedBefore
<1>4. Trace!FullHash(<<e.kind, e.preimage>>, e.full) = e.full
  BY <1>2, <1>3, AskedBefore
<1>5. Trace!DictChecked(e)
  BY <1>1, <1>2, <1>4 DEF Trace!DictChecked
<1> QED
  BY <1>2, <1>5, AskedBefore

LEMMA TraceInit == Trace!Init => TraceInv
BY TraceSizes DEF Trace!Init, TraceInv, TraceTypeOK, EntriesInv, SolutionsInv, TracedInv

LEMMA MineInv ==
  ASSUME TraceInv, Trace!Mine
  PROVE  TraceInv'
<1>1. step \in Nat /\ step' = step + 1 /\ step < Len(Jobs) /\ Len(Jobs) \in Nat
  BY TraceSizes DEF TraceInv, TraceTypeOK, Trace!Mine
<1>2. EntriesInv' /\ SolutionsInv' /\ TracedInv'
  BY <1>1 DEF EntriesInv, SolutionsInv, TracedInv
<1>3. bits' \in 0 .. word_bits - 1 /\ step' \in Nat
  BY <1>1 DEF TraceInv, TraceTypeOK, Trace!Mine
<1>4. CASE UNCHANGED <<mined, sha>>
  <2>1. \A job : BlockOf(job)' = BlockOf(job)
    BY DEF BlockOf
  <2> QED
    BY <1>2, <1>3, <1>4 DEF TraceInv, TraceTypeOK, BlockOf
<1>5. CASE ~UNCHANGED <<mined, sha>>
  <2> DEFINE job == Jobs[step + 1]
             block == BlockOf(job)
  <2>1. job \in Trace!Kind \X Nat
    BY <1>1, TraceSizes
  <2>2. Trace!gen_foobar_work(job[1], job[2]) = block
    BY <2>1, SameBlock
  <2>3. PICK h \in Digests :
          /\ sha' = [u \in DOMAIN sha \cup {block} |-> IF u \in DOMAIN sha THEN sha[u] ELSE h]
          /\ mined' = mined \cup {job}
    BY <1>5, <2>2 DEF Trace!Mine
  <2> HIDE DEF job, block
  <2>4. \A u \in DOMAIN sha' : sha'[u] \in Digests
    BY <2>3 DEF TraceInv, TraceTypeOK
  <2>5. \A x \in mined' : BlockOf(x) \in DOMAIN sha'
    BY <2>3 DEF TraceInv, TraceTypeOK, block
  <2>6. mined' \subseteq Trace!Kind \X Nat
    BY <2>1, <2>3 DEF TraceInv, TraceTypeOK
  <2>7. TraceTypeOK'
    BY <1>3, <2>4, <2>5, <2>6 DEF TraceTypeOK, BlockOf
  <2> QED
    BY <1>2, <2>7 DEF TraceInv
<1> QED
  BY <1>4, <1>5

LEMMA SplitInv ==
  ASSUME TraceInv, Trace!Split
  PROVE  TraceInv'
<1>1. step = Len(Jobs) /\ step' = step + 1 /\ step \in Nat /\ Len(Jobs) \in Nat
      /\ UNCHANGED <<bits, mined, sha, solutions, traced>>
  BY TraceSizes DEF TraceInv, TraceTypeOK, Trace!Split
<1>2. TraceTypeOK /\ TraceTypeOK'
  BY <1>1 DEF TraceInv, TraceTypeOK, BlockOf
<1>3. SolutionsInv' /\ TracedInv'
  BY <1>1 DEF SolutionsInv, TracedInv
<1>4. PICK h \in Digests :
        entries' = {Trace!Entry(job, Trace!FullHash(job, h)) :
                      job \in {x \in mined : Trace!Valid(Trace!FullHash(x, h))}}
  BY DEF Trace!Split
<1>5. \A job \in mined : Trace!FullHash(job, h) = HashOf(job)
  BY <1>2, AskedBefore
<1>6. entries' = {Trace!Entry(job, HashOf(job)) : job \in {x \in mined : Trace!Valid(HashOf(x))}}
  BY <1>4, <1>5
<1>7. EntriesInv'
  BY <1>1, <1>6 DEF EntriesInv, HashOf, BlockOf, Trace!Entry
<1> QED
  BY <1>2, <1>3, <1>7 DEF TraceInv

LEMMA DoTasksInv ==
  ASSUME TraceInv, Trace!DoTasks
  PROVE  TraceInv'
<1>1. step = Len(Jobs) + 1 /\ step' = step + 1 /\ step \in Nat /\ Len(Jobs) \in Nat
      /\ UNCHANGED <<bits, mined, sha, entries, traced>>
  BY TraceSizes DEF TraceInv, TraceTypeOK, Trace!DoTasks
<1>2. TraceTypeOK' /\ EntriesInv' /\ TracedInv'
  BY <1>1 DEF TraceInv, TraceTypeOK, EntriesInv, TracedInv, BlockOf, HashOf, Trace!Entry
<1> DEFINE ReportOf(x, y) ==
             {[val |-> <<t[1].hash, t[2].hash, t[3].hash>>, task_index |-> <<x, y, Trace!Xor(x, y)>>] :
                t \in {u \in Trace!In("foo", x) \X Trace!In("bar", y) \X Trace!In("foobar", Trace!Xor(x, y)) :
                         Trace!Xor3(u[1].hash, u[2].hash, u[3].hash) = <<Trace!Zero, Trace!Zero>>}}
<1>3. solutions' = UNION {ReportOf(x, y) : x \in Trace!SlotNumber, y \in Trace!SlotNumber}
  BY DEF Trace!DoTasks
<1>4. ASSUME NEW s \in solutions'
      PROVE  \E e, f, g \in entries : Joins(e, f, g) /\ s = Joined(e, f, g)
  <2>1. PICK x \in Trace!SlotNumber, y \in Trace!SlotNumber : s \in ReportOf(x, y)
    BY <1>3
  <2>2. PICK e \in Trace!In("foo", x), f \in Trace!In("bar", y), g \in Trace!In("foobar", Trace!Xor(x, y)) :
          /\ Trace!Xor3(e.hash, f.hash, g.hash) = <<Trace!Zero, Trace!Zero>>
          /\ s = [val |-> <<e.hash, f.hash, g.hash>>, task_index |-> <<x, y, Trace!Xor(x, y)>>]
    BY <2>1
  <2>3. /\ e \in entries /\ e.kind = "foo" /\ e.slot = x
        /\ f \in entries /\ f.kind = "bar" /\ f.slot = y
        /\ g \in entries /\ g.kind = "foobar" /\ g.slot = Trace!Xor(x, y)
    BY <2>2 DEF Trace!In
  <2> QED
    BY <2>2, <2>3 DEF Joins, Joined
<1>5. ASSUME NEW e \in entries, NEW f \in entries, NEW g \in entries, Joins(e, f, g)
      PROVE  Joined(e, f, g) \in solutions'
  <2>1. e.slot \in Trace!SlotNumber /\ f.slot \in Trace!SlotNumber
    <3>1. step > Len(Jobs) /\ TraceTypeOK /\ EntriesInv
      BY <1>1 DEF TraceInv
    <3>2. Trace!DictChecked(e) /\ Trace!DictChecked(f)
      BY <3>1, EntryIs
    <3>3. \A h : Trace!extract_partitioning_key(bits, h) \in Trace!SlotNumber
      BY DEF Trace!extract_partitioning_key, Trace!SlotNumber
    <3> QED
      BY <3>2, <3>3 DEF Trace!DictChecked
  <2>2. /\ e \in Trace!In("foo", e.slot) /\ f \in Trace!In("bar", f.slot)
        /\ g \in Trace!In("foobar", Trace!Xor(e.slot, f.slot))
    BY <1>5 DEF Joins, Trace!In
  <2>3. Joined(e, f, g) \in ReportOf(e.slot, f.slot)
    <3> DEFINE t == <<e, f, g>>
    <3>1. t \in {u \in Trace!In("foo", e.slot) \X Trace!In("bar", f.slot)
                         \X Trace!In("foobar", Trace!Xor(e.slot, f.slot)) :
                         Trace!Xor3(u[1].hash, u[2].hash, u[3].hash) = <<Trace!Zero, Trace!Zero>>}
      BY <1>5, <2>2 DEF Joins
    <3>2. Joined(e, f, g) = [val |-> <<t[1].hash, t[2].hash, t[3].hash>>,
                             task_index |-> <<e.slot, f.slot, Trace!Xor(e.slot, f.slot)>>]
      BY DEF Joined
    <3> QED
      BY <3>1, <3>2
  <2> HIDE DEF ReportOf
  <2> QED
    BY <1>3, <2>1, <2>3
<1>6. SolutionsInv'
  <2>1. \A e, f, g : Joins(e, f, g)' <=> Joins(e, f, g)
    BY DEF Joins, Trace!Xor, Trace!Xor3, Trace!Zero
  <2>2. \A e, f, g : Joined(e, f, g)' = Joined(e, f, g)
    BY DEF Joined
  <2> QED
    BY <1>1, <1>4, <1>5 DEF SolutionsInv
<1> QED
  BY <1>2, <1>6 DEF TraceInv

LEMMA CheckSolutionsInv ==
  ASSUME TraceInv, Trace!CheckSolutions
  PROVE  TraceInv'
<1>1. step = Len(Jobs) + 2 /\ step' = step + 1 /\ step \in Nat /\ Len(Jobs) \in Nat
      /\ UNCHANGED <<bits, mined, sha, entries, solutions>>
  BY TraceSizes DEF TraceInv, TraceTypeOK, Trace!CheckSolutions
<1>2. TraceTypeOK' /\ EntriesInv' /\ SolutionsInv'
  BY <1>1 DEF TraceInv, TraceTypeOK, EntriesInv, SolutionsInv, BlockOf, HashOf, Trace!Entry
<1>3. traced' = {TraceOf(s) : s \in solutions}
  BY DEF Trace!CheckSolutions, TraceOf
<1>4. TracedInv'
  BY <1>1, <1>3 DEF TracedInv, TraceOf, Trace!Found, Trace!In
<1> QED
  BY <1>2, <1>4 DEF TraceInv

LEMMA TraceNext == TraceInv /\ (Trace!Next \/ UNCHANGED solutionVars) => TraceInv'
<1>1. TraceInv /\ Trace!Next => TraceInv'
  BY MineInv, SplitInv, DoTasksInv, CheckSolutionsInv DEF Trace!Next
<1>2. ASSUME TraceInv, UNCHANGED solutionVars PROVE TraceInv'
  <2>1. UNCHANGED <<bits, step, mined, sha, entries, solutions, traced>>
    BY <1>2 DEF solutionVars
  <2>2. TraceTypeOK' /\ EntriesInv'
    BY <1>2, <2>1 DEF TraceInv, TraceTypeOK, EntriesInv, BlockOf, HashOf, Trace!Entry
  <2>3. SolutionsInv'
    BY <1>2, <2>1 DEF TraceInv, SolutionsInv
  <2>4. TracedInv'
    BY <1>2, <2>1 DEF TraceInv, TracedInv, TraceOf, Trace!Found, Trace!In
  <2> QED
    BY <2>2, <2>3, <2>4 DEF TraceInv
<1> QED
  BY <1>1, <1>2

-----------------------------------------------------------------------------
(* Xors of three words *)

LEMMA SumIs ==
  ASSUME NEW x, NEW y, NEW z, NEW n \in DOMAIN x
  PROVE  \A k : k \in Trace!Xor3(x, y, z)[n] <=>
                  ((k \in x[n]) <=> ((k \in y[n]) <=> (k \in z[n])))
<1>1. Trace!Xor3(x, y, z)[n] = Trace!Xor(Trace!Xor(x[n], y[n]), z[n])
  BY DEF Trace!Xor3
<1>2. \A v, w, k : k \in Trace!Xor(v, w) <=> ~(k \in v <=> k \in w)
  BY DEF Trace!Xor, Trace!SymDiff
<1> QED
  BY <1>1, <1>2

\* The partial hashes of three valid hashes XOR to 0 and so do their slots, exactly if the hashes XOR to
\* three words of zeros and 1 + bits zeros.
LEMMA JoinsAreSolutions ==
  ASSUME bits \in 0 .. word_bits - 1, NEW e, NEW f, NEW g, Trace!DictChecked(e), Trace!DictChecked(f),
         Trace!DictChecked(g), e.full \in Digests, f.full \in Digests, g.full \in Digests
  PROVE  Trace!IsSolution(e, f, g) <=>
           /\ g.slot = Trace!Xor(e.slot, f.slot)
           /\ Trace!Xor3(e.hash, f.hash, g.hash) = <<Trace!Zero, Trace!Zero>>
<1> DEFINE sum == Trace!Xor3(e.full, f.full, g.full)
           top == word_bits - 1
           short == Trace!Xor3(e.hash, f.hash, g.hash)
           InOdd(x, y, z, k) == (k \in x) <=> ((k \in y) <=> (k \in z))
<1>1. /\ word_bits \in Nat \ {0} /\ bits \in Nat /\ bits <= top /\ top \in Nat
      /\ \A h \in Digests : DOMAIN h = 1 .. 4 /\ \A n \in 1 .. 4 : h[n] \in SUBSET (0 .. top)
  BY TraceSizes
<1>2. \A n \in 1 .. 4 : \A k : k \in sum[n] <=> InOdd(e.full[n], f.full[n], g.full[n], k)
  <2>1. DOMAIN e.full = 1 .. 4
    BY <1>1
  <2> QED
    BY <2>1, SumIs
<1>3. \A n \in 1 .. 4 : sum[n] \in SUBSET (0 .. top)
  BY <1>1, <1>2
<1>4. \A p \in {e, f, g} : /\ p.full[4] = {} /\ top \notin p.full[3]
                           /\ p.hash[1] = p.full[2] /\ DOMAIN p.hash = 1 .. 2
                           /\ \A k : k \in p.slot <=> k \in 0 .. bits - 1 /\ k + (top - bits) \in p.full[1]
  <2>1. ASSUME NEW h \in Digests, Trace!Valid(h) PROVE h[4] = {} /\ top \notin h[3]
    BY <1>1, <2>1 DEF Trace!Valid, Trace!TopBit, Trace!Top, Trace!Zero
  <2>2. \A h : /\ Trace!extract_partial_hash(h)[1] = h[2]
               /\ DOMAIN Trace!extract_partial_hash(h) = 1 .. 2
    BY DEF Trace!extract_partial_hash
  <2>3. \A h, k : k \in Trace!extract_partitioning_key(bits, h) <=>
                    k \in 0 .. bits - 1 /\ k + (top - bits) \in h[1]
    BY DEF Trace!extract_partitioning_key
  <2>4. ASSUME NEW p \in {e, f, g}
        PROVE  /\ p.full \in Digests /\ Trace!Valid(p.full)
               /\ p.hash = Trace!extract_partial_hash(p.full)
               /\ p.slot = Trace!extract_partitioning_key(bits, p.full)
    BY DEF Trace!DictChecked
  <2> HIDE DEF top
  <2> QED
    BY <2>1, <2>2, <2>3, <2>4
<1>5. \A p \in {e, f, g} : \A k \in 0 .. top : k \in p.hash[2] <=> k \in p.full[3] \/ (k = top /\ k \in p.full[1])
  <2>1. ASSUME NEW h \in Digests, top \notin h[3], NEW k \in 0 .. top
        PROVE  k \in Trace!extract_partial_hash(h)[2] <=> k \in h[3] \/ (k = top /\ k \in h[1])
    <3>1. Trace!extract_partial_hash(h)[2] = Trace!Xor(h[3], Trace!TopBit(h[1]))
      BY DEF Trace!extract_partial_hash
    <3>2. k \in Trace!TopBit(h[1]) <=> k = top /\ k \in h[1]
      BY <1>1 DEF Trace!TopBit, Trace!Top
    <3>3. \A v, w : k \in Trace!Xor(v, w) <=> ~(k \in v <=> k \in w)
      BY DEF Trace!Xor, Trace!SymDiff
    <3> HIDE DEF top
    <3> QED
      BY <2>1, <3>1, <3>2, <3>3
  <2>2. ASSUME NEW p \in {e, f, g}
        PROVE  p.full \in Digests /\ p.hash = Trace!extract_partial_hash(p.full)
    BY DEF Trace!DictChecked
  <2> QED
    BY <1>4, <2>1, <2>2
<1>6. \A p \in {e, f, g} : \A k : k \in p.hash[2] => k \in 0 .. top
  <2>1. ASSUME NEW h \in Digests, NEW k \in Trace!extract_partial_hash(h)[2] PROVE k \in 0 .. top
    BY <1>1 DEF Trace!extract_partial_hash, Trace!Xor, Trace!SymDiff, Trace!TopBit, Trace!Top
  <2>2. ASSUME NEW p \in {e, f, g}
        PROVE  p.full \in Digests /\ p.hash = Trace!extract_partial_hash(p.full)
    BY DEF Trace!DictChecked
  <2> QED
    BY <2>1, <2>2
<1> HIDE DEF sum, top
<1>7. \A n \in 1 .. 2 : \A k : k \in short[n] <=> InOdd(e.hash[n], f.hash[n], g.hash[n], k)
  BY <1>4, SumIs
<1>8. short = <<short[1], short[2]>>
  <2>1. DOMAIN short = 1 .. 2 /\ short = [n \in DOMAIN short |-> short[n]]
    BY <1>4 DEF Trace!Xor3
  <2> HIDE DEF short
  <2> QED
    BY <2>1
<1> HIDE DEF short
<1>9. \A k : k \in short[1] <=> k \in sum[2]
  <2>1. \A k : k \in short[1] <=> InOdd(e.hash[1], f.hash[1], g.hash[1], k)
    BY <1>7
  <2>2. \A k : k \in sum[2] <=> InOdd(e.full[2], f.full[2], g.full[2], k)
    BY <1>2
  <2> QED
    BY <1>4, <2>1, <2>2
<1>10. short[2] = {} <=> sum[3] = {} /\ top \notin sum[1]
  <2>1. \A k \in 0 .. top : k \in short[2] <=> k \in sum[3] \/ (k = top /\ k \in sum[1])
    <3> SUFFICES ASSUME NEW k \in 0 .. top
                 PROVE  k \in short[2] <=> k \in sum[3] \/ (k = top /\ k \in sum[1])
      OBVIOUS
    <3>1. k \in short[2] <=> InOdd(e.hash[2], f.hash[2], g.hash[2], k)
      BY <1>7
    <3>2. k \in sum[3] <=> InOdd(e.full[3], f.full[3], g.full[3], k)
      BY <1>2
    <3>3. k \in sum[1] <=> InOdd(e.full[1], f.full[1], g.full[1], k)
      BY <1>2
    <3>4. \A p \in {e, f, g} : k \in p.hash[2] <=> k \in p.full[3] \/ (k = top /\ k \in p.full[1])
      BY <1>5
    <3>5. CASE k = top
      <4>1. \A p \in {e, f, g} : k \notin p.full[3]
        BY <1>4, <3>5
      <4> QED
        BY <3>1, <3>2, <3>3, <3>4, <3>5, <4>1
    <3>6. CASE k # top
      BY <3>1, <3>2, <3>4, <3>6
    <3> QED
      BY <3>5, <3>6
  <2>2. \A k : k \in short[2] => k \in 0 .. top
    <3> SUFFICES ASSUME NEW k \in short[2], k \notin 0 .. top PROVE FALSE
      OBVIOUS
    <3>1. InOdd(e.hash[2], f.hash[2], g.hash[2], k)
      BY <1>7
    <3> QED
      BY <1>6, <3>1
  <2>3. \A k \in sum[3] : k \in 0 .. top
    BY <1>3
  <2>4. top \in 0 .. top
    BY <1>1
  <2> QED
    BY <2>1, <2>2, <2>3, <2>4
<1>11. sum[4] = {}
  BY <1>2, <1>4
<1>12. g.slot = Trace!Xor(e.slot, f.slot) <=> \A k \in 0 .. bits - 1 : k + (top - bits) \notin sum[1]
  <2>1. \A k : k \in Trace!Xor(e.slot, f.slot) <=> ~(k \in e.slot <=> k \in f.slot)
    BY DEF Trace!Xor, Trace!SymDiff
  <2>2. \A k \in 0 .. bits - 1 : k + (top - bits) \in sum[1] <=> InOdd(e.slot, f.slot, g.slot, k)
    BY <1>2, <1>4
  <2>3. \A p \in {e, f, g} : \A k \in p.slot : k \in 0 .. bits - 1
    BY <1>4
  <2> QED
    BY <2>1, <2>2, <2>3
<1>13. Trace!Top(sum[1], 1 + bits) = {} <=>
          top \notin sum[1] /\ \A k \in 0 .. bits - 1 : k + (top - bits) \notin sum[1]
  <2>1. Trace!Top(sum[1], 1 + bits) = {k \in sum[1] : k >= top - bits}
    BY <1>1 DEF Trace!Top, top
  <2>2. \A k \in sum[1] : k >= top - bits /\ k # top => k - (top - bits) \in 0 .. bits - 1
    BY <1>1, <1>3
  <2>3. \A k \in sum[1] : k = (k - (top - bits)) + (top - bits)
    BY <1>1, <1>3
  <2>4. top >= top - bits /\ \A k \in 0 .. bits - 1 : k + (top - bits) >= top - bits
    BY <1>1
  <2> QED
    BY <2>1, <2>2, <2>3, <2>4
<1>14. Trace!IsSolution(e, f, g) <=> /\ sum[2] = {} /\ sum[3] = {} /\ sum[4] = {}
                                     /\ Trace!Top(sum[1], 1 + bits) = {}
  BY DEF Trace!IsSolution, Trace!Zero, sum
<1>15. short = <<Trace!Zero, Trace!Zero>> <=> short[1] = {} /\ short[2] = {}
  BY <1>8 DEF Trace!Zero
<1> QED
  BY <1>9, <1>10, <1>11, <1>12, <1>13, <1>14, <1>15 DEF short

-----------------------------------------------------------------------------
(* What is traced *)

\* The first entry of a slot that has the value of an entry is one that has it.
LEMMA FoundIs ==
  ASSUME TraceTypeOK, EntriesInv, step > Len(Jobs), NEW e \in entries
  PROVE  LET d == Trace!Found(e.kind, e.slot, e.hash)
         IN  d \in entries /\ d.kind = e.kind /\ d.slot = e.slot /\ d.hash = e.hash
<1> DEFINE matches == {d \in Trace!In(e.kind, e.slot) : d.hash = e.hash}
           X == {d.preimage : d \in matches}
<1>1. \A d \in matches : d \in entries /\ d.kind = e.kind /\ d.slot = e.slot /\ d.hash = e.hash
  BY DEF Trace!In
<1>2. e \in matches
  BY DEF Trace!In
<1> HIDE DEF matches
<1>3. \A d \in matches : d.preimage \in Nat
  BY <1>1, EntryIs
<1>4. PICK m \in X : \A k \in X : m <= k
  <2>1. X \in SUBSET Nat /\ X # {}
    BY <1>2, <1>3
  <2> HIDE DEF X
  <2> QED
    BY <2>1, Least
<1>5. \E d \in matches : \A f \in matches : d.preimage <= f.preimage
  BY <1>4
<1>6. Trace!Found(e.kind, e.slot, e.hash) \in matches
  BY <1>5 DEF Trace!Found, matches
<1> QED
  BY <1>1, <1>6

\* print_result counts no less zeros than there are.
LEMMA BitsReported ==
  ASSUME bits \in 0 .. word_bits - 1, NEW sum, sum[1] \in SUBSET (0 .. word_bits - 1),
         Trace!Top(sum[1], 1 + bits) = {}
  PROVE  Trace!ReportedBits(sum) >= 3 * word_bits + 1 + bits
<1>1. word_bits \in Nat /\ bits \in Nat /\ bits <= word_bits - 1
  BY TraceSizes
<1>2. CASE sum[1] = {}
  BY <1>1, <1>2 DEF Trace!ReportedBits, Trace!Zero
<1>3. CASE sum[1] # {}
  <2> DEFINE m == Trace!Max(sum[1])
  <2>1. m \in sum[1]
    <3>1. \E u \in sum[1] : \A y \in sum[1] : u >= y
      <4> DEFINE n == word_bits - 1
      <4>1. n \in Nat /\ sum[1] \in SUBSET (0 .. n)
        BY <1>1
      <4> HIDE DEF n
      <4> QED
        BY <1>3, <4>1, SomeGreatest
    <3> QED
      BY <3>1 DEF Trace!Max
  <2>2. m \in Nat /\ m <= word_bits - 2 - bits
    BY <1>1, <2>1 DEF Trace!Top
  <2> HIDE DEF m
  <2>3. Trace!CeilLog2(sum[1]) = m \/ Trace!CeilLog2(sum[1]) = m + 1
    BY DEF Trace!CeilLog2, m
  <2>4. Trace!ReportedBits(sum) = 4 * word_bits - Trace!CeilLog2(sum[1])
    BY <1>3 DEF Trace!ReportedBits, Trace!Zero
  <2> QED
    BY <1>1, <2>2, <2>3, <2>4
<1> QED
  BY <1>2, <1>3

LEMMA TraceSafe == TraceInv => Trace!SolutionsTraced
<1> SUFFICES ASSUME TraceInv PROVE Trace!SolutionsTraced
  OBVIOUS
<1>1. TraceTypeOK /\ EntriesInv /\ SolutionsInv /\ TracedInv /\ step \in Nat /\ Len(Jobs) \in Nat
  BY TraceSizes DEF TraceInv, TraceTypeOK
<1>2. ASSUME step > Len(Jobs), NEW e \in entries PROVE Trace!DictChecked(e)
  BY <1>1, <1>2, EntryIs
<1>3. ASSUME step > Len(Jobs), NEW job \in mined,
             Trace!Valid(sha[Trace!gen_foobar_work(job[1], job[2])])
      PROVE  \E e \in entries : e.kind = job[1] /\ e.preimage = job[2]
  <2>1. job \in Trace!Kind \X Nat
    BY <1>1, AskedBefore
  <2>2. Trace!gen_foobar_work(job[1], job[2]) = BlockOf(job)
    BY <2>1, SameBlock
  <2>3. Trace!Entry(job, HashOf(job)) \in entries
    BY <1>1, <1>3, <2>2 DEF EntriesInv, HashOf
  <2> QED
    BY <2>3 DEF Trace!Entry
<1>4. ASSUME step = Len(Jobs) + 3
      PROVE  /\ \A t \in traced :
                  /\ Trace!IsSolution(t[1], t[2], t[3])
                  /\ Trace!ReportedBits(Trace!Xor3(t[1].full, t[2].full, t[3].full)) >= 3 * word_bits + 1 + bits
             /\ \A e, f, g \in entries :
                  e.kind = "foo" /\ f.kind = "bar" /\ g.kind = "foobar" /\ Trace!IsSolution(e, f, g) =>
                    \E t \in traced : t[1].hash = e.hash /\ t[2].hash = f.hash /\ t[3].hash = g.hash
  <2>1. /\ step > Len(Jobs) /\ bits \in 0 .. word_bits - 1
        /\ \A s \in solutions : \E e, f, g \in entries : Joins(e, f, g) /\ s = Joined(e, f, g)
        /\ \A e, f, g \in entries : Joins(e, f, g) => Joined(e, f, g) \in solutions
        /\ traced = {TraceOf(s) : s \in solutions}
    BY <1>1, <1>4 DEF SolutionsInv, TracedInv, TraceTypeOK
  <2>2. ASSUME NEW e \in entries, NEW f \in entries, NEW g \in entries, Joins(e, f, g),
               NEW t, t = TraceOf(Joined(e, f, g))
        PROVE  /\ t[1] \in entries /\ t[2] \in entries /\ t[3] \in entries
               /\ t[1].hash = e.hash /\ t[2].hash = f.hash /\ t[3].hash = g.hash
               /\ Joins(t[1], t[2], t[3])
    <3>1. t = <<Trace!Found(e.kind, e.slot, e.hash), Trace!Found(f.kind, f.slot, f.hash),
                Trace!Found(g.kind, g.slot, g.hash)>>
      BY <2>2 DEF TraceOf, Joined, Joins
    <3>2. /\ t[1] = Trace!Found(e.kind, e.slot, e.hash) /\ t[2] = Trace!Found(f.kind, f.slot, f.hash)
          /\ t[3] = Trace!Found(g.kind, g.slot, g.hash)
      BY <3>1
    <3>3. /\ t[1] \in entries /\ t[1].kind = e.kind /\ t[1].slot = e.slot /\ t[1].hash = e.hash
          /\ t[2] \in entries /\ t[2].kind = f.kind /\ t[2].slot = f.slot /\ t[2].hash = f.hash
          /\ t[3] \in entries /\ t[3].kind = g.kind /\ t[3].slot = g.slot /\ t[3].hash = g.hash
      BY <1>1, <2>1, <3>2, FoundIs
    <3> QED
      BY <2>2, <3>3 DEF Joins
  <2>3. ASSUME NEW e \in entries, NEW f \in entries, NEW g \in entries
        PROVE  Trace!IsSolution(e, f, g) <=>
                 /\ g.slot = Trace!Xor(e.slot, f.slot)
                 /\ Trace!Xor3(e.hash, f.hash, g.hash) = <<Trace!Zero, Trace!Zero>>
    BY <1>1, <2>1, EntryIs, JoinsAreSolutions
  <2>4. ASSUME NEW t \in traced
        PROVE  /\ Trace!IsSolution(t[1], t[2], t[3])
               /\ Trace!ReportedBits(Trace!Xor3(t[1].full, t[2].full, t[3].full)) >= 3 * word_bits + 1 + bits
    <3>1. PICK e \in entries, f \in entries, g \in entries : Joins(e, f, g) /\ t = TraceOf(Joined(e, f, g))
      BY <2>1
    <3>2. t[1] \in entries /\ t[2] \in entries /\ t[3] \in entries /\ Joins(t[1], t[2], t[3])
      BY <2>2, <3>1
    <3>3. Trace!IsSolution(t[1], t[2], t[3])
      BY <2>3, <3>2 DEF Joins
    <3> DEFINE sum == Trace!Xor3(t[1].full, t[2].full, t[3].full)
    <3>4. Trace!Top(sum[1], 1 + bits) = {}
      BY <3>3 DEF Trace!IsSolution, Trace!Zero
    <3>5. sum[1] \in SUBSET (0 .. word_bits - 1)
      <4>1. t[1].full \in Digests /\ t[2].full \in Digests /\ t[3].full \in Digests
        BY <1>1, <2>1, <3>2, EntryIs
      <4>2. /\ 1 \in DOMAIN t[1].full
            /\ t[1].full[1] \in SUBSET (0 .. word_bits - 1) /\ t[2].full[1] \in SUBSET (0 .. word_bits - 1)
            /\ t[3].full[1] \in SUBSET (0 .. word_bits - 1)
        BY <4>1, TraceSizes
      <4> QED
        BY <4>2, SumIs
    <3> HIDE DEF sum
    <3> QED
      BY <2>1, <3>3, <3>4, <3>5, BitsReported DEF sum
  <2>5. ASSUME NEW e \in entries, NEW f \in entries, NEW g \in entries,
               e.kind = "foo", f.kind = "bar", g.kind = "foobar", Trace!IsSolution(e, f, g)
        PROVE  \E t \in traced : t[1].hash = e.hash /\ t[2].hash = f.hash /\ t[3].hash = g.hash
    <3>1. Joins(e, f, g)
      BY <2>3, <2>5 DEF Joins
    <3>2. TraceOf(Joined(e, f, g)) \in traced
      BY <2>1, <3>1
    <3> QED
      BY <2>2, <3>1, <3>2
  <2> QED
    BY <2>4, <2>5
<1> QED
  BY <1>2, <1>3, <1>4 DEF Trace!SolutionsTraced

\* Whatever is mined and whatever SHA256 answers, for any width of the words and any number of key bits:
\* dict_checker accepts every entry the splitter makes, every valid preimage that was mined has one, what
\* the tasks report on 64 bits is traced to preimages whose full hashes XOR to the zeros it promises, and
\* every such triple is reported.
THEOREM SolutionsTracedHolds == MCSpec => []SolutionsTraced
<1> DEFINE Inv == part = "solutions" => TraceInv
<1>1. MCInit => Inv
  BY TraceInit DEF MCInit
<1>2. Inv /\ [MCNext]_allVars => Inv'
  <2> SUFFICES ASSUME Inv, [MCNext]_allVars PROVE Inv'
    OBVIOUS
  <2>1. part' = part
    BY DEF MCNext, MergerStep, SlicerStep, PipelineStep, SolutionStep, allVars
  <2>2. part = "solutions" => Trace!Next \/ UNCHANGED solutionVars
    BY DEF MCNext, MergerStep, SlicerStep, PipelineStep, SolutionStep, allVars
  <2> QED
    BY <2>1, <2>2, TraceNext
<1>3. Inv => SolutionsTraced
  BY TraceSafe DEF SolutionsTraced
<1> QED
  BY <1>1, <1>2, <1>3, PTL DEF MCSpec
=============================================================================
