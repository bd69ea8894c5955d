----------------------------- MODULE TaskProofs -----------------------------
(***************************************************************************)
(* The hash table of a slice (CuckooTable), the join of a task (JouxTask)  *)
(* and the product by tables (Matmul).                                     *)
(*                                                                         *)
(* The table answers exactly for any size, hash functions and list.        *)
(*                                                                         *)
(* The task, for any lists and slices, and any numbers of threads and      *)
(* partitions.  The induction of JoinExact follows the words: into the     *)
(* buckets (PartInv), out of them into the partitions, which the leading   *)
(* bits of a word number, and pair by pair into the threads' preselected   *)
(* (JoinInv).  That of InBounds goes on from there: the reports under way  *)
(* are among those the slice calls for (CheckInv), and what the threads    *)
(* count is never more than the reports that are over.                     *)
(* For ReportsExact, what the lists of solutions hold are words of reports *)
(* in their places (EntryInv), and where no two threads report to the same *)
(* list the result has the solutions of the slices it covers (SparseInv).  *)
(*                                                                         *)
(* The product by tables is the product, for any matrix: a Gray code       *)
(* differs from the one before in the row that is added (GrayStep), every  *)
(* number is one (GrayOnto), and a product is the xor of those of the      *)
(* parts of the word (PartsOfProduct).                                     *)
(***************************************************************************)
EXTENDS CuckooTable, Matmul, JouxTask, SequenceTheorems, FiniteSetTheorems, WellFoundedInduction, TLAPS

(***************************************************************************)
(* The table                                                               *)
(***************************************************************************)
\* How much of the list has been dealt with, the element in hand included.
Taken == IF build = "kick" THEN i ELSE i - 1

\* The position in the list: an element in hand is one of the list, and the list
\* is exhausted at the end.
PositionInv == (build = "kick" => i <= Len(L)) /\ (build = "done" => i = Len(L) + 1)

\* Nothing but elements of the list is in the table.
SoundInv == \A s \in Index : H[s] \in Elements \cup {0}

\* Before a failure: every entry is at one of the two places of its element, the
\* element in hand is on its way to one of its two, and no other has been lost.
CuckooInv ==
    ~fail =>
      /\ build \in {"next", "kick", "done"}
      /\ \A s \in Index : H[s] # 0 => s \in {H0[H[s]], H1[H[s]]}
      /\ build = "kick" => x \in Elements /\ h \in {H0[x], H1[x]}
      /\ \A k \in 1 .. Taken : (build = "kick" /\ x = L[k]) \/ \E s \in Index : H[s] = L[k]

\* After a failure: linear probing meets every element dealt with before a free entry.
LinearInv ==
    fail =>
      /\ build \in {"linear", "hang", "done"}
      /\ \A k \in 1 .. Taken : linear_lookup(L[k])

\* What the induction takes of the table.
TableInv == TableTypeOK /\ PositionInv /\ SoundInv /\ CuckooInv /\ LinearInv

(* The list is one of non-zero words, and its entries are its elements. *)
LEMMA ListType ==
  ASSUME TableTypeOK
  PROVE  /\ L \in Seq(Value) /\ Len(L) \in Nat
         /\ \A k \in 1 .. Len(L) : L[k] \in Value /\ L[k] \in Elements
         /\ Elements \subseteq Value
  BY CuckooAssumption DEF TableTypeOK, Elements

(* Linear probing stays inside the table. *)
LEMMA ProbeType ==
  ASSUME TableTypeOK, NEW y \in Value \cup {0}, NEW d \in Nat PROVE Probe(y, d) \in Index
<1>1. H0[y] \in Nat
  BY CuckooAssumption DEF TableTypeOK, Index
<1>. QED BY <1>1, CuckooAssumption DEF Probe, Index

(* A cleared table is a table. *)
LEMMA EmptyType == Empty \in [Index -> Value \cup {0}] /\ \A s \in Index : Empty[s] = 0
  BY DEF Empty

(* The table, the position in the list and the number of rounds stay in range. *)
LEMMA TypeStep == TableTypeOK /\ PositionInv /\ [TableStep]_tableVars => TableTypeOK'
<1> SUFFICES ASSUME TableTypeOK, PositionInv, [TableStep]_tableVars PROVE TableTypeOK'
  OBVIOUS
<1> USE CuckooAssumption, ListType
<1>1. ASSUME StartInsert PROVE TableTypeOK'
  <2>1. i \in 1 .. Len(L) /\ L[i] \in Value
    BY <1>1 DEF StartInsert, TableTypeOK
  <2>2. H0[L[i]] \in Index
    BY <2>1 DEF TableTypeOK
  <2>3. 0 \in 0 .. 2 * CM_HASH_SIZE
    OBVIOUS
  <2>. QED BY <1>1, <2>1, <2>2, <2>3 DEF StartInsert, TableTypeOK, hashes
<1>2. ASSUME Kick PROVE TableTypeOK'
  <2>1. H' \in [Index -> Value \cup {0}] /\ H[h] \in Value \cup {0}
    BY <1>2 DEF Kick, TableTypeOK
  <2>2. OtherPlace(H[h]) \in Index
    BY <2>1 DEF OtherPlace, TableTypeOK
  <2>3. i <= Len(L) /\ i \in Nat
    BY <1>2 DEF Kick, PositionInv, TableTypeOK
  <2>. QED BY <1>2, <2>1, <2>2, <2>3 DEF Kick, TableTypeOK, hashes, RoundsLeft
<1>3. ASSUME GiveUp PROVE TableTypeOK'
  BY <1>3, EmptyType DEF GiveUp, TableTypeOK, hashes, Cleared
<1>4. ASSUME LinearInsert PROVE TableTypeOK'
  <2>1. i \in 1 .. Len(L) /\ L[i] \in Value
    BY <1>4 DEF LinearInsert, TableTypeOK
  <2>2. H' \in [Index -> Value \cup {0}]
    BY <1>4, <2>1 DEF LinearInsert, TableTypeOK
  <2>. QED BY <1>4, <2>1, <2>2 DEF LinearInsert, TableTypeOK, hashes
<1>5. ASSUME LinearHang PROVE TableTypeOK'
  BY <1>5 DEF LinearHang, TableTypeOK, hashes
<1>6. ASSUME Built PROVE TableTypeOK'
  BY <1>6 DEF Built, TableTypeOK, hashes
<1>7. ASSUME UNCHANGED tableVars PROVE TableTypeOK'
  BY <1>7 DEF tableVars, TableTypeOK, hashes
<1>. QED BY <1>1, <1>2, <1>3, <1>4, <1>5, <1>6, <1>7 DEF TableStep, Return

(* Each step of the build keeps the invariant: a kick moves one element from the *)
(* table to the hand and the hand's element to one of its two places; a linear   *)
(* insertion fills a free entry and so leaves every earlier probe path intact.   *)
LEMMA StepTableInv == TableInv /\ [TableStep]_tableVars => TableInv'
<1> SUFFICES ASSUME TableInv, [TableStep]_tableVars PROVE PositionInv' /\ SoundInv' /\ CuckooInv' /\ LinearInv'
  BY TypeStep DEF TableInv
<1> USE CuckooAssumption
<1>0. TableTypeOK /\ PositionInv /\ SoundInv /\ CuckooInv /\ LinearInv
  BY DEF TableInv
<1>t. /\ L \in Seq(Value) /\ Len(L) \in Nat /\ i \in Nat /\ i >= 1
      /\ \A k \in 1 .. Len(L) : L[k] \in Value /\ L[k] \in Elements
      /\ Elements \subseteq Value
  BY <1>0, ListType DEF TableTypeOK
<1>1. ASSUME StartInsert PROVE PositionInv' /\ SoundInv' /\ CuckooInv' /\ LinearInv'
  <2>1. /\ UNCHANGED <<H0, H1, L, H, i, fail>> /\ build = "next" /\ build' = "kick"
        /\ i <= Len(L) /\ x' = L[i] /\ h' = H0[L[i]] /\ Elements' = Elements
    BY <1>1 DEF StartInsert, hashes, Elements
  <2>2. ~fail
    BY <1>0, <2>1 DEF LinearInv
  <2>3. Taken' = i /\ Taken = i - 1
    BY <2>1 DEF Taken
  <2>4. L[i] \in Elements
    BY <1>t, <2>1
  <2>5. \A k \in 1 .. i : k \in 1 .. i - 1 \/ k = i
    BY <1>t
  <2>6. CuckooInv'
    BY <1>0, <2>1, <2>2, <2>3, <2>4, <2>5 DEF CuckooInv
  <2>. QED BY <1>0, <2>1, <2>2, <2>6 DEF PositionInv, SoundInv, LinearInv
<1>2. ASSUME Kick PROVE PositionInv' /\ SoundInv' /\ CuckooInv' /\ LinearInv'
  <2>1. /\ UNCHANGED <<H0, H1, L, fail>> /\ build = "kick" /\ Elements' = Elements
        /\ H' = [H EXCEPT ![h] = x] /\ x' = H[h]
    BY <1>2 DEF Kick, hashes, Elements
  <2>2. ~fail /\ i <= Len(L)
    BY <1>0, <2>1 DEF LinearInv, PositionInv
  <2>3. x \in Elements /\ h \in {H0[x], H1[x]} /\ x # 0 /\ h \in Index
    BY <1>0, <1>t, <2>1, <2>2 DEF CuckooInv, TableTypeOK
  <2>4. \A s \in Index : H'[s] = IF s = h THEN x ELSE H[s]
    BY <1>0, <2>1 DEF TableTypeOK
  <2>5. SoundInv'
    BY <1>0, <2>1, <2>3, <2>4 DEF SoundInv
  <2>6. \A s \in Index : H'[s] # 0 => s \in {H0[H'[s]], H1[H'[s]]}
    BY <1>0, <2>2, <2>3, <2>4 DEF CuckooInv
  <2>7. \A k \in 1 .. i : x' = L[k] \/ \E s \in Index : H'[s] = L[k]
    <3> SUFFICES ASSUME NEW k \in 1 .. i, x' # L[k] PROVE \E s \in Index : H'[s] = L[k]
      OBVIOUS
    <3>1. x = L[k] \/ \E s \in Index : H[s] = L[k]
      BY <1>0, <2>1, <2>2 DEF CuckooInv, Taken
    <3>2. CASE x = L[k]
      BY <2>3, <2>4, <3>2
    <3>3. CASE \E s \in Index : H[s] = L[k]
      BY <2>1, <2>4, <3>3
    <3>. QED BY <3>1, <3>2, <3>3
  <2>8. CASE x' = 0 /\ build' = "next" /\ i' = i + 1
    <3>1. Taken' = i
      BY <1>t, <2>8 DEF Taken
    <3>2. \A k \in 1 .. i : L[k] # 0
      BY <1>t, <2>2
    <3>3. CuckooInv'
      BY <2>1, <2>2, <2>6, <2>7, <2>8, <3>1, <3>2 DEF CuckooInv
    <3>. QED BY <2>1, <2>2, <2>5, <2>8, <3>3 DEF PositionInv, LinearInv
  <2>9. CASE x' # 0 /\ h' = OtherPlace(H[h]) /\ build' = build /\ i' = i
    <3>1. Taken' = i
      BY <2>1, <2>9 DEF Taken
    <3>2. x' \in Elements
      BY <1>0, <2>1, <2>3, <2>9 DEF SoundInv
    <3>3. h' \in {H0[x'], H1[x']}
      BY <2>1, <2>9 DEF OtherPlace
    <3>4. CuckooInv'
      BY <2>1, <2>2, <2>6, <2>7, <2>9, <3>1, <3>2, <3>3 DEF CuckooInv
    <3>. QED BY <2>1, <2>2, <2>5, <2>9, <3>4 DEF PositionInv, LinearInv
  <2>. QED BY <1>2, <2>8, <2>9 DEF Kick
<1>3. ASSUME GiveUp PROVE PositionInv' /\ SoundInv' /\ CuckooInv' /\ LinearInv'
  <2>1. build' = "linear" /\ fail' = TRUE /\ H' = Empty /\ i' = 1
    BY <1>3 DEF GiveUp, Cleared
  <2>2. \A k \in 1 .. Taken' : FALSE
    BY <2>1 DEF Taken
  <2>3. SoundInv'
    BY <2>1, EmptyType DEF SoundInv
  <2>. QED BY <2>1, <2>2, <2>3 DEF PositionInv, CuckooInv, LinearInv
<1>4. ASSUME LinearInsert PROVE PositionInv' /\ SoundInv' /\ CuckooInv' /\ LinearInv'
  <2>1. /\ UNCHANGED <<H0, H1, L, build, fail>> /\ build = "linear" /\ i <= Len(L) /\ i' = i + 1
        /\ Elements' = Elements
    BY <1>4 DEF LinearInsert, hashes, Elements
  <2>2. fail
    BY <1>0, <2>1 DEF CuckooInv
  <2>3. L[i] \in Value /\ L[i] \in Elements /\ L[i] # 0
    BY <1>t, <2>1
  <2>4. PICK d \in Index : FirstFree(L[i], d) /\ H' = [H EXCEPT ![Probe(L[i], d)] = L[i]]
    BY <1>4 DEF LinearInsert
  <2> DEFINE b == Probe(L[i], d)
  <2>d. d \in Nat
    BY DEF Index
  <2>5. b \in Index
    BY <1>0, <2>3, <2>d, ProbeType
  <2>6. H[b] = 0 /\ \A k \in 0 .. d - 1 : H[Probe(L[i], k)] # 0
    BY <2>4 DEF FirstFree
  <2>7. \A s \in Index : H'[s] = IF s = b THEN L[i] ELSE H[s]
    BY <1>0, <2>4, <2>5 DEF TableTypeOK
  <2> HIDE DEF b
  <2>8. SoundInv'
    BY <1>0, <2>1, <2>3, <2>7 DEF SoundInv
  <2>9. \A y \in Value : \A k \in Nat : Probe(y, k) \in Index /\ Probe(y, k)' = Probe(y, k)
    BY <1>0, <2>1, ProbeType DEF Probe
  <2>10. \A y \in Value : linear_lookup(y) => linear_lookup(y)'
    <3> SUFFICES ASSUME NEW y \in Value, linear_lookup(y) PROVE linear_lookup(y)'
      OBVIOUS
    <3>1. PICK m \in Index : H[Probe(y, m)] = y /\ \A k \in 0 .. m - 1 : H[Probe(y, k)] # 0
      BY DEF linear_lookup
    <3>2. m \in Nat /\ \A k \in 0 .. m - 1 : k \in Nat
      BY DEF Index
    <3>3. H'[Probe(y, m)] = y
      BY <2>6, <2>7, <2>9, <3>1, <3>2
    <3>4. \A k \in 0 .. m - 1 : H'[Probe(y, k)] # 0
      BY <2>3, <2>7, <2>9, <3>1, <3>2
    <3>5. H'[Probe(y, m)'] = y /\ \A k \in 0 .. m - 1 : H'[Probe(y, k)'] # 0
      BY <2>9, <3>2, <3>3, <3>4
    <3>. QED BY <3>5 DEF linear_lookup
  <2>11. ASSUME NEW y \in Value, y = L[i] PROVE linear_lookup(y)'
    <3>1. d \in Nat /\ \A k \in 0 .. d - 1 : k \in Nat
      BY DEF Index
    <3>2. H'[b] = y /\ b = Probe(y, d)
      BY <2>5, <2>7, <2>11 DEF b
    <3>3. \A k \in 0 .. d - 1 : H'[Probe(y, k)] # 0
      BY <2>3, <2>6, <2>7, <2>9, <2>11, <3>1
    <3>4. H'[Probe(y, d)'] = y /\ \A k \in 0 .. d - 1 : H'[Probe(y, k)'] # 0
      BY <2>9, <3>1, <3>2, <3>3
    <3>. QED BY <3>4 DEF linear_lookup
  <2>12. \A k \in 1 .. i : \A y \in Value : y = L[k] => linear_lookup(y)'
    <3> SUFFICES ASSUME NEW k \in 1 .. i, NEW y \in Value, y = L[k] PROVE linear_lookup(y)'
      OBVIOUS
    <3>1. CASE k = i
      BY <2>11, <3>1
    <3>2. CASE k # i
      <4>1. k \in 1 .. Taken
        BY <1>t, <2>1, <3>2 DEF Taken
      <4>2. linear_lookup(y)
        BY <1>0, <2>2, <4>1 DEF LinearInv
      <4>. QED BY <2>10, <4>2
    <3>. QED BY <3>1, <3>2
  <2>13. Taken' = i
    BY <1>t, <2>1 DEF Taken
  <2>14. \A k \in 1 .. i : L[k] \in Value
    BY <1>t, <2>1
  <2>15. LinearInv'
    <3>1. \A k \in 1 .. i : \E m \in Index :
             /\ H'[(H0'[L[k]] + m) % CM_HASH_SIZE] = L[k]
             /\ \A l \in 0 .. m - 1 : H'[(H0'[L[k]] + l) % CM_HASH_SIZE] # 0
      BY <2>12, <2>14 DEF linear_lookup, Probe
    <3>. QED BY <2>1, <2>2, <2>13, <3>1 DEF LinearInv, linear_lookup, Probe
  <2>. QED BY <2>1, <2>2, <2>8, <2>15 DEF PositionInv, CuckooInv
<1>5. ASSUME LinearHang PROVE PositionInv' /\ SoundInv' /\ CuckooInv' /\ LinearInv'
  <2>1. UNCHANGED <<H0, H1, L, H, i, fail>> /\ build = "linear" /\ build' = "hang" /\ Elements' = Elements
    BY <1>5 DEF LinearHang, hashes, Elements
  <2>2. fail /\ Taken' = Taken
    BY <1>0, <2>1 DEF CuckooInv, Taken
  <2>3. \A y : linear_lookup(y)' <=> linear_lookup(y)
    BY <2>1 DEF linear_lookup, Probe
  <2>. QED BY <1>0, <2>1, <2>2, <2>3 DEF PositionInv, SoundInv, CuckooInv, LinearInv
<1>6. ASSUME Built PROVE PositionInv' /\ SoundInv' /\ CuckooInv' /\ LinearInv'
  <2>1. /\ UNCHANGED <<H0, H1, L, H, i, fail>> /\ build \in {"next", "linear"} /\ build' = "done"
        /\ i = Len(L) + 1 /\ Elements' = Elements
    BY <1>6 DEF Built, hashes, Elements
  <2>2. Taken' = Taken
    BY <2>1 DEF Taken
  <2>3. \A y : linear_lookup(y)' <=> linear_lookup(y)
    BY <2>1 DEF linear_lookup, Probe
  <2>. QED BY <1>0, <2>1, <2>2, <2>3 DEF PositionInv, SoundInv, CuckooInv, LinearInv
<1>7. ASSUME UNCHANGED tableVars PROVE PositionInv' /\ SoundInv' /\ CuckooInv' /\ LinearInv'
  BY <1>0, <1>7 DEF tableVars, hashes, PositionInv, SoundInv, CuckooInv, LinearInv, Elements, Taken,
                    linear_lookup, Probe
<1>. QED BY <1>1, <1>2, <1>3, <1>4, <1>5, <1>6, <1>7 DEF TableStep, Return

(* Nothing has been taken from the list and the table is empty. *)
LEMMA InitTableInv == TableInit => TableInv
<1> SUFFICES ASSUME TableInit PROVE TableInv
  OBVIOUS
<1>1. L \in Seq(Value) /\ Len(L) \in Nat
  BY CuckooAssumption DEF TableInit
<1>2. TableTypeOK
  BY <1>1, CuckooAssumption, EmptyType DEF TableInit, TableTypeOK, Index
<1>3. \A k \in 1 .. Taken : FALSE
  BY DEF TableInit, Taken
<1>4. \A s \in Index : H[s] = 0
  BY EmptyType DEF TableInit
<1>. QED BY <1>2, <1>3, <1>4 DEF TableInit, TableInv, PositionInv, SoundInv, CuckooInv, LinearInv

(* Type correctness of the table and of the insertion in progress. *)
THEOREM TypeCorrect == TableSpec => []TableTypeOK
<1>1. TableInv => TableTypeOK
  BY DEF TableInv
<1>. QED BY <1>1, InitTableInv, StepTableInv, PTL DEF TableSpec

(* The table that cuckoo_build leaves answers membership in the slice exactly, *)
(* for words other than 0, be it a cuckoo table or the linear one.             *)
THEOREM LookupsExact == TableSpec => []LookupExact
<1>1. TableInv => LookupExact
  <2> SUFFICES ASSUME TableInv, build = "done", NEW y \in Value PROVE Found(y) <=> y \in Elements
    BY DEF LookupExact
  <2> USE CuckooAssumption
  <2>1. TableTypeOK /\ PositionInv /\ SoundInv /\ CuckooInv /\ LinearInv
    BY DEF TableInv
  <2>2. y # 0 /\ Taken = Len(L) /\ L \in Seq(Value) /\ Len(L) \in Nat
    BY <2>1, ListType DEF PositionInv, Taken
  <2>3. ASSUME Found(y) PROVE y \in Elements
    <3>1. CASE fail
      <4>1. PICK d \in Index : H[Probe(y, d)] = y
        BY <2>3, <3>1 DEF Found, linear_lookup
      <4>2. d \in Nat
        BY DEF Index
      <4>3. Probe(y, d) \in Index
        BY <2>1, <4>2, ProbeType
      <4>. QED BY <2>1, <2>2, <4>1, <4>3 DEF SoundInv
    <3>2. CASE ~fail
      <4>1. H0[y] \in Index /\ H1[y] \in Index
        BY <2>1 DEF TableTypeOK
      <4>. QED BY <2>1, <2>2, <2>3, <3>2, <4>1 DEF Found, cuckoo_lookup, SoundInv
    <3>. QED BY <3>1, <3>2
  <2>4. ASSUME y \in Elements PROVE Found(y)
    <3>1. PICK k \in 1 .. Len(L) : y = L[k]
      BY <2>2, <2>4 DEF Elements
    <3>2. CASE fail
      BY <2>1, <2>2, <3>1, <3>2 DEF LinearInv, Found
    <3>3. CASE ~fail
      BY <2>1, <2>2, <3>1, <3>3 DEF CuckooInv, Found, cuckoo_lookup
    <3>. QED BY <3>2, <3>3
  <2>. QED BY <2>3, <2>4
<1>. QED BY <1>1, InitTableInv, StepTableInv, PTL DEF TableSpec

(***************************************************************************)
(* Sequences that list a set                                               *)
(***************************************************************************)
\* s lists the values of the members of X, each once.
Enumerates(s, X, v) ==
    \E g \in [1 .. Len(s) -> X] :
        /\ \A q \in X : \E m \in 1 .. Len(s) : g[m] = q
        /\ \A m, k \in 1 .. Len(s) : g[m] = g[k] => m = k
        /\ \A m \in 1 .. Len(s) : s[m] = v[g[m]]

\* A set of numbers has a least one.
LEMMA Least ==
  ASSUME NEW X \in SUBSET Nat, X # {}
  PROVE  \E m \in X : \A k \in X : m <= k
<1> DEFINE Below == {ss \in Nat \X Nat : ss[1] < ss[2]}
<1>1. IsWellFoundedOn(Below, Nat)
  BY NatLessThanWellFounded DEF OpToRel
<1>2. \A w, y \in Nat : w < y => <<w, y>> \in Below
  OBVIOUS
<1> HIDE DEF Below
<1>3. PICK m \in X : \A k \in X : ~(<<k, m>> \in Below)
  BY <1>1, WFMin
<1>4. ASSUME NEW k \in X PROVE m <= k
  <2>1. k \in Nat /\ m \in Nat
    OBVIOUS
  <2>2. ~(k < m)
    BY <1>2, <1>3, <2>1
  <2> QED
    BY <2>1, <2>2
<1> QED
  BY <1>4

\* A function on 1 .. N is a sequence of length N.
LEMMA FunctionSeq ==
  ASSUME NEW T, NEW N \in Nat, NEW s \in [1 .. N -> T]
  PROVE  s \in Seq(T) /\ Len(s) = N
  OBVIOUS

\* The empty list enumerates the empty set.
LEMMA EnumNothing ==
  ASSUME NEW v
  PROVE  Enumerates(<<>>, {}, v)
<1>1. [m \in 1 .. Len(<<>>) |-> 0] \in [1 .. Len(<<>>) -> {}]
  OBVIOUS
<1> QED
  BY <1>1 DEF Enumerates

\* A list of one entry enumerates a set of one member.
LEMMA EnumOne ==
  ASSUME NEW q, NEW y, NEW v, v[q] = y
  PROVE  Enumerates(<<y>>, {q}, v)
<1> DEFINE g == [m \in 1 .. 1 |-> q]
<1>1. Len(<<y>>) = 1 /\ <<y>>[1] = y
  OBVIOUS
<1>2. g \in [1 .. Len(<<y>>) -> {q}]
  BY <1>1
<1>3. \A m \in 1 .. 1 : g[m] = q /\ m = 1
  OBVIOUS
<1> HIDE DEF g
<1> QED
  BY <1>1, <1>2, <1>3 DEF Enumerates

\* A list for the whole of two sets that have nothing in common.
LEMMA EnumConcat ==
  ASSUME NEW T, NEW s \in Seq(T), NEW r \in Seq(T), NEW X, NEW Y, NEW v,
         X \cap Y = {}, Enumerates(s, X, v), Enumerates(r, Y, v)
  PROVE  Enumerates(s \o r, X \cup Y, v)
<1>1. PICK g \in [1 .. Len(s) -> X] :
        /\ \A q \in X : \E m \in 1 .. Len(s) : g[m] = q
        /\ \A m, k \in 1 .. Len(s) : g[m] = g[k] => m = k
        /\ \A m \in 1 .. Len(s) : s[m] = v[g[m]]
  BY DEF Enumerates
<1>2. PICK hh \in [1 .. Len(r) -> Y] :
        /\ \A q \in Y : \E m \in 1 .. Len(r) : hh[m] = q
        /\ \A m, k \in 1 .. Len(r) : hh[m] = hh[k] => m = k
        /\ \A m \in 1 .. Len(r) : r[m] = v[hh[m]]
  BY DEF Enumerates
<1> DEFINE a == Len(s)
           b == Len(r)
           f == [m \in 1 .. a + b |-> IF m <= a THEN g[m] ELSE hh[m - a]]
<1>3. /\ a \in Nat /\ b \in Nat /\ Len(s \o r) = a + b
      /\ \A m \in 1 .. a + b : (s \o r)[m] = IF m <= a THEN s[m] ELSE r[m - a]
  BY ConcatProperties
<1> HIDE DEF a, b
<1>4. \A m \in 1 .. a + b : m <= a => m \in 1 .. a /\ f[m] = g[m] /\ f[m] \in X
  BY <1>3 DEF a
<1>5. \A m \in 1 .. a + b : ~(m <= a) => m - a \in 1 .. b /\ f[m] = hh[m - a] /\ f[m] \in Y
  BY <1>3 DEF b
<1>6. f \in [1 .. a + b -> X \cup Y]
  BY <1>4, <1>5
<1>7. ASSUME NEW q \in X \cup Y PROVE \E m \in 1 .. a + b : f[m] = q
  <2>1. CASE q \in X
    <3>1. PICK m \in 1 .. a : g[m] = q
      BY <1>1, <2>1 DEF a
    <3>2. m \in 1 .. a + b /\ m <= a
      BY <1>3
    <3> QED
      BY <1>4, <3>1, <3>2
  <2>2. CASE q \in Y
    <3>1. PICK m \in 1 .. b : hh[m] = q
      BY <1>2, <2>2 DEF b
    <3>2. m + a \in 1 .. a + b /\ ~(m + a <= a) /\ (m + a) - a = m
      BY <1>3
    <3> QED
      BY <1>5, <3>1, <3>2
  <2> QED
    BY <2>1, <2>2
<1>8. ASSUME NEW m \in 1 .. a + b, NEW k \in 1 .. a + b, f[m] = f[k] PROVE m = k
  <2>1. CASE m <= a /\ k <= a
    BY <1>1, <1>4, <1>8, <2>1 DEF a
  <2>2. CASE ~(m <= a) /\ ~(k <= a)
    <3>1. m - a = k - a
      BY <1>2, <1>5, <1>8, <2>2 DEF b
    <3> QED
      BY <1>3, <3>1
  <2>3. (m <= a) <=> (k <= a)
    BY <1>4, <1>5, <1>8
  <2> QED
    BY <2>1, <2>2, <2>3
<1>9. ASSUME NEW m \in 1 .. a + b PROVE (s \o r)[m] = v[f[m]]
  <2>1. CASE m <= a
    BY <1>1, <1>3, <1>4, <2>1 DEF a
  <2>2. CASE ~(m <= a)
    BY <1>2, <1>3, <1>5, <2>2 DEF b
  <2> QED
    BY <2>1, <2>2
<1> DEFINE z == s \o r
<1>10. Len(z) = a + b /\ \A m \in 1 .. a + b : z[m] = v[f[m]]
  BY <1>3, <1>9
<1> HIDE DEF f, z
<1>11. /\ f \in [1 .. Len(z) -> X \cup Y]
       /\ \A q \in X \cup Y : \E m \in 1 .. Len(z) : f[m] = q
       /\ \A m, k \in 1 .. Len(z) : f[m] = f[k] => m = k
       /\ \A m \in 1 .. Len(z) : z[m] = v[f[m]]
  BY <1>6, <1>7, <1>8, <1>10
<1>12. Enumerates(z, X \cup Y, v)
  BY <1>11 DEF Enumerates
<1> QED
  BY <1>12 DEF z

\* A list of another function that has the same values.
LEMMA EnumSame ==
  ASSUME NEW s, NEW X, NEW v, NEW w, Enumerates(s, X, v), \A q \in X : v[q] = w[q]
  PROVE  Enumerates(s, X, w)
  BY DEF Enumerates

\* A list is as long as the set is large.
LEMMA EnumLen ==
  ASSUME NEW T, NEW s \in Seq(T), NEW X, NEW v, Enumerates(s, X, v)
  PROVE  IsFiniteSet(X) /\ Cardinality(X) = Len(s)
<1>1. PICK g \in [1 .. Len(s) -> X] :
        /\ \A q \in X : \E m \in 1 .. Len(s) : g[m] = q
        /\ \A m, k \in 1 .. Len(s) : g[m] = g[k] => m = k
  BY DEF Enumerates
<1>2. IsFiniteSet(1 .. Len(s)) /\ Cardinality(1 .. Len(s)) = Len(s)
  BY FS_Interval
<1>3. g \in Bijection(1 .. Len(s), X)
  BY <1>1 DEF Bijection, Injection, Surjection, IsInjective
<1>4. ExistsBijection(1 .. Len(s), X)
  BY <1>3 DEF ExistsBijection
<1> QED
  BY <1>2, <1>4, FS_Bijection

\* The bag of a list.
LEMMA EnumBag ==
  ASSUME NEW T, NEW s \in Seq(T), NEW X, NEW v, Enumerates(s, X, v), IsFiniteSet(X),
         NEW f, DOMAIN f = X, \A q \in X : f[q] = v[q]
  PROVE  ToBag(s) = ToBag(f)
<1>1. PICK g \in [1 .. Len(s) -> X] :
        /\ \A q \in X : \E m \in 1 .. Len(s) : g[m] = q
        /\ \A m, k \in 1 .. Len(s) : g[m] = g[k] => m = k
        /\ \A m \in 1 .. Len(s) : s[m] = v[g[m]]
  BY DEF Enumerates
<1>2. DOMAIN s = 1 .. Len(s) /\ DOMAIN f = X /\ \A q \in X : f[q] = v[q]
  OBVIOUS
<1>3. Range(s) = Range(f)
  BY <1>1, <1>2 DEF Range
<1>4. ASSUME NEW w
      PROVE  Cardinality({m \in DOMAIN s : s[m] = w}) = Cardinality({q \in DOMAIN f : f[q] = w})
  <2> DEFINE A == {m \in DOMAIN s : s[m] = w}
             B == {q \in DOMAIN f : f[q] = w}
             b == [m \in A |-> g[m]]
  <2>1. IsFiniteSet(A)
    BY <1>2, FS_Interval, FS_Subset
  <2>2. \A m \in A : m \in 1 .. Len(s) /\ b[m] = g[m] /\ g[m] \in B
    BY <1>1, <1>2
  <2>3. \A q \in B : \E m \in A : b[m] = q
    BY <1>1, <1>2
  <2>4. b \in Bijection(A, B)
    BY <1>1, <2>2, <2>3 DEF Bijection, Injection, Surjection, IsInjective
  <2>5. ExistsBijection(A, B)
    BY <2>4 DEF ExistsBijection
  <2> QED
    BY <2>1, <2>5, FS_Bijection
<1> QED
  BY <1>3, <1>4 DEF ToBag

(***************************************************************************)
(* Flattening                                                              *)
(***************************************************************************)
\* The recursion of FlattenSeq, which has the solution it should.
Flattens(f, seqs, N) == f = [l \in 1 .. N |-> IF l = 1 THEN seqs[l] ELSE f[l - 1] \o seqs[l]]

\* It has one.
LEMMA SolutionExists ==
  ASSUME NEW T, NEW N \in Nat, N >= 1, NEW seqs, \A m \in 1 .. N : seqs[m] \in Seq(T)
  PROVE  \E f \in [1 .. N -> Seq(T)] : Flattens(f, seqs, N)
<1> DEFINE Good(m) == \E f \in [1 .. m -> Seq(T)] : Flattens(f, seqs, m)
           Bad == {m \in Nat : m \in 1 .. N /\ ~Good(m)}
<1>1. Good(1)
  <2> DEFINE f == [l \in 1 .. 1 |-> seqs[l]]
  <2>1. f \in [1 .. 1 -> Seq(T)]
    OBVIOUS
  <2>2. \A l \in 1 .. 1 : f[l] = IF l = 1 THEN seqs[l] ELSE f[l - 1] \o seqs[l]
    OBVIOUS
  <2> HIDE DEF f
  <2>3. f = [l \in 1 .. 1 |-> IF l = 1 THEN seqs[l] ELSE f[l - 1] \o seqs[l]]
    BY <2>1, <2>2
  <2> QED
    BY <2>1, <2>3 DEF Flattens
<1>2. ASSUME NEW m \in 2 .. N, Good(m - 1) PROVE Good(m)
  <2>0. m - 1 \in Nat /\ m - 1 \in 1 .. N /\ m \in 1 .. N /\ m \in Nat /\ m # 1
    OBVIOUS
  <2>1. PICK g \in [1 .. m - 1 -> Seq(T)] : Flattens(g, seqs, m - 1)
    BY <1>2
  <2>2. \A l \in 1 .. m - 1 : g[l] = IF l = 1 THEN seqs[l] ELSE g[l - 1] \o seqs[l]
    BY <2>1 DEF Flattens
  <2>3. g[m - 1] \o seqs[m] \in Seq(T)
    <3>1. g[m - 1] \in Seq(T) /\ seqs[m] \in Seq(T)
      BY <2>0
    <3> QED
      BY <3>1, ConcatProperties
  <2> DEFINE f == [l \in 1 .. m |-> IF l = m THEN g[m - 1] \o seqs[m] ELSE g[l]]
  <2>4. f \in [1 .. m -> Seq(T)]
    BY <2>0, <2>3
  <2>5. ASSUME NEW l \in 1 .. m PROVE f[l] = IF l = 1 THEN seqs[l] ELSE f[l - 1] \o seqs[l]
    <3>1. CASE l = m
      <4>1. f[m - 1] = g[m - 1] /\ f[m] = g[m - 1] \o seqs[m]
        <5>1. m - 1 # m /\ m - 1 \in 1 .. m /\ m \in 1 .. m
          BY <2>0
        <5>2. \A k \in 1 .. m : f[k] = IF k = m THEN g[m - 1] \o seqs[m] ELSE g[k]
          OBVIOUS
        <5> HIDE DEF f
        <5>3. f[m - 1] = IF m - 1 = m THEN g[m - 1] \o seqs[m] ELSE g[m - 1]
          BY <5>1, <5>2
        <5>4. f[m] = IF m = m THEN g[m - 1] \o seqs[m] ELSE g[m]
          BY <5>1, <5>2
        <5> QED
          BY <5>1, <5>3, <5>4
      <4> QED
        BY <2>0, <3>1, <4>1
    <3>2. CASE l # m
      <4>1. l \in 1 .. m - 1 /\ f[l] = g[l]
        BY <2>0, <3>2
      <4>2. l # 1 => l - 1 \in 1 .. m /\ l - 1 # m /\ f[l - 1] = g[l - 1]
        BY <2>0, <4>1
      <4> QED
        BY <2>2, <4>1, <4>2
    <3> QED
      BY <3>1, <3>2
  <2> HIDE DEF f
  <2>6. f = [l \in 1 .. m |-> IF l = 1 THEN seqs[l] ELSE f[l - 1] \o seqs[l]]
    BY <2>4, <2>5
  <2> QED
    BY <2>4, <2>6 DEF Flattens
<1> HIDE DEF Good
<1>3. Bad = {}
  <2> SUFFICES ASSUME Bad # {} PROVE FALSE
    OBVIOUS
  <2>1. PICK m \in Bad : \A k \in Bad : m <= k
    BY Least
  <2>2. m \in 2 .. N /\ m - 1 \in 1 .. N /\ m - 1 \in Nat /\ ~(m <= m - 1)
    BY <1>1, <2>1
  <2>3. Good(m - 1)
    BY <2>1, <2>2
  <2> QED
    BY <1>2, <2>1, <2>2, <2>3
<1>4. Good(N)
  BY <1>3
<1> QED
  BY <1>4 DEF Good

\* f holds the concatenations of the first of N sequences.
Partial(f, seqs, N) ==
    /\ f[1] = seqs[1]
    /\ \A l \in 2 .. N : f[l] = f[l - 1] \o seqs[l]
    /\ FlattenSeq(seqs) = f[N]

\* FlattenSeq is the last of the partial concatenations.
LEMMA FlattenIs ==
  ASSUME NEW T, NEW seqs \in Seq(Seq(T)), NEW N \in Nat \ {0}, N = Len(seqs)
  PROVE  \E f \in [1 .. N -> Seq(T)] : Partial(f, seqs, N)
<1> DEFINE F == CHOOSE f : Flattens(f, seqs, N)
<1>0. N \in Nat /\ N >= 1 /\ \A m \in 1 .. N : seqs[m] \in Seq(T)
  OBVIOUS
<1>1. FlattenSeq(seqs) = F[N]
  BY DEF FlattenSeq, Flattens
<1>2. Flattens(F, seqs, N)
  <2>1. \E f : Flattens(f, seqs, N)
    BY <1>0, SolutionExists
  <2> QED
    BY <2>1
<1> HIDE DEF F
<1>3. F = [l \in 1 .. N |-> IF l = 1 THEN seqs[l] ELSE F[l - 1] \o seqs[l]]
  BY <1>2 DEF Flattens
<1>4. F[1] = seqs[1] /\ \A l \in 2 .. N : F[l] = F[l - 1] \o seqs[l]
  <2>1. \A l \in 1 .. N : F[l] = IF l = 1 THEN seqs[l] ELSE F[l - 1] \o seqs[l]
    BY <1>3
  <2>2. 1 \in 1 .. N /\ \A l \in 2 .. N : l \in 1 .. N /\ l # 1
    BY <1>0
  <2>3. F[1] = seqs[1]
    BY <2>1, <2>2
  <2>4. ASSUME NEW l \in 2 .. N PROVE F[l] = F[l - 1] \o seqs[l]
    <3>1. l \in 1 .. N /\ l # 1
      BY <2>2
    <3> QED
      BY <2>1, <3>1
  <2> QED
    BY <2>3, <2>4
<1>5. \A l \in 1 .. N : F[l] \in Seq(T)
  <2> DEFINE X == {m \in Nat : m \in 1 .. N /\ F[m] \notin Seq(T)}
  <2>0. ASSUME X # {} PROVE FALSE
    <3>1. PICK m \in X : \A k \in X : m <= k
      BY <2>0, Least
    <3>2. m # 1 /\ m \in 2 .. N
      BY <1>0, <1>4, <3>1
    <3>3. m - 1 \in 1 .. N /\ m - 1 \in Nat /\ ~(m <= m - 1)
      BY <1>0, <3>1, <3>2
    <3>4. F[m - 1] \in Seq(T) /\ seqs[m] \in Seq(T)
      BY <1>0, <3>1, <3>3
    <3>5. F[m - 1] \o seqs[m] \in Seq(T)
      BY <3>4, ConcatProperties
    <3> QED
      BY <1>4, <3>1, <3>2, <3>5
  <2> HIDE DEF F
  <2>1. X = {}
    BY <2>0
  <2>2. \A l \in 1 .. N : l \in Nat
    BY <1>0
  <2> QED
    BY <2>1, <2>2
<1>6. F \in [1 .. N -> Seq(T)]
  BY <1>3, <1>5
<1> QED
  BY <1>1, <1>4, <1>6 DEF Partial

\* Lists of sets that have nothing in common make a list of them all.
LEMMA FlattenLists ==
  ASSUME NEW T, NEW seqs \in Seq(Seq(T)), NEW X, NEW v,
         NEW N \in Nat, N = Len(seqs),
         \A m, k \in 1 .. N : m # k => X[m] \cap X[k] = {},
         \A m \in 1 .. N : Enumerates(seqs[m], X[m], v),
         NEW Z, \A q : q \in Z <=> \E m \in 1 .. N : q \in X[m]
  PROVE  FlattenSeq(seqs) \in Seq(T) /\ Enumerates(FlattenSeq(seqs), Z, v)
<1> DEFINE Upto(l) == UNION {X[m] : m \in 1 .. l}
<1>0. N \in Nat /\ \A m \in 1 .. N : seqs[m] \in Seq(T)
  OBVIOUS
<1>z. Upto(N) = Z
  OBVIOUS
<1>f. ASSUME N # 0
      PROVE  \E f \in [1 .. N -> Seq(T)] : Partial(f, seqs, N)
  <2>1. N \in Nat \ {0} /\ N = Len(seqs) /\ seqs \in Seq(Seq(T))
    BY <1>f
  <2> QED
    BY <2>1, FlattenIs
<1>1. CASE N = 0
  <2>1. FlattenSeq(seqs) = seqs
    BY <1>1 DEF FlattenSeq
  <2>2. seqs = <<>>
    BY <1>1, EmptySeq
  <2>3. Upto(N) = {}
    <3>1. 1 .. N = {}
      BY <1>1
    <3> QED
      BY <3>1
  <2>4. <<>> \in Seq(T)
    OBVIOUS
  <2> HIDE DEF Upto
  <2>5. FlattenSeq(seqs) \in Seq(T) /\ Enumerates(FlattenSeq(seqs), Upto(N), v)
    <3>1. Enumerates(<<>>, {}, v)
      BY EnumNothing
    <3>2. FlattenSeq(seqs) = <<>>
      BY <2>1, <2>2
    <3> QED
      BY <2>3, <2>4, <3>1, <3>2, Zenon
  <2> QED
    BY <1>z, <2>5
<1>2. CASE N # 0
  <2>1. PICK f \in [1 .. N -> Seq(T)] :
          /\ f[1] = seqs[1]
          /\ \A l \in 2 .. N : f[l] = f[l - 1] \o seqs[l]
          /\ FlattenSeq(seqs) = f[N]
    BY <1>2, <1>f DEF Partial
  <2> DEFINE Good(l) == Enumerates(f[l], Upto(l), v)
             Bad == {m \in Nat : m \in 1 .. N /\ ~Good(m)}
  <2>2. Good(1)
    <3>1. Upto(1) = X[1]
      <4>1. 1 .. 1 = {1}
        OBVIOUS
      <4> QED
        BY <4>1
    <3>2. 1 \in 1 .. N
      BY <1>0, <1>2
    <3>3. Enumerates(f[1], X[1], v)
      BY <2>1, <3>2
    <3> HIDE DEF Upto
    <3> QED
      BY <3>1, <3>3
  <2>3. ASSUME NEW m \in 2 .. N, Good(m - 1) PROVE Good(m)
    <3>1. m - 1 \in 1 .. N /\ m \in 1 .. N /\ \A k \in 1 .. m - 1 : k # m /\ k \in 1 .. N
      BY <1>0
    <3>2. Upto(m - 1) \cap X[m] = {}
      <4>1. \A k \in 1 .. m - 1 : X[k] \cap X[m] = {}
        BY <3>1
      <4> QED
        BY <4>1
    <3>3. Upto(m) = Upto(m - 1) \cup X[m]
      <4>1. 1 .. m = 1 .. m - 1 \cup {m}
        BY <3>1
      <4> QED
        BY <4>1
    <3>4. f[m - 1] \in Seq(T) /\ seqs[m] \in Seq(T) /\ Enumerates(seqs[m], X[m], v)
      BY <1>0, <3>1
    <3> HIDE DEF Upto
    <3>5. Enumerates(f[m - 1], Upto(m - 1), v)
      BY <2>3
    <3>6. Enumerates(f[m - 1] \o seqs[m], Upto(m - 1) \cup X[m], v)
      BY <3>2, <3>4, <3>5, EnumConcat
    <3> QED
      BY <2>1, <3>3, <3>6
  <2> HIDE DEF Good
  <2>4. Bad = {}
    <3> SUFFICES ASSUME Bad # {} PROVE FALSE
      OBVIOUS
    <3>1. PICK m \in Bad : \A k \in Bad : m <= k
      BY Least
    <3>2. m \in 2 .. N /\ m - 1 \in 1 .. N /\ m - 1 \in Nat /\ ~(m <= m - 1)
      BY <1>0, <2>2, <3>1
    <3>3. Good(m - 1)
      BY <3>1, <3>2
    <3> QED
      BY <2>3, <3>1, <3>2, <3>3
  <2>5. N \in 1 .. N /\ Good(N)
    BY <1>0, <1>2, <2>4
  <2>6. FlattenSeq(seqs) \in Seq(T) /\ Enumerates(FlattenSeq(seqs), Upto(N), v)
    BY <2>1, <2>5 DEF Good
  <2> HIDE DEF Upto
  <2> QED
    BY <1>z, <2>6
<1> QED
  BY <1>1, <1>2

\* Those values of a list that are members of K.
LEMMA FilterLists ==
  ASSUME NEW T, NEW s \in Seq(T), NEW X, NEW v, Enumerates(s, X, v), NEW K,
         NEW seqs \in [1 .. Len(s) -> Seq(T)],
         \A m \in 1 .. Len(s) : seqs[m] = IF s[m] \in K THEN <<s[m]>> ELSE <<>>,
         NEW Z, \A q : q \in Z <=> q \in X /\ v[q] \in K
  PROVE  FlattenSeq(seqs) \in Seq(T) /\ Enumerates(FlattenSeq(seqs), Z, v)
<1>1. PICK g \in [1 .. Len(s) -> X] :
        /\ \A q \in X : \E m \in 1 .. Len(s) : g[m] = q
        /\ \A m, k \in 1 .. Len(s) : g[m] = g[k] => m = k
        /\ \A m \in 1 .. Len(s) : s[m] = v[g[m]]
  BY DEF Enumerates
<1>n. PICK N \in Nat : N = Len(s)
  OBVIOUS
<1> DEFINE Y == [m \in 1 .. N |-> IF s[m] \in K THEN {g[m]} ELSE {}]
<1>2. /\ N \in Nat /\ DOMAIN s = 1 .. N /\ \A m \in 1 .. N : s[m] \in T
      /\ seqs \in [1 .. N -> Seq(T)] /\ \A m \in 1 .. N : seqs[m] = IF s[m] \in K THEN <<s[m]>> ELSE <<>>
  BY <1>n
<1>4. seqs \in Seq(Seq(T)) /\ Len(seqs) = N
  BY <1>2, FunctionSeq
<1>5. \A m, k \in 1 .. N : m # k => Y[m] \cap Y[k] = {}
  BY <1>1, <1>n
<1>6. ASSUME NEW m \in 1 .. N PROVE Enumerates(seqs[m], Y[m], v)
  <2>1. CASE s[m] \in K
    <3>1. seqs[m] = <<s[m]>> /\ Y[m] = {g[m]} /\ v[g[m]] = s[m]
      BY <1>1, <1>2, <1>n, <2>1
    <3>2. Enumerates(<<s[m]>>, {g[m]}, v)
      BY <3>1, EnumOne
    <3> HIDE DEF Y
    <3> QED
      BY <3>1, <3>2
  <2>2. CASE s[m] \notin K
    <3>1. seqs[m] = <<>> /\ Y[m] = {}
      BY <1>2, <2>2
    <3> HIDE DEF Y
    <3> QED
      BY <3>1, EnumNothing
  <2> QED
    BY <2>1, <2>2
<1>7. \A q : q \in Z <=> \E m \in 1 .. N : q \in Y[m]
  <2>1. ASSUME NEW q \in X, v[q] \in K PROVE \E m \in 1 .. N : q \in Y[m]
    <3>1. PICK m \in 1 .. N : g[m] = q
      BY <1>1, <1>n
    <3>2. s[m] \in K
      BY <1>1, <1>n, <2>1, <3>1
    <3>3. q \in Y[m]
      BY <1>n, <3>1, <3>2
    <3> QED
      BY <3>3
  <2>2. ASSUME NEW m \in 1 .. N, NEW q \in Y[m] PROVE q \in X /\ v[q] \in K
    <3>1. s[m] \in K /\ q = g[m]
      BY <1>n, <2>2
    <3> QED
      BY <1>1, <1>n, <3>1
  <2> HIDE DEF Y
  <2> QED
    BY <2>1, <2>2
<1> HIDE DEF Y
<1> QED
  BY <1>2, <1>4, <1>5, <1>6, <1>7, FlattenLists

\* A list whose entries stand for something else.
LEMMA RenameLists ==
  ASSUME NEW s, NEW X, NEW v, Enumerates(s, X, v),
         NEW r, NEW Y, NEW w, Len(r) = Len(s),
         NEW f \in [X -> Y], \A y \in Y : \E q \in X : f[q] = y,
         \A q, u \in X : f[q] = f[u] => q = u,
         \A m \in 1 .. Len(s) : \A q \in X : s[m] = v[q] => r[m] = w[f[q]]
  PROVE  Enumerates(r, Y, w)
<1>1. PICK g \in [1 .. Len(s) -> X] :
        /\ \A q \in X : \E m \in 1 .. Len(s) : g[m] = q
        /\ \A m, k \in 1 .. Len(s) : g[m] = g[k] => m = k
        /\ \A m \in 1 .. Len(s) : s[m] = v[g[m]]
  BY DEF Enumerates
<1> DEFINE hh == [m \in 1 .. Len(s) |-> f[g[m]]]
<1>2. hh \in [1 .. Len(r) -> Y] /\ \A m \in 1 .. Len(r) : hh[m] = f[g[m]] /\ g[m] \in X
  OBVIOUS
<1> HIDE DEF hh
<1>3. ASSUME NEW y \in Y PROVE \E m \in 1 .. Len(r) : hh[m] = y
  <2>1. PICK q \in X : f[q] = y
    OBVIOUS
  <2>2. PICK m \in 1 .. Len(s) : g[m] = q
    BY <1>1
  <2> QED
    BY <1>2, <2>1, <2>2
<1>4. \A m, k \in 1 .. Len(r) : hh[m] = hh[k] => m = k
  BY <1>1, <1>2
<1>5. \A m \in 1 .. Len(r) : r[m] = w[hh[m]]
  BY <1>1, <1>2
<1> QED
  BY <1>2, <1>3, <1>4, <1>5 DEF Enumerates

(***************************************************************************)
(* Shares and buckets                                                      *)
(***************************************************************************)
\* The least of two numbers.
LEMMA MinOfTwo ==
  ASSUME NEW a \in Int, NEW b \in Int
  PROVE  Min({a, b}) = IF a <= b THEN a ELSE b
<1> DEFINE m == IF a <= b THEN a ELSE b
<1>1. m \in {a, b} /\ \A y \in {a, b} : m <= y
  OBVIOUS
<1>2. \A w \in {a, b} : (\A y \in {a, b} : w <= y) => w = m
  OBVIOUS
<1> HIDE DEF m
<1>3. Min({a, b}) = m
  BY <1>1, <1>2 DEF Min
<1> QED
  BY <1>3 DEF m

\* The sizes are numbers.
LEMMA Sizes ==
  /\ T_part \in Nat \ {0} /\ T_subj \in Nat \ {0}
  /\ W \in Nat \ {0} /\ p \in Nat
  BY JouxAssumption

\* The shares of the threads follow each other and cover the m iterations.
LEMMA Shares ==
  ASSUME NEW m \in Nat
  PROVE  /\ ShareStart(m, 0) = 0 /\ ShareStart(m, T_part) = m
         /\ \A a \in 0 .. T_part : ShareStart(m, a) \in Nat
         /\ \A a, b \in 0 .. T_part : a <= b => ShareStart(m, a) <= ShareStart(m, b)
<1> DEFINE q == m \div T_part
           r == m % T_part
<1>1. q \in Nat /\ r \in 0 .. T_part - 1 /\ m = T_part * q + r
  BY Sizes
<1> HIDE DEF q, r
<1>2. \A a \in 0 .. T_part : ShareStart(m, a) = a * q + IF a <= r THEN a ELSE r
  BY <1>1, MinOfTwo, Sizes DEF ShareStart, q, r
<1>3. ShareStart(m, 0) = 0 /\ ShareStart(m, T_part) = m
  BY <1>1, <1>2, Sizes
<1>4. \A a \in 0 .. T_part : a * q \in Nat
  BY <1>1
<1>5. \A a \in 0 .. T_part : ShareStart(m, a) \in Nat
  BY <1>1, <1>2, <1>4
<1>6. ASSUME NEW a \in 0 .. T_part, NEW b \in 0 .. T_part, a <= b
      PROVE  ShareStart(m, a) <= ShareStart(m, b)
  <2>1. a * q <= b * q
    <3>1. b - a \in Nat /\ (b - a) * q \in Nat
      BY <1>1, <1>6
    <3>2. b * q = a * q + (b - a) * q
      BY <1>1, Sizes
    <3> QED
      BY <1>4, <3>1, <3>2
  <2> QED
    BY <1>1, <1>2, <1>4, <1>6, <2>1
<1> QED
  BY <1>3, <1>5, <1>6

\* Every iteration is one of exactly one thread.
LEMMA ShareOfOne ==
  ASSUME NEW m \in Nat
  PROVE  /\ \A t \in Parter : \A e \in ShareStart(m, t) + 1 .. ShareStart(m, t + 1) : e \in 1 .. m
         /\ \A e \in 1 .. m : \E t \in Parter : e \in ShareStart(m, t) + 1 .. ShareStart(m, t + 1)
         /\ \A t, u \in Parter : \A e \in ShareStart(m, t) + 1 .. ShareStart(m, t + 1) :
               e \in ShareStart(m, u) + 1 .. ShareStart(m, u + 1) => t = u
<1> DEFINE S(a) == ShareStart(m, a)
<1>1. /\ S(0) = 0 /\ S(T_part) = m
      /\ \A a \in 0 .. T_part : S(a) \in Nat
      /\ \A a, b \in 0 .. T_part : a <= b => S(a) <= S(b)
  BY Shares
<1> HIDE DEF S
<1>2. \A t \in Parter : t \in 0 .. T_part /\ t + 1 \in 0 .. T_part /\ 0 <= t /\ t + 1 <= T_part
  BY Sizes DEF Parter
<1>0. 0 \in 0 .. T_part /\ T_part \in 0 .. T_part
  BY Sizes
<1>3. ASSUME NEW t \in Parter, NEW e \in S(t) + 1 .. S(t + 1) PROVE e \in 1 .. m
  <2>1. S(0) <= S(t) /\ S(t + 1) <= S(T_part) /\ S(t) \in Nat /\ S(t + 1) \in Nat
    BY <1>0, <1>1, <1>2
  <2> QED
    BY <1>1, <2>1
<1>4. ASSUME NEW e \in 1 .. m PROVE \E t \in Parter : e \in S(t) + 1 .. S(t + 1)
  <2> DEFINE X == {a \in 0 .. T_part : e <= S(a)}
  <2>1. X \in SUBSET Nat /\ X # {}
    BY <1>0, <1>1, Sizes
  <2>2. PICK a \in X : \A k \in X : a <= k
    BY <2>1, Least
  <2>3. a # 0 /\ a \in 0 .. T_part
    BY <1>1, <2>2
  <2>4. a - 1 \in Parter /\ a - 1 \in 0 .. T_part /\ ~(a <= a - 1)
    BY <2>3, Sizes DEF Parter
  <2>5. ~(e <= S(a - 1))
    BY <2>2, <2>4
  <2>6. (a - 1) + 1 = a
    BY <2>3
  <2>7. e \in S(a - 1) + 1 .. S((a - 1) + 1)
    BY <1>1, <2>2, <2>3, <2>4, <2>5, <2>6
  <2> QED
    BY <2>4, <2>7
<1>5. ASSUME NEW t \in Parter, NEW u \in Parter, NEW e \in S(t) + 1 .. S(t + 1),
             e \in S(u) + 1 .. S(u + 1), t < u
      PROVE  FALSE
  <2>1. t + 1 <= u /\ S(t + 1) \in Nat /\ S(u) \in Nat
    BY <1>1, <1>2, <1>5, Sizes DEF Parter
  <2>2. S(t + 1) <= S(u)
    BY <1>1, <1>2, <2>1
  <2> QED
    BY <1>5, <2>1, <2>2
<1>6. \A t, u \in Parter : \A e \in S(t) + 1 .. S(t + 1) : e \in S(u) + 1 .. S(u + 1) => t = u
  <2> SUFFICES ASSUME NEW t \in Parter, NEW u \in Parter, NEW e \in S(t) + 1 .. S(t + 1),
                      e \in S(u) + 1 .. S(u + 1)
               PROVE  t = u
    OBVIOUS
  <2>1. ~(t < u)
    BY <1>5
  <2>2. ~(u < t)
    <3>1. e \in S(u) + 1 .. S(u + 1) /\ e \in S(t) + 1 .. S(t + 1)
      OBVIOUS
    <3> QED
      BY <1>5, <3>1
  <2> QED
    BY <2>1, <2>2 DEF Parter
<1> QED
  BY <1>3, <1>4, <1>6 DEF S

\* Places of intervals of length s that are apart.
LEMMA Apart ==
  ASSUME NEW s \in Nat, NEW a \in Nat, NEW b \in Nat, NEW c \in 0 .. s - 1, NEW d \in 0 .. s - 1,
         s * a + c = s * b + d
  PROVE  a = b /\ c = d
<1>1. ASSUME NEW w \in Nat, NEW y \in Nat, w < y, NEW e \in 0 .. s - 1, NEW f \in 0 .. s - 1
      PROVE  s * w + e # s * y + f
  <2>1. y - w - 1 \in Nat /\ s * (y - w - 1) \in Nat
    BY <1>1
  <2>2. s * y = s * w + s + s * (y - w - 1)
    OBVIOUS
  <2>3. s * w \in Nat /\ s * y \in Nat
    OBVIOUS
  <2> QED
    BY <2>1, <2>2, <2>3
<1>2. ~(a < b)
  BY <1>1
<1>3. ~(b < a)
  BY <1>1
<1>4. a = b
  BY <1>2, <1>3
<1> QED
  BY <1>4

\* No two buckets share an entry of the scratch space, and all are within it.
LEMMA Places ==
  ASSUME fan_out \in Nat \ {0}, NEW k \in Side, tsize[k] \in Nat,
         NEW t \in Parter, NEW part \in Partition, NEW c \in 0 .. tsize[k] - 1
  PROVE  /\ BucketStart(k, t, part) \in Nat
         /\ BucketStart(k, t, part) + c \in 0 .. ScratchSize(k) - 1
         /\ \A u \in Parter, l \in Partition, d \in 0 .. tsize[k] - 1 :
               BucketStart(k, t, part) + c = BucketStart(k, u, l) + d => t = u /\ part = l /\ c = d
<1> DEFINE s == tsize[k]
<1>1. \A u \in Parter, l \in Partition :
         /\ u \in 0 .. T_part - 1 /\ l \in 0 .. fan_out - 1 /\ T_part * l \in Nat
         /\ T_part * l + u \in Nat
         /\ BucketStart(k, u, l) = s * (T_part * l + u)
         /\ s * (T_part * l + u) \in Nat
  BY Sizes DEF Parter, Partition, BucketStart, psize
<1>2. ScratchSize(k) = s * (T_part * fan_out)
  BY Sizes DEF ScratchSize, psize
<1> HIDE DEF s
<1>3. BucketStart(k, t, part) + c < ScratchSize(k)
  <2> DEFINE a == T_part * part + t
             b == T_part * fan_out
  <2>1. a + 1 <= b /\ a \in Nat /\ b \in Nat
    <3>1. fan_out - 1 - part \in Nat /\ T_part * (fan_out - 1 - part) \in Nat
      BY <1>1, Sizes
    <3>2. T_part * fan_out = T_part * part + T_part + T_part * (fan_out - 1 - part)
      BY <1>1, Sizes
    <3> QED
      BY <1>1, <3>1, <3>2, Sizes
  <2> HIDE DEF a, b
  <2>2. s \in Nat /\ c \in 0 .. s - 1
    BY DEF s
  <2>3. s * a + c < s * b
    <3>1. b - a - 1 \in Nat /\ s * (b - a - 1) \in Nat
      BY <2>1, <2>2
    <3>2. s * b = s * a + s + s * (b - a - 1)
      BY <2>1, <2>2
    <3>3. s * a \in Nat /\ s * b \in Nat
      BY <2>1, <2>2
    <3> QED
      BY <2>2, <3>1, <3>2, <3>3
  <2> QED
    BY <1>1, <1>2, <2>3 DEF a, b
<1>4. ASSUME NEW u \in Parter, NEW l \in Partition, NEW d \in 0 .. tsize[k] - 1,
             BucketStart(k, t, part) + c = BucketStart(k, u, l) + d
      PROVE  t = u /\ part = l /\ c = d
  <2>1. T_part * part + t = T_part * l + u /\ c = d
    <3>1. s \in Nat /\ c \in 0 .. s - 1 /\ d \in 0 .. s - 1
      BY DEF s
    <3>2. T_part * part + t \in Nat /\ T_part * l + u \in Nat
      BY <1>1
    <3>3. s * (T_part * part + t) + c = s * (T_part * l + u) + d
      BY <1>1, <1>4
    <3> QED
      BY <3>1, <3>2, <3>3, Apart
  <2>2. part \in Nat /\ l \in Nat /\ t \in 0 .. T_part - 1 /\ u \in 0 .. T_part - 1
    BY <1>1 
  <2> QED
    BY <2>1, <2>2, Apart, Sizes
<1>5. BucketStart(k, t, part) \in Nat /\ ScratchSize(k) \in Int
  BY <1>1, <1>2, Sizes DEF s
<1> QED
  BY <1>3, <1>4, <1>5

\* A list has the type of the values it enumerates.
LEMMA EnumType ==
  ASSUME NEW T, NEW s \in Seq(T), NEW X, NEW v, Enumerates(s, X, v), NEW U, \A q \in X : v[q] \in U
  PROVE  s \in Seq(U)
<1>1. \A m \in 1 .. Len(s) : s[m] \in U
  BY DEF Enumerates
<1>2. s = [m \in 1 .. Len(s) |-> s[m]] /\ Len(s) \in Nat
  OBVIOUS
<1> QED
  BY <1>1, <1>2, IsASeq

\* The recursions of TwoTo and TopValue, up to any number.
PowerBy(g, m) == IF m = 0 THEN 1 ELSE 2 * g[m - 1]
ValueBy(w, top, g, m) == IF m = 0 THEN 0 ELSE 2 * g[m - 1] + (IF top - m \in w THEN 1 ELSE 0)
IsPower(k, g) == g = [m \in 0 .. k |-> PowerBy(g, m)]
IsValue(w, top, k, g) == g = [m \in 0 .. k |-> ValueBy(w, top, g, m)]

LEMMA PowerExists == \A k \in Nat : \E g : IsPower(k, g)
<1> DEFINE X == {k \in Nat : ~ \E g : IsPower(k, g)}
<1> SUFFICES ASSUME X # {} PROVE FALSE
  OBVIOUS
<1>1. PICK k \in X : \A l \in X : k <= l
  <2>1. X \in SUBSET Nat
    OBVIOUS
  <2> HIDE DEF X
  <2> QED
    BY <2>1, Least
<1>2. CASE k = 0
  <2>1. IsPower(0, [m \in 0 .. 0 |-> 1])
    BY DEF IsPower, PowerBy
  <2> QED
    BY <1>1, <1>2, <2>1
<1>3. CASE k # 0
  <2>1. k - 1 \in Nat /\ ~(k <= k - 1)
    BY <1>1, <1>3
  <2>2. PICK g : IsPower(k - 1, g)
    BY <1>1, <2>1
  <2> DEFINE f == [m \in 0 .. k |-> PowerBy(g, m)]
  <2>3. ASSUME NEW m \in 0 .. k PROVE PowerBy(f, m) = PowerBy(g, m)
    <3>1. ASSUME m # 0 PROVE f[m - 1] = g[m - 1]
      <4>1. m - 1 \in 0 .. k - 1 /\ m - 1 \in 0 .. k
        BY <3>1
      <4> QED
        BY <2>2, <4>1 DEF IsPower
    <3> HIDE DEF f
    <3> QED
      BY <3>1 DEF PowerBy
  <2>4. IsPower(k, f)
    BY <2>3 DEF IsPower
  <2> QED
    BY <1>1, <2>4
<1> QED
  BY <1>2, <1>3

LEMMA ValueExists == \A w, top : \A k \in Nat : \E g : IsValue(w, top, k, g)
<1> SUFFICES ASSUME NEW w, NEW top PROVE \A k \in Nat : \E g : IsValue(w, top, k, g)
  OBVIOUS
<1> DEFINE X == {k \in Nat : ~ \E g : IsValue(w, top, k, g)}
<1> SUFFICES ASSUME X # {} PROVE FALSE
  OBVIOUS
<1>1. PICK k \in X : \A l \in X : k <= l
  <2>1. X \in SUBSET Nat
    OBVIOUS
  <2> HIDE DEF X
  <2> QED
    BY <2>1, Least
<1>2. CASE k = 0
  <2>1. IsValue(w, top, 0, [m \in 0 .. 0 |-> 0])
    BY DEF IsValue, ValueBy
  <2> QED
    BY <1>1, <1>2, <2>1
<1>3. CASE k # 0
  <2>1. k - 1 \in Nat /\ ~(k <= k - 1)
    BY <1>1, <1>3
  <2>2. PICK g : IsValue(w, top, k - 1, g)
    BY <1>1, <2>1
  <2> DEFINE f == [m \in 0 .. k |-> ValueBy(w, top, g, m)]
  <2>3. ASSUME NEW m \in 0 .. k PROVE ValueBy(w, top, f, m) = ValueBy(w, top, g, m)
    <3>1. ASSUME m # 0 PROVE f[m - 1] = g[m - 1]
      <4>1. m - 1 \in 0 .. k - 1 /\ m - 1 \in 0 .. k
        BY <3>1
      <4> QED
        BY <2>2, <4>1 DEF IsValue
    <3> HIDE DEF f
    <3> QED
      BY <3>1 DEF ValueBy
  <2>4. IsValue(w, top, k, f)
    BY <2>3 DEF IsValue
  <2> QED
    BY <1>1, <2>4
<1> QED
  BY <1>2, <1>3

LEMMA TwoToIs ==
  ASSUME NEW k \in Nat
  PROVE  \E g : IsPower(k, g) /\ TwoTo(k) = g[k]
<1> DEFINE g == CHOOSE f : IsPower(k, f)
<1>1. IsPower(k, g)
  BY PowerExists, Zenon
<1>2. TwoTo(k) = g[k]
  BY DEF TwoTo, IsPower, PowerBy
<1> QED
  BY <1>1, <1>2

LEMMA NumberIs ==
  ASSUME NEW w, NEW top, NEW k \in Nat
  PROVE  \E g : IsValue(w, top, k, g) /\ NumberOf(w, top, k) = g[k]
<1> DEFINE g == CHOOSE f : IsValue(w, top, k, f)
<1>1. IsValue(w, top, k, g)
  BY ValueExists, Zenon
<1>2. NumberOf(w, top, k) = g[k]
  BY DEF NumberOf, IsValue, ValueBy
<1> QED
  BY <1>1, <1>2

\* k bits of a word spell one of 1 << k numbers.
LEMMA ValuesBelow ==
  ASSUME NEW w, NEW top, NEW k \in Nat, NEW g, NEW f, IsPower(k, g), IsValue(w, top, k, f)
  PROVE  \A m \in 0 .. k : g[m] \in Nat \ {0} /\ f[m] \in 0 .. g[m] - 1
<1> DEFINE X == {m \in 0 .. k : ~(g[m] \in Nat \ {0} /\ f[m] \in 0 .. g[m] - 1)}
<1>3. X = {}
  <2> SUFFICES ASSUME X # {} PROVE FALSE
    OBVIOUS
  <2>1. PICK m \in X : \A l \in X : m <= l
    <3>1. X \in SUBSET Nat
      OBVIOUS
    <3> HIDE DEF X
    <3> QED
      BY <3>1, Least
  <2>2. g[m] = PowerBy(g, m) /\ f[m] = ValueBy(w, top, f, m)
    BY <2>1 DEF IsPower, IsValue
  <2>3. CASE m = 0
    BY <2>1, <2>2, <2>3 DEF PowerBy, ValueBy
  <2>4. CASE m # 0
    <3>1. m - 1 \in 0 .. k /\ ~(m <= m - 1)
      BY <2>1, <2>4
    <3>2. g[m - 1] \in Nat \ {0} /\ f[m - 1] \in 0 .. g[m - 1] - 1
      BY <2>1, <3>1
    <3>3. PICK b \in 0 .. 1 : b = IF top - m \in w THEN 1 ELSE 0
      OBVIOUS
    <3>4. g[m] = 2 * g[m - 1] /\ f[m] = 2 * f[m - 1] + b
      BY <2>2, <2>4, <3>3 DEF PowerBy, ValueBy
    <3>5. PICK a \in Nat \ {0}, c \in Nat : a = g[m - 1] /\ c = f[m - 1] /\ c <= a - 1
      BY <3>2
    <3>6. 2 * a \in Nat \ {0} /\ 2 * c + b \in 0 .. 2 * a - 1
      BY <3>5
    <3> QED
      BY <2>1, <3>4, <3>5, <3>6
  <2> QED
    BY <2>3, <2>4
<1> QED
  BY <1>3

LEMMA ValueBelow ==
  ASSUME NEW w, NEW top, NEW k \in Nat
  PROVE  TwoTo(k) \in Nat \ {0} /\ NumberOf(w, top, k) \in 0 .. TwoTo(k) - 1
<1>1. PICK g : IsPower(k, g) /\ TwoTo(k) = g[k]
  BY TwoToIs
<1>2. PICK f : IsValue(w, top, k, f) /\ NumberOf(w, top, k) = f[k]
  BY NumberIs
<1>3. k \in 0 .. k
  OBVIOUS
<1> QED
  BY <1>1, <1>2, <1>3, ValuesBelow

\* The leading p bits of a word are the number of a partition.
LEMMA WordsHavePartitions == fan_out \in Nat \ {0} /\ \A w \in Word : TopValue(w, p) \in Partition
  BY JouxAssumption, ValueBelow DEF fan_out, Partition, TopValue

\* The trees that two words agree in are cut at the same place.
LEMMA SamePartition ==
  ASSUME NEW w \in Word, NEW y \in Word, NEW l \in Int, l >= p, Top(w, l) = Top(y, l)
  PROVE  TopValue(w, p) = TopValue(y, p)
<1>1. p \in Nat
  BY JouxAssumption
<1>2. PICK f : IsValue(w, W, p, f) /\ TopValue(w, p) = f[p]
  BY <1>1, NumberIs DEF TopValue
<1>3. PICK g : IsValue(y, W, p, g) /\ TopValue(y, p) = g[p]
  BY <1>1, NumberIs DEF TopValue
<1> DEFINE X == {m \in 0 .. p : f[m] # g[m]}
<1>4. X = {}
  <2> SUFFICES ASSUME X # {} PROVE FALSE
    OBVIOUS
  <2>1. PICK m \in X : \A k \in X : m <= k
    <3>1. X \in SUBSET Nat
      BY <1>1
    <3> HIDE DEF X
    <3> QED
      BY <3>1, Least
  <2>2. f[m] = ValueBy(w, W, f, m) /\ g[m] = ValueBy(y, W, g, m)
    BY <1>2, <1>3, <2>1 DEF IsValue
  <2>3. m # 0
    BY <2>1, <2>2 DEF ValueBy
  <2>4. f[m - 1] = g[m - 1]
    <3>1. m - 1 \in 0 .. p /\ ~(m <= m - 1)
      BY <1>1, <2>1, <2>3
    <3> QED
      BY <2>1, <3>1
  <2>5. W - m \in w <=> W - m \in y
    <3>1. W - m \in Int /\ W - m >= W - l
      BY <1>1, <2>1, Sizes
    <3>2. \A z : W - m \in Top(z, l) <=> W - m \in z
      BY <3>1 DEF Top
    <3> QED
      BY <3>2
  <2> QED
    BY <2>1, <2>2, <2>3, <2>4, <2>5 DEF ValueBy
<1>5. p \in 0 .. p
  BY <1>1
<1> QED
  BY <1>2, <1>3, <1>4, <1>5

\* The positions of side k whose words are in partition part; of these, those of
\* the share of thread t; and what is in the bucket of t for that partition.
InPartition(k, part) == {e \in 1 .. n(k) : TopValue(Image(slice, k, e), p) = part}
Share(k, t, part) ==
    {e \in ShareStart(n(k), t) + 1 .. ShareStart(n(k), t + 1) : TopValue(Image(slice, k, e), p) = part}
Bucket(k, t, part) ==
    [e \in 1 .. count[k][t][part] - BucketStart(k, t, part) |-> scratch[k][BucketStart(k, t, part) + e - 1]]

\* Partition part is in the buckets of the threads.
BucketsHold(part) ==
    \A k \in Side, t \in Parter :
        /\ Bucket(k, t, part) \in Seq(Word \cup {Garbage})
        /\ Enumerates(Bucket(k, t, part), Share(k, t, part), LM[k])

\* The lists are multiplied by the slice's matrix.
Multiplied == \A k \in Side : n(k) \in Nat /\ \A e \in 1 .. n(k) : LM[k][e] = Image(slice, k, e)

\* A product is a word.
LEMMA ImageType == \A s, k, e : Image(s, k, e) \in Word
  BY DEF Image, naive_gemv, Word

\* The buckets of a partition, one after the other, enumerate its words.
LEMMA ScatteredLists ==
  ASSUME Multiplied, NEW part \in Partition, BucketsHold(part), NEW k \in Side
  PROVE  /\ Scattered(k, part) \in Seq(Word)
         /\ Enumerates(Scattered(k, part), InPartition(k, part), LM[k])
<1> DEFINE TT == Word \cup {Garbage}
           X == [t \in 1 .. T_part |-> Share(k, t - 1, part)]
           seqs == [t \in 1 .. T_part |-> Bucket(k, t - 1, part)]
<1>1. \A t \in 1 .. T_part : t - 1 \in Parter /\ t \in Nat
  BY Sizes DEF Parter
<1>2. Scattered(k, part) = FlattenSeq(seqs)
  BY DEF Scattered, Bucket
<1>3. \A t \in 1 .. T_part : seqs[t] = Bucket(k, t - 1, part) /\ X[t] = Share(k, t - 1, part)
  OBVIOUS
<1>4. seqs = [t \in 1 .. T_part |-> seqs[t]]
  OBVIOUS
<1> HIDE DEF seqs, X
<1>5. \A t \in 1 .. T_part : seqs[t] \in Seq(TT) /\ Enumerates(seqs[t], X[t], LM[k])
  BY <1>1, <1>3 DEF BucketsHold
<1>6. seqs \in Seq(Seq(TT)) /\ Len(seqs) = T_part
  BY <1>4, <1>5, IsASeq, LenProperties, Sizes
<1>7. n(k) \in Nat
  BY DEF Multiplied
<1>8. \A t, u \in 1 .. T_part : t # u => X[t] \cap X[u] = {}
  <2> SUFFICES ASSUME NEW t \in 1 .. T_part, NEW u \in 1 .. T_part, t # u, NEW e \in X[t], e \in X[u]
               PROVE  FALSE
    OBVIOUS
  <2>1. t - 1 \in Parter /\ u - 1 \in Parter
    BY <1>1
  <2>2. /\ e \in ShareStart(n(k), t - 1) + 1 .. ShareStart(n(k), (t - 1) + 1)
        /\ e \in ShareStart(n(k), u - 1) + 1 .. ShareStart(n(k), (u - 1) + 1)
    BY <1>3 DEF Share
  <2>3. t - 1 = u - 1
    BY <1>7, <2>1, <2>2, ShareOfOne
  <2> QED
    BY <2>3
<1>10. \A e : e \in InPartition(k, part) <=> \E t \in 1 .. T_part : e \in X[t]
  <2>1. ASSUME NEW t \in 1 .. T_part, NEW e \in X[t] PROVE e \in InPartition(k, part)
    <3>1. t - 1 \in Parter /\ e \in ShareStart(n(k), t - 1) + 1 .. ShareStart(n(k), (t - 1) + 1)
          /\ TopValue(Image(slice, k, e), p) = part
      BY <1>1, <1>3 DEF Share
    <3> QED
      BY <1>7, <3>1, ShareOfOne DEF InPartition
  <2>2. ASSUME NEW e \in InPartition(k, part) PROVE \E t \in 1 .. T_part : e \in X[t]
    <3>1. e \in 1 .. n(k) /\ TopValue(Image(slice, k, e), p) = part
      BY DEF InPartition
    <3>2. PICK t \in Parter : e \in ShareStart(n(k), t) + 1 .. ShareStart(n(k), t + 1)
      BY <1>7, <3>1, ShareOfOne
    <3>3. e \in Share(k, t, part)
      BY <3>1, <3>2 DEF Share
    <3>4. t + 1 \in 1 .. T_part /\ (t + 1) - 1 = t
      BY Sizes DEF Parter
    <3>5. e \in X[t + 1]
      BY <1>3, <3>3, <3>4
    <3> QED
      BY <3>4, <3>5
  <2> QED
    BY <2>1, <2>2
<1>9. FlattenSeq(seqs) \in Seq(TT) /\ Enumerates(FlattenSeq(seqs), InPartition(k, part), LM[k])
  BY <1>5, <1>6, <1>8, <1>10, Sizes, FlattenLists
<1>11. \A e \in InPartition(k, part) : LM[k][e] \in Word
  BY ImageType DEF Multiplied, InPartition
<1> QED
  BY <1>2, <1>9, <1>11, EnumType

\* What the threads hold, as a function of the pairs.
TripleOf == [q \in Pairs |-> Triple(Image(slice, 0, q[1]), Image(slice, 1, q[2]))]

\* The pairs that the slice joins whose words are in partition part.
JoinsIn(part) == {q \in Pairs : Joins(slice, q[1], q[2]) /\ TopValue(Image(slice, 0, q[1]), p) = part}

\* What subjoin emits.
Triples == Word \X Word \X Word

\* From buckets that hold a partition, subjoin emits each of its joined pairs once.
LEMMA SubjoinLists ==
  ASSUME Multiplied, slice.l \in Int, slice.l >= p,
         DOMAIN task.L[0] = 1 .. n(0), DOMAIN task.L[1] = 1 .. n(1),
         NEW part \in Partition, BucketsHold(part)
  PROVE  subjoin(part) \in Seq(Triples) /\ Enumerates(subjoin(part), JoinsIn(part), TripleOf)
<1> DEFINE A == Scattered(0, part)
           B == Scattered(1, part)
           Matching(y) == {a \in InPartition(0, part) : Agree(LM[0][a], y)}
           Emitted(y) == LET X == Matches(A, y)
                         IN  [e \in DOMAIN X |-> <<X[e], y, Xor(X[e], y)>>]
           seqs == [e \in DOMAIN B |-> Emitted(B[e])]
<1>0. 0 \in Side /\ 1 \in Side
  BY DEF Side
<1>1. A \in Seq(Word) /\ Enumerates(A, InPartition(0, part), LM[0])
  BY <1>0, ScatteredLists
<1>2. B \in Seq(Word) /\ Enumerates(B, InPartition(1, part), LM[1])
  BY <1>0, ScatteredLists
<1>3. subjoin(part) = FlattenSeq(seqs)
  BY DEF subjoin
<1> HIDE DEF A, B
<1>n. PICK N \in Nat : N = Len(B)
  BY <1>2
<1>4. PICK hh \in [1 .. N -> InPartition(1, part)] :
        /\ \A q \in InPartition(1, part) : \E m \in 1 .. N : hh[m] = q
        /\ \A m, k \in 1 .. N : hh[m] = hh[k] => m = k
        /\ \A m \in 1 .. N : B[m] = LM[1][hh[m]]
  BY <1>2, <1>n DEF Enumerates
<1>5. N \in Nat /\ DOMAIN B = 1 .. N /\ \A m \in 1 .. N : B[m] \in Word
  BY <1>2, <1>n
<1>6. ASSUME NEW y \in Word
      PROVE  Matches(A, y) \in Seq(Word) /\ Enumerates(Matches(A, y), Matching(y), LM[0])
  <2> DEFINE K == {w \in Word : Agree(w, y)}
             parts == [m \in DOMAIN A |-> IF A[m] \in K THEN <<A[m]>> ELSE <<>>]
             r == FlattenSeq(parts)
  <2>1. \A m \in DOMAIN A : A[m] \in Word /\ (A[m] \in K <=> Agree(A[m], y))
    BY <1>1
  <2>2. [m \in DOMAIN A |-> IF A[m] \in K THEN <<A[m]>> ELSE <<>>]
        = [m \in DOMAIN A |-> IF Agree(A[m], y) THEN <<A[m]>> ELSE <<>>]
    BY <2>1
  <2>3. r = Matches(A, y)
    BY <2>2 DEF Matches
  <2>4. \A q : q \in Matching(y) <=> q \in InPartition(0, part) /\ LM[0][q] \in K
    <3>1. \A q \in InPartition(0, part) : LM[0][q] \in Word
      BY <1>0, ImageType DEF Multiplied, InPartition
    <3> QED
      BY <3>1
  <2>6. /\ parts \in [1 .. Len(A) -> Seq(Word)]
        /\ \A m \in 1 .. Len(A) : parts[m] = IF A[m] \in K THEN <<A[m]>> ELSE <<>>
    <3>1. \A w \in Word : <<w>> \in Seq(Word) /\ <<>> \in Seq(Word)
      OBVIOUS
    <3>2. DOMAIN A = 1 .. Len(A) /\ \A m \in 1 .. Len(A) : A[m] \in Word
      BY <1>1
    <3> QED
      BY <3>1, <3>2
  <2>7. A \in Seq(Word) /\ Enumerates(A, InPartition(0, part), LM[0])
    BY <1>1
  <2> HIDE DEF K, parts, Matching, Emitted, seqs
  <2>5. r \in Seq(Word) /\ Enumerates(r, Matching(y), LM[0])
    BY ONLY <2>4, <2>6, <2>7, FilterLists
  <2> HIDE DEF r, Matching
  <2> QED
    BY <2>3, <2>5
<1> DEFINE X == [m \in 1 .. N |-> {<<a, hh[m]>> : a \in Matching(B[m])}]
<1>7. ASSUME NEW m \in 1 .. N
      PROVE  seqs[m] \in Seq(Triples) /\ Enumerates(seqs[m], X[m], TripleOf)
  <2> DEFINE y == B[m]
             s == Matches(A, y)
             r == [e \in DOMAIN s |-> <<s[e], y, Xor(s[e], y)>>]
             Y == {<<a, hh[m]>> : a \in Matching(y)}
             f == [a \in Matching(y) |-> <<a, hh[m]>>]
  <2>1. y \in Word /\ seqs[m] = r /\ X[m] = Y
    BY <1>5
  <2>2. s \in Seq(Word) /\ Enumerates(s, Matching(y), LM[0])
    BY <1>6, <2>1
  <2>3. \A a \in Matching(y) : a \in 1 .. n(0) /\ LM[0][a] = Image(slice, 0, a)
    BY <1>0 DEF Multiplied, InPartition
  <2>4. hh[m] \in 1 .. n(1) /\ y = Image(slice, 1, hh[m])
    BY <1>0, <1>4 DEF Multiplied, InPartition
  <2>5. \A a \in Matching(y) : TripleOf[<<a, hh[m]>>] = <<LM[0][a], y, Xor(LM[0][a], y)>>
    BY <2>3, <2>4 DEF TripleOf, Triple, Pairs
  <2>6. f \in [Matching(y) -> Y] /\ \A a \in Matching(y) : f[a] = <<a, hh[m]>>
    OBVIOUS
  <2>7. \A q \in Y : \E a \in Matching(y) : f[a] = q
    OBVIOUS
  <2>8. \A a, b \in Matching(y) : f[a] = f[b] => a = b
    OBVIOUS
  <2> HIDE DEF s, y, Matching
  <2>9. /\ DOMAIN s = 1 .. Len(s) /\ Len(s) \in Nat
        /\ \A e \in 1 .. Len(s) : s[e] \in Word /\ r[e] = <<s[e], y, Xor(s[e], y)>>
    BY <2>2
  <2>10. r \in Seq(Triples) /\ Len(r) = Len(s)
    <3>1. \A e \in 1 .. Len(s) : r[e] \in Triples
      <4>1. \A w \in Word : Xor(w, y) \in Word
        BY <2>1 DEF Xor, SymDiff, Word
      <4> QED
        BY <2>1, <2>9, <4>1 DEF Triples
    <3>2. r = [e \in 1 .. Len(s) |-> r[e]]
      BY <2>9
    <3> HIDE DEF r
    <3> QED
      BY <2>9, <3>1, <3>2, IsASeq, LenProperties
  <2> HIDE DEF r, f, Y
  <2>11. \A e \in 1 .. Len(s) : \A a \in Matching(y) : s[e] = LM[0][a] => r[e] = TripleOf[f[a]]
    BY <2>5, <2>6, <2>9
  <2>12. Enumerates(r, Y, TripleOf)
    BY ONLY <2>2, <2>6, <2>7, <2>8, <2>10, <2>11, RenameLists
  <2> QED
    BY <2>1, <2>10, <2>12
<1>8. seqs \in Seq(Seq(Triples)) /\ Len(seqs) = N
  <2>1. DOMAIN seqs = 1 .. N /\ seqs = [m \in 1 .. N |-> seqs[m]]
    BY <1>5
  <2> HIDE DEF seqs, X
  <2>2. seqs \in [1 .. N -> Seq(Triples)]
    BY <1>7, <2>1
  <2> QED
    BY <2>2, FunctionSeq
<1>9. \A m, k \in 1 .. N : m # k => X[m] \cap X[k] = {}
  <2> HIDE DEF Matching
  <2>1. \A m \in 1 .. N : \A q \in X[m] : q[2] = hh[m]
    OBVIOUS
  <2> HIDE DEF X
  <2> QED
    BY <1>4, <2>1
<1>10. \A q : q \in JoinsIn(part) <=> \E m \in 1 .. N : q \in X[m]
  <2>1. ASSUME NEW m \in 1 .. N, NEW q \in X[m] PROVE q \in JoinsIn(part)
    <3>1. PICK a \in Matching(B[m]) : q = <<a, hh[m]>>
      OBVIOUS
    <3>2. /\ a \in 1 .. n(0) /\ TopValue(Image(slice, 0, a), p) = part /\ LM[0][a] = Image(slice, 0, a)
          /\ Agree(LM[0][a], B[m])
      BY <1>0 DEF Multiplied, InPartition
    <3>3. hh[m] \in 1 .. n(1) /\ B[m] = Image(slice, 1, hh[m])
      BY <1>0, <1>4 DEF Multiplied, InPartition
    <3>4. Joins(slice, a, hh[m])
      BY <3>2, <3>3 DEF Agree, Joins, Image
    <3> QED
      BY <3>1, <3>2, <3>3, <3>4 DEF JoinsIn, Pairs
  <2>2. ASSUME NEW q \in JoinsIn(part) PROVE \E m \in 1 .. N : q \in X[m]
    <3>1. /\ q = <<q[1], q[2]>> /\ q[1] \in 1 .. n(0) /\ q[2] \in 1 .. n(1)
          /\ Joins(slice, q[1], q[2]) /\ TopValue(Image(slice, 0, q[1]), p) = part
      BY DEF JoinsIn, Pairs
    <3>2. Agree(Image(slice, 0, q[1]), Image(slice, 1, q[2]))
      BY <3>1 DEF Agree, Joins, Image
    <3>3. TopValue(Image(slice, 1, q[2]), p) = part
      BY <3>1, <3>2, SamePartition, ImageType DEF Agree
    <3>4. q[2] \in InPartition(1, part) /\ q[1] \in InPartition(0, part)
      BY <3>1, <3>3 DEF InPartition
    <3>5. PICK m \in 1 .. N : hh[m] = q[2]
      BY <1>4, <3>4
    <3>6. B[m] = Image(slice, 1, q[2])
      BY <1>0, <1>4, <3>1, <3>5 DEF Multiplied
    <3>7. q[1] \in Matching(B[m])
      BY <1>0, <3>1, <3>2, <3>4, <3>6 DEF Multiplied
    <3>8. q \in X[m]
      BY <3>1, <3>5, <3>7
    <3> QED
      BY <3>8
  <2> HIDE DEF X
  <2> QED
    BY <2>1, <2>2
<1> HIDE DEF seqs, X, Matching
<1>11. FlattenSeq(seqs) \in Seq(Triples) /\ Enumerates(FlattenSeq(seqs), JoinsIn(part), TripleOf)
  <2>1. \A m \in 1 .. N : Enumerates(seqs[m], X[m], TripleOf)
    BY <1>7
  <2> QED
    BY <1>8, <1>9, <1>10, <2>1, FlattenLists
<1> QED
  BY <1>3, <1>11

(***************************************************************************)
(* The phases up to the join                                               *)
(***************************************************************************)
\* Busy: a slice is being processed.
Phases == {"gemm", "partition", "subjoin", "checkup", "lift", "done", "undefined", "hang"}
Busy == pc \notin {"done", "undefined", "hang"}

\* What the induction needs of the types.  The slice is one of the task while there
\* is one to work on.
TypeInv ==
    /\ task \in Tasks
    /\ pc \in Phases
    /\ nslice \in Nat \ {0}
    /\ Busy => nslice <= Len(task.slices)
    /\ tsize \in [Side -> Nat]
    /\ side \in Side
    /\ cursor \in [Parter -> Nat]
    /\ count \in [Side -> [Parter -> [Partition -> Nat]]]
    /\ scratch = [k \in Side |-> scratch[k]]
    /\ \A k \in Side : scratch[k] \in [0 .. ScratchSize(k) - 1 -> Word \cup {Garbage}]
    /\ nexti \in Nat /\ (pc = "checkup" => nexti >= fan_out)
    /\ preselected = [t \in Joiner |-> preselected[t]]

\* How far thread t has come with side k.
Reached(k, t) == IF k < side THEN ShareStart(n(k), t + 1) ELSE cursor[t]

\* The words that it has put into its bucket for partition part.
Put(k, t, part) ==
    {e \in ShareStart(n(k), t) + 1 .. Reached(k, t) : TopValue(Image(slice, k, e), p) = part}

\* Each bucket holds what its thread has put there.
Counted == \A k \in Side, t \in Parter, part \in Partition :
    k <= side => count[k][t][part] = BucketStart(k, t, part) + Cardinality(Put(k, t, part))
Filled == \A k \in Side, t \in Parter, part \in Partition :
    k <= side => Enumerates(Bucket(k, t, part), Put(k, t, part), LM[k])

\* Phase 2.  The counters say how much the threads have put into their buckets,
\* whether it fits or not; the contents are known when it does.
PartInv ==
    pc \in {"partition", "subjoin"} =>
      /\ Multiplied
      /\ pc = "subjoin" => side = 1 /\ \A t \in Parter : cursor[t] = ShareStart(n(1), t + 1)
      /\ \A t \in Parter : cursor[t] \in ShareStart(n(side), t) .. ShareStart(n(side), t + 1)
      /\ Counted
      /\ BucketsFit(slice) => Filled

\* The pairs that the slice joins in the partitions before m.
JoinedBelow(m) ==
    {q \in Pairs : Joins(slice, q[1], q[2]) /\ TopValue(Image(slice, 0, q[1]), p) < m}

\* The threads hold the pairs of P, each its own.
Holding(P) ==
    /\ \A t, u \in Joiner : t # u => P[t] \cap P[u] = {}
    /\ \A q : q \in JoinedBelow(nexti) <=> \E t \in Joiner : q \in P[t]
    /\ \A t \in Joiner : preselected[t] \in Seq(Triples) /\ Enumerates(preselected[t], P[t], TripleOf)

\* Phase 3.  The pairs joined so far are shared among the threads.
JoinInv ==
    pc \in {"subjoin", "checkup"} /\ BucketsFit(slice) =>
        \E P \in [Joiner -> SUBSET Pairs] : Holding(P)

\* The invariant of the phases up to the join.
JoinTaskInv == TypeInv /\ PartInv /\ JoinInv

-----------------------------------------------------------------------------
\* What the assumption says of a task.
LEMMA TaskType ==
  ASSUME task \in Tasks
  PROVE  /\ \A k \in Side : n(k) \in Nat /\ DOMAIN task.L[k] = 1 .. n(k) /\ \A e \in 1 .. n(k) : task.L[k][e] \in Word
         /\ Len(task.slices) \in Nat
         /\ \A s \in 1 .. Len(task.slices) :
              /\ task.slices[s] \in SliceType /\ task.slices[s].l \in Int /\ task.slices[s].l >= p
              /\ Inverts(task.slices[s].Minv, task.slices[s].M)
              /\ task.slices[s] \in ToSet(task.slices)
<1>1. task.L \in [Side -> Seq(Word)] /\ task.slices \in Seq(SliceType)
      /\ \A s \in ToSet(task.slices) : s.l >= p /\ Inverts(s.Minv, s.M)
  BY JouxAssumption
<1>2. ASSUME NEW s \in 1 .. Len(task.slices)
      PROVE  task.slices[s] \in SliceType /\ task.slices[s] \in ToSet(task.slices)
  BY <1>1 DEF ToSet
<1>3. \A s \in SliceType : s.l \in Int
  BY DEF SliceType
<1>4. ASSUME NEW k \in Side
      PROVE  n(k) \in Nat /\ DOMAIN task.L[k] = 1 .. n(k) /\ \A e \in 1 .. n(k) : task.L[k][e] \in Word
  <2>1. task.L[k] \in Seq(Word)
    BY <1>1
  <2> QED
    BY <2>1 DEF n
<1> QED
  BY <1>1, <1>2, <1>3, <1>4

\* A set of numbers that is bounded has a greatest one.
LEMMA Greatest ==
  ASSUME NEW N \in Nat, NEW X \in SUBSET (0 .. N), X # {}
  PROVE  \E m \in X : \A k \in X : m >= k
<1> DEFINE Y == {N - w : w \in X}
<1>0. \A w \in X : N - w \in Nat
  OBVIOUS
<1>1. Y \in SUBSET Nat /\ Y # {}
  BY <1>0
<1>2. PICK y \in Y : \A k \in Y : y <= k
  BY <1>1, Least
<1>3. PICK m \in X : y = N - m
  BY <1>2
<1>4. ASSUME NEW k \in X PROVE m >= k
  <2>1. y <= N - k
    BY <1>2
  <2> QED
    BY <1>3, <2>1
<1> QED
  BY <1>4

\* The capacity of a bucket is a number.
LEMMA BoundType ==
  ASSUME NEW N \in Nat, NEW b \in Nat \ {0}
  PROVE  chernoff_bound(N, b) \in Nat
<1> DEFINE X == {s \in 0 .. N + CHERNOFF :
                    s * b <= N \/ s * b - N <= (CHERNOFF * b * N) \div (s * b - N)}
<1>1. N + CHERNOFF \in Nat /\ CACHE_LINE_SIZE \in Nat \ {0}
  BY JouxAssumption
<1>2. X \in SUBSET (0 .. N + CHERNOFF) /\ 0 \in X
  <2>1. 0 \in 0 .. N + CHERNOFF /\ 0 * b <= N
    BY <1>1
  <2> QED
    BY <2>1
<1> HIDE DEF X
<1>3. \E m \in X : \A k \in X : m >= k
  BY <1>1, <1>2, Greatest
<1>4. Max(X) \in X
  BY <1>3 DEF Max
<1>5. Max(X) \in Nat
  <2>1. \A s \in 0 .. N + CHERNOFF : s \in Nat
    OBVIOUS
  <2> QED
    BY <1>2, <1>4, <2>1
<1>6. \A s \in Nat : ROUND(s) \in Nat
  <2> SUFFICES ASSUME NEW s \in Nat PROVE ROUND(s) \in Nat
    OBVIOUS
  <2>1. s + CACHE_LINE_SIZE - 1 \in Nat
    BY <1>1
  <2>2. (s + CACHE_LINE_SIZE - 1) \div CACHE_LINE_SIZE \in Nat
    BY <1>1, <2>1
  <2> QED
    BY <1>1, <2>2 DEF ROUND
<1> QED
  BY <1>5, <1>6 DEF chernoff_bound, X

\* So are the size of a scratch space and where the buckets begin.
LEMMA BlockType ==
  ASSUME fan_out \in Nat \ {0}, tsize \in [Side -> Nat], NEW k \in Side
  PROVE  ScratchSize(k) \in Nat /\ \A t \in Parter, part \in Partition : BucketStart(k, t, part) \in Nat
<1>1. tsize[k] \in Nat /\ psize(k) \in Nat
  BY Sizes DEF psize
<1>2. ScratchSize(k) \in Nat
  BY <1>1, Sizes DEF ScratchSize
<1>3. ASSUME NEW t \in Parter, NEW part \in Partition PROVE BucketStart(k, t, part) \in Nat
  <2>1. t \in Nat /\ part \in Nat
    BY DEF Parter, Partition
  <2>2. psize(k) * part \in Nat /\ tsize[k] * t \in Nat
    BY <1>1, <2>1
  <2> QED
    BY <2>2 DEF BucketStart
<1> QED
  BY <1>2, <1>3

\* The task, the slice and the sizes are the same in the next state.
Same == task' = task /\ nslice' = nslice /\ tsize' = tsize

\* Then what is computed from them is the same as well.
LEMMA SameTask ==
  ASSUME Same
  PROVE  /\ slice' = slice /\ Pairs' = Pairs /\ TripleOf' = TripleOf
         /\ \A k : n(k)' = n(k) /\ ScratchSize(k)' = ScratchSize(k)
         /\ \A k, e : Image(slice, k, e)' = Image(slice, k, e)
         /\ \A k, t, part : BucketStart(k, t, part)' = BucketStart(k, t, part)
         /\ BucketsFit(slice)' = BucketsFit(slice)
         /\ \A m : JoinedBelow(m)' = JoinedBelow(m)
<1> USE DEF Same
<1>1. slice' = slice /\ Pairs' = Pairs /\ \A k : n(k)' = n(k)
  BY DEF slice, Pairs, n
<1>2. \A k, e : Image(slice, k, e)' = Image(slice, k, e)
  BY <1>1 DEF Image
<1>3. \A k : psize(k)' = psize(k) /\ ScratchSize(k)' = ScratchSize(k)
  BY DEF psize, ScratchSize
<1>4. \A k, t, part : BucketStart(k, t, part)' = BucketStart(k, t, part)
  BY <1>3 DEF BucketStart
<1>5. \A a, b : Joins(slice, a, b)' = Joins(slice, a, b)
  BY <1>1 DEF Joins
<1>6. \A m : JoinedBelow(m)' = JoinedBelow(m)
  BY <1>1, <1>2, <1>5 DEF JoinedBelow
<1>7. TripleOf' = TripleOf
  BY <1>1, <1>2 DEF TripleOf
<1>8. BucketsFit(slice)' = BucketsFit(slice)
  BY <1>1, <1>2 DEF BucketsFit
<1> QED
  BY <1>1, <1>2, <1>3, <1>4, <1>6, <1>7, <1>8

\* A sequence of length N is a function on 1 .. N.
LEMMA SeqFunction ==
  ASSUME NEW T, NEW N \in Nat, NEW s \in Seq(T), Len(s) = N
  PROVE  s \in [1 .. N -> T]
  OBVIOUS

\* The words that a thread has put into a bucket are some of its share, all in the end.
LEMMA PutType ==
  ASSUME TypeInv, PartInv, pc \in {"partition", "subjoin"},
         NEW k \in Side, k <= side, NEW t \in Parter, NEW part \in Partition
  PROVE  /\ IsFiniteSet(Put(k, t, part)) /\ Cardinality(Put(k, t, part)) \in Nat
         /\ Put(k, t, part) \subseteq Share(k, t, part)
         /\ BucketsFit(slice) =>
              IsFiniteSet(Share(k, t, part)) /\ Cardinality(Share(k, t, part)) \in Nat
              /\ Cardinality(Share(k, t, part)) <= tsize[k] /\ Cardinality(Put(k, t, part)) <= tsize[k]
         /\ k < side \/ pc = "subjoin" => Put(k, t, part) = Share(k, t, part)
<1>1. n(k) \in Nat /\ t \in 0 .. T_part /\ t + 1 \in 0 .. T_part
  BY TaskType, Sizes DEF TypeInv, Parter
<1>2. ShareStart(n(k), t) \in Nat /\ ShareStart(n(k), t + 1) \in Nat /\ ShareStart(n(k), t) <= ShareStart(n(k), t + 1)
  BY <1>1, Shares
<1>3. k = side \/ k < side
  BY DEF TypeInv, Side
<1>4. /\ Reached(k, t) \in ShareStart(n(k), t) .. ShareStart(n(k), t + 1)
      /\ k < side \/ pc = "subjoin" => Reached(k, t) = ShareStart(n(k), t + 1)
  <2>1. CASE k < side
    BY <1>2, <2>1 DEF Reached
  <2>2. CASE k = side
    <3>1. ~(k < side) /\ Reached(k, t) = cursor[t]
      BY <2>2 DEF Reached, TypeInv, Side
    <3> QED
      BY <2>2, <3>1 DEF PartInv
  <2> QED
    BY <1>3, <2>1, <2>2
<1>5. Put(k, t, part) \subseteq Share(k, t, part)
  BY <1>2, <1>4 DEF Put, Share
<1>6. IsFiniteSet(Share(k, t, part)) /\ Cardinality(Share(k, t, part)) \in Nat
  <2>1. IsFiniteSet(ShareStart(n(k), t) + 1 .. ShareStart(n(k), t + 1))
    BY <1>2, FS_Interval
  <2>2. Share(k, t, part) \subseteq ShareStart(n(k), t) + 1 .. ShareStart(n(k), t + 1)
    BY DEF Share
  <2> QED
    BY <2>1, <2>2, FS_Subset, FS_CardinalityType
<1>7. IsFiniteSet(Put(k, t, part)) /\ Cardinality(Put(k, t, part)) \in Nat
      /\ Cardinality(Put(k, t, part)) <= Cardinality(Share(k, t, part))
  BY <1>5, <1>6, FS_Subset, FS_CardinalityType
<1>8. ASSUME BucketsFit(slice) PROVE Cardinality(Share(k, t, part)) <= tsize[k]
  BY <1>8 DEF BucketsFit, Share
<1>9. k < side \/ pc = "subjoin" => Put(k, t, part) = Share(k, t, part)
  BY <1>4 DEF Put, Share
<1>10. tsize[k] \in Nat
  BY DEF TypeInv
<1> QED
  BY <1>5, <1>6, <1>7, <1>8, <1>9, <1>10

\* A bucket that fits is within the scratch space.
LEMMA BucketType ==
  ASSUME TypeInv, PartInv, pc \in {"partition", "subjoin"}, BucketsFit(slice),
         NEW k \in Side, k <= side, NEW t \in Parter, NEW part \in Partition
  PROVE  /\ Bucket(k, t, part) \in Seq(Word \cup {Garbage})
         /\ Len(Bucket(k, t, part)) = Cardinality(Put(k, t, part))
<1> DEFINE c == Cardinality(Put(k, t, part))
           TT == Word \cup {Garbage}
<1>1. c \in Nat /\ c <= tsize[k] /\ tsize[k] \in Nat
  BY PutType DEF TypeInv
<1>2. count[k][t][part] = BucketStart(k, t, part) + c /\ BucketStart(k, t, part) \in Nat
  BY BlockType, WordsHavePartitions DEF PartInv, Counted, TypeInv
<1> HIDE DEF c
<1>3. count[k][t][part] - BucketStart(k, t, part) = c
  BY <1>1, <1>2
<1>4. ASSUME NEW e \in 1 .. c PROVE scratch[k][BucketStart(k, t, part) + e - 1] \in TT
  <2>1. e - 1 \in 0 .. tsize[k] - 1
    BY <1>1
  <2>2. BucketStart(k, t, part) + (e - 1) \in 0 .. ScratchSize(k) - 1
    BY <1>1, <2>1, Places, WordsHavePartitions
  <2>3. BucketStart(k, t, part) + (e - 1) = BucketStart(k, t, part) + e - 1
    BY <1>2
  <2> QED
    BY <2>2, <2>3 DEF TypeInv
<1>5. Bucket(k, t, part) = [e \in 1 .. c |-> scratch[k][BucketStart(k, t, part) + e - 1]]
  BY <1>3 DEF Bucket
<1>6. Bucket(k, t, part) \in [1 .. c -> TT]
  BY <1>4, <1>5
<1> QED
  BY <1>1, <1>6, FunctionSeq DEF c

\* A word that a thread puts into its bucket disturbs no other bucket.
LEMMA DispatchPart ==
  ASSUME TypeInv, PartInv, NEW t \in Parter, Dispatch(t), pc' = pc
  PROVE  PartInv'
<1>0. Same /\ pc = "partition" /\ LM' = LM /\ side' = side
  BY DEF Dispatch, Same
<1>1. cursor[t] < ShareStart(n(side), t + 1) /\ cursor[t] \in Nat /\ side \in Side
  BY DEF Dispatch, TypeInv
<1>2. /\ n(side) \in Nat /\ t \in 0 .. T_part /\ t + 1 \in 0 .. T_part
      /\ \A u \in Parter : ShareStart(n(side), u) \in Nat /\ ShareStart(n(side), u + 1) \in Nat
  <2>1. n(side) \in Nat
    BY <1>1, TaskType DEF TypeInv
  <2>2. \A u \in Parter : u \in 0 .. T_part /\ u + 1 \in 0 .. T_part
    BY Sizes DEF Parter
  <2> QED
    BY <2>1, <2>2, Shares
<1>3. PICK k0 \in Side, e0 \in Nat : k0 = side /\ e0 = cursor[t] + 1
  BY <1>1
<1>e. k0 <= side /\ side <= k0 /\ side = k0 /\ pc \in {"partition", "subjoin"}
  BY <1>0, <1>3 DEF Side
<1>4. e0 \in ShareStart(n(k0), t) + 1 .. ShareStart(n(k0), t + 1) /\ e0 \in 1 .. n(k0)
  <2>1. e0 \in ShareStart(n(k0), t) + 1 .. ShareStart(n(k0), t + 1)
    BY <1>0, <1>1, <1>2, <1>3 DEF PartInv
  <2> QED
    BY <1>2, <1>3, <2>1, ShareOfOne
<1>a. PICK y \in Word : y = LM[k0][e0] /\ y = Image(slice, k0, e0)
  BY <1>0, <1>4, ImageType DEF PartInv, Multiplied
<1>b. PICK i0 \in Partition : i0 = TopValue(y, p)
  BY WordsHavePartitions
<1>c. PICK idx \in Nat : idx = count[k0][t][i0]
  BY DEF TypeInv
<1>d. /\ cursor' = [cursor EXCEPT ![t] = @ + 1] /\ cursor \in [Parter -> Nat]
      /\ count' = [count EXCEPT ![k0][t][i0] = @ + 1] /\ count \in [Side -> [Parter -> [Partition -> Nat]]]
      /\ idx < ScratchSize(k0)
      /\ scratch' = [scratch EXCEPT ![k0][idx] = y]
  BY <1>0, <1>3, <1>a, <1>b, <1>c DEF Dispatch, TypeInv
<1>5. ASSUME NEW k \in Side, NEW u \in Parter, NEW l \in Partition, k <= k0
      PROVE  /\ k # k0 \/ u # t \/ l # i0 => Put(k, u, l)' = Put(k, u, l)
             /\ Put(k0, t, i0)' = Put(k0, t, i0) \cup {e0}
             /\ e0 \notin Put(k0, t, i0)
  <2>1. \A e : Image(slice, k, e)' = Image(slice, k, e) /\ Image(slice, k0, e)' = Image(slice, k0, e)
    BY <1>0, SameTask
  <2>2. n(k)' = n(k) /\ n(k0)' = n(k0) /\ side' = k0 /\ side = k0
    BY <1>0, <1>3, SameTask
  <2>3. ~(k0 < k0) /\ cursor'[t] = cursor[t] + 1 /\ \A v \in Parter : v # t => cursor'[v] = cursor[v]
    BY <1>d DEF Side
  <2>4. Reached(k0, t)' = e0 /\ Reached(k0, t) = cursor[t]
    BY <1>3, <2>2, <2>3 DEF Reached
  <2>5. k # k0 \/ u # t => Reached(k, u)' = Reached(k, u)
    <3>1. CASE k < k0
      BY <2>2, <3>1 DEF Reached
    <3>2. CASE k = k0 /\ u # t
      BY <2>2, <2>3, <3>2 DEF Reached
    <3> QED
      BY <1>5, <3>1, <3>2 DEF Side
  <2>6. k # k0 \/ u # t => Put(k, u, l)' = Put(k, u, l)
    BY <2>1, <2>2, <2>5 DEF Put
  <2>7. \A part : Put(k0, t, part)' = {e \in ShareStart(n(k0), t) + 1 .. e0 : TopValue(Image(slice, k0, e), p) = part}
    BY <2>1, <2>2, <2>4 DEF Put
  <2>8. \A part : Put(k0, t, part) = {e \in ShareStart(n(k0), t) + 1 .. cursor[t] : TopValue(Image(slice, k0, e), p) = part}
    BY <2>4 DEF Put
  <2>9. /\ ShareStart(n(k0), t) + 1 .. e0 = (ShareStart(n(k0), t) + 1 .. cursor[t]) \cup {e0}
        /\ e0 \notin ShareStart(n(k0), t) + 1 .. cursor[t]
    BY <1>1, <1>2, <1>3, <1>4
  <2>10. TopValue(Image(slice, k0, e0), p) = i0
    BY <1>a, <1>b
  <2>11. l # i0 => Put(k0, t, l)' = Put(k0, t, l)
    BY <2>7, <2>8, <2>9, <2>10
  <2>12. Put(k0, t, i0)' = Put(k0, t, i0) \cup {e0} /\ e0 \notin Put(k0, t, i0)
    BY <2>7, <2>8, <2>9, <2>10
  <2> QED
    BY <2>6, <2>11, <2>12
<1>6. ASSUME NEW k \in Side, NEW u \in Parter, NEW l \in Partition
      PROVE  /\ BucketStart(k, u, l)' = BucketStart(k, u, l) /\ BucketStart(k, u, l) \in Nat
             /\ count[k][u][l] \in Nat
             /\ k # k0 \/ u # t \/ l # i0 => count'[k][u][l] = count[k][u][l]
             /\ count'[k0][t][i0] = idx + 1
  <2>1. BucketStart(k, u, l)' = BucketStart(k, u, l) /\ BucketStart(k, u, l) \in Nat
    BY <1>0, SameTask, BlockType, WordsHavePartitions DEF TypeInv
  <2>2. count \in [Side -> [Parter -> [Partition -> Nat]]]
    BY DEF TypeInv
  <2> QED
    BY <1>0, <1>1, <1>3, <1>4, <1>d, <1>a, <1>b, <1>c, <2>1, <2>2
<1>7. Counted'
  <2> SUFFICES ASSUME NEW k \in Side, NEW u \in Parter, NEW l \in Partition, k <= k0
               PROVE  count'[k][u][l] = BucketStart(k, u, l) + Cardinality(Put(k, u, l)')
    BY <1>0, <1>3, <1>6 DEF Counted
  <2>1. count[k][u][l] = BucketStart(k, u, l) + Cardinality(Put(k, u, l))
    BY <1>0, <1>1, <1>3, <1>d DEF PartInv, Counted
  <2>2. CASE k # k0 \/ u # t \/ l # i0
    BY <1>5, <1>6, <2>1, <2>2
  <2>3. CASE k = k0 /\ u = t /\ l = i0
    <3>1. IsFiniteSet(Put(k0, t, i0)) /\ Cardinality(Put(k0, t, i0)) \in Nat
      BY <1>e, PutType
    <3>2. Cardinality(Put(k0, t, i0)') = Cardinality(Put(k0, t, i0)) + 1
      BY <1>5, <3>1, FS_AddElement
    <3>3. idx = BucketStart(k0, t, i0) + Cardinality(Put(k0, t, i0))
      BY <1>c, <2>1, <2>3
    <3>4. idx + 1 = BucketStart(k0, t, i0) + Cardinality(Put(k0, t, i0)')
      BY <1>6, <3>1, <3>2, <3>3
    <3> QED
      BY <1>6, <2>3, <3>4
  <2> QED
    BY <2>2, <2>3
<1>8. ASSUME BucketsFit(slice) PROVE Filled'
  <2> SUFFICES ASSUME NEW k \in Side, NEW u \in Parter, NEW l \in Partition, k <= k0
               PROVE  Enumerates(Bucket(k, u, l)', Put(k, u, l)', LM[k])
    BY <1>0, <1>1, <1>3, <1>d DEF Filled
  <2> DEFINE c == Cardinality(Put(k0, t, i0))
  <2>1. c \in 0 .. tsize[k0] - 1 /\ c \in Nat
    <3>1. Put(k0, t, i0) \cup {e0} \subseteq Share(k0, t, i0)
      <4>1. Put(k0, t, i0) \subseteq Share(k0, t, i0)
        BY <1>e, PutType
      <4>2. e0 \in Share(k0, t, i0)
        BY <1>4, <1>a, <1>b DEF Share
      <4> QED
        BY <4>1, <4>2
    <3>2. /\ IsFiniteSet(Share(k0, t, i0)) /\ Cardinality(Share(k0, t, i0)) \in Nat
          /\ Cardinality(Share(k0, t, i0)) <= tsize[k0] /\ tsize[k0] \in Nat
          /\ IsFiniteSet(Put(k0, t, i0)) /\ c \in Nat
      BY <1>8, <1>e, PutType DEF TypeInv
    <3>3. Cardinality(Put(k0, t, i0) \cup {e0}) = c + 1
      BY <1>5, <3>2, FS_AddElement
    <3>4. c + 1 <= Cardinality(Share(k0, t, i0))
      BY <3>1, <3>2, <3>3, FS_Subset
    <3> QED
      BY <3>2, <3>4
  <2>2. idx = BucketStart(k0, t, i0) + c
    BY <1>c, <1>e DEF PartInv, Counted
  <2> HIDE DEF c
  <2>3. idx \in 0 .. ScratchSize(k0) - 1
    BY <1>0, <1>1, <1>3, <1>4, <1>d, <1>a, <1>b, <1>c, <2>1, <2>2, Places, WordsHavePartitions DEF TypeInv
  <2>4. Enumerates(Bucket(k, u, l), Put(k, u, l), LM[k])
    BY <1>0, <1>1, <1>3, <1>d, <1>8 DEF PartInv, Filled
  <2>5. /\ Bucket(k, u, l) \in Seq(Word \cup {Garbage})
        /\ Len(Bucket(k, u, l)) = Cardinality(Put(k, u, l))
    BY <1>0, <1>1, <1>3, <1>d, <1>8, BucketType
  <2>6. Cardinality(Put(k, u, l)) \in Nat /\ Cardinality(Put(k, u, l)) <= tsize[k] /\ tsize[k] \in Nat
    BY <1>0, <1>1, <1>3, <1>d, <1>8, PutType DEF TypeInv
  <2>7. count[k][u][l] = BucketStart(k, u, l) + Cardinality(Put(k, u, l))
    BY <1>0, <1>1, <1>3, <1>d DEF PartInv, Counted
  <2>8. scratch = [kk \in Side |-> scratch[kk]]
        /\ scratch[k0] \in [0 .. ScratchSize(k0) - 1 -> Word \cup {Garbage}]
    BY DEF TypeInv
  <2>9. /\ scratch'[k0][idx] = y
        /\ \A a : a # idx /\ a \in 0 .. ScratchSize(k0) - 1 => scratch'[k0][a] = scratch[k0][a]
        /\ k # k0 => scratch'[k] = scratch[k]
    BY <1>0, <1>1, <1>3, <1>d, <2>3, <2>8
  <2> DEFINE d == Cardinality(Put(k, u, l))
             At(e) == BucketStart(k, u, l) + e - 1
  <2>10. ASSUME NEW e \in 1 .. d, k # k0 \/ u # t \/ l # i0 \/ e # c + 1
         PROVE  scratch'[k][At(e)] = scratch[k][At(e)]
    <3>1. e - 1 \in 0 .. tsize[k] - 1 /\ At(e) = BucketStart(k, u, l) + (e - 1)
      BY <1>6, <2>6
    <3>2. At(e) \in 0 .. ScratchSize(k) - 1
      BY <2>6, <3>1, Places, WordsHavePartitions
    <3>3. k = k0 => At(e) # idx
      <4> SUFFICES ASSUME k = k0, At(e) = idx PROVE FALSE
        OBVIOUS
      <4>1. BucketStart(k, u, l) + (e - 1) = BucketStart(k0, t, i0) + c
        BY <2>2, <3>1
      <4>2. u = t /\ l = i0 /\ e - 1 = c
        BY <1>0, <1>1, <1>3, <1>4, <1>d, <1>a, <1>b, <1>c, <2>1, <2>6, <3>1, <4>1, Places, WordsHavePartitions
      <4> QED
        BY <2>1, <2>10, <4>2
    <3> QED
      BY <2>9, <3>2, <3>3
  <2>11. Bucket(k, u, l) = [e \in 1 .. d |-> scratch[k][At(e)]]
    <3>1. count[k][u][l] - BucketStart(k, u, l) = d
      BY <1>6, <2>6, <2>7
    <3> QED
      BY <3>1 DEF Bucket
  <2>12. CASE k # k0 \/ u # t \/ l # i0
    <3>1. \A e \in 1 .. d : scratch'[k][At(e)] = scratch[k][At(e)]
      BY <2>10, <2>12
    <3>2. count'[k][u][l] - BucketStart(k, u, l)' = d /\ \A e : At(e)' = At(e)
      BY <1>6, <2>6, <2>7, <2>12
    <3>3. Bucket(k, u, l)' = [e \in 1 .. d |-> scratch'[k][At(e)]]
      BY <1>6, <3>2 DEF Bucket
    <3> HIDE DEF At, d
    <3>4. Bucket(k, u, l)' = Bucket(k, u, l)
      BY <2>11, <3>1, <3>3
    <3> QED
      BY <1>5, <2>4, <2>12, <3>4
  <2>13. CASE k = k0 /\ u = t /\ l = i0
    <3>1. k = k0 /\ u = t /\ l = i0 /\ d = c
      BY <2>13 DEF c
    <3>2. \A e \in 1 .. d : scratch'[k][At(e)] = scratch[k][At(e)]
      BY <2>6, <2>10, <3>1
    <3>3. scratch'[k][At(d + 1)] = y
      BY <1>6, <2>1, <2>2, <2>9, <3>1
    <3>4. count'[k][u][l] - BucketStart(k, u, l)' = d + 1
      BY <1>6, <2>1, <2>2, <3>1
    <3>5. Bucket(k, u, l)' = [e \in 1 .. d + 1 |-> scratch'[k][At(e)]]
      BY <1>6, <3>4 DEF Bucket
    <3>6. d \in Nat
      BY <2>6
    <3> HIDE DEF At, d
    <3> DEFINE s == Bucket(k, u, l)
    <3>7. s \in Seq(Word \cup {Garbage}) /\ Len(s) = d
      BY <2>5 DEF d
    <3>8. <<y>> \in Seq(Word \cup {Garbage}) /\ Len(<<y>>) = 1 /\ <<y>>[1] = y
      BY <1>a
    <3>9. /\ s \o <<y>> \in [1 .. d + 1 -> Word \cup {Garbage}]
          /\ \A e \in 1 .. d + 1 : e <= d => (s \o <<y>>)[e] = s[e]
          /\ \A e \in 1 .. d + 1 : ~(e <= d) => (s \o <<y>>)[e] = y
      <4> HIDE DEF s
      <4>1. /\ s \o <<y>> \in Seq(Word \cup {Garbage}) /\ Len(s \o <<y>>) = d + 1
            /\ \A e \in 1 .. d + 1 : (s \o <<y>>)[e] = IF e <= d THEN s[e] ELSE <<y>>[e - d]
        BY <3>6, <3>7, <3>8, ConcatProperties
      <4>2. \A e \in 1 .. d + 1 : ~(e <= d) => e - d = 1
        BY <3>6
      <4>3. \A e \in 1 .. d + 1 : e <= d => (s \o <<y>>)[e] = s[e] /\ s[e] \in Word \cup {Garbage}
        <5>1. \A e \in 1 .. d + 1 : e <= d => e \in 1 .. Len(s)
          BY <3>6, <3>7
        <5>2. \A e \in 1 .. Len(s) : s[e] \in Word \cup {Garbage}
          BY <3>7
        <5> QED
          BY <4>1, <5>1, <5>2
      <4>4. \A e \in 1 .. d + 1 : ~(e <= d) => (s \o <<y>>)[e] = y
        BY <3>8, <4>1, <4>2
      <4>5. s \o <<y>> \in [1 .. d + 1 -> Word \cup {Garbage}]
        <5>1. PICK N \in Nat : N = d + 1
          BY <3>6
        <5>2. PICK z \in Seq(Word \cup {Garbage}) : z = s \o <<y>> /\ Len(z) = N
          BY <4>1, <5>1
        <5> QED
          BY <5>1, <5>2, SeqFunction
      <4> QED
        BY <4>3, <4>4, <4>5
    <3>10. ASSUME NEW e \in 1 .. d + 1 PROVE (s \o <<y>>)[e] = scratch'[k][At(e)]
      <4>1. CASE e <= d
        <5>1. e \in 1 .. d
          BY <3>6, <4>1
        <5> QED
          BY <2>11, <3>2, <3>9, <4>1, <5>1
      <4>2. CASE ~(e <= d)
        <5>1. e = d + 1
          BY <3>6, <4>2
        <5> QED
          BY <3>3, <3>9, <4>2, <5>1
      <4> QED
        BY <4>1, <4>2
    <3>11. Bucket(k, u, l)' = s \o <<y>>
      <4> HIDE DEF s
      <4> QED
        BY <3>5, <3>9, <3>10
    <3>12. Enumerates(<<y>>, {e0}, LM[k0])
      BY <1>a, EnumOne
    <3>13. Enumerates(s \o <<y>>, Put(k, u, l) \cup {e0}, LM[k])
      <4>1. Put(k, u, l) \cap {e0} = {}
        BY <1>5, <3>1
      <4>2. Enumerates(s, Put(k, u, l), LM[k]) /\ Enumerates(<<y>>, {e0}, LM[k])
        BY <2>4, <3>1, <3>12
      <4> HIDE DEF s
      <4> QED
        BY <3>7, <3>8, <4>1, <4>2, EnumConcat
    <3> QED
      BY <1>5, <3>1, <3>11, <3>13
  <2> QED
    BY <2>12, <2>13
<1>9. Multiplied'
  <2>1. Multiplied
    BY <1>0, <1>1, <1>3, <1>d DEF PartInv
  <2> QED
    BY <1>0, <1>1, <1>3, <1>d, <2>1, SameTask DEF Multiplied
<1>10. \A u \in Parter : cursor'[u] \in ShareStart(n(side), u) .. ShareStart(n(side), u + 1)
  <2>1. \A u \in Parter : cursor[u] \in ShareStart(n(side), u) .. ShareStart(n(side), u + 1)
    BY <1>0, <1>1, <1>3, <1>d DEF PartInv
  <2> QED
    BY <1>0, <1>1, <1>3, <1>d, <1>2, <2>1
<1>11. n(side)' = n(side) /\ BucketsFit(slice)' = BucketsFit(slice) /\ pc' # "subjoin"
  BY <1>0, <1>1, <1>3, <1>d, SameTask
<1> QED
  BY <1>0, <1>1, <1>3, <1>d, <1>7, <1>8, <1>9, <1>10, <1>11 DEF PartInv

\* Nothing happens to the buckets.
LEMMA PartKept ==
  ASSUME PartInv, Same, UNCHANGED listVars, pc' \in {"partition", "subjoin"},
         pc \in {"partition", "subjoin"},
         pc' = "subjoin" => side = 1 /\ \A t \in Parter : cursor[t] = ShareStart(n(1), t + 1)
  PROVE  PartInv'
<1>0. LM' = LM /\ side' = side /\ cursor' = cursor /\ count' = count /\ scratch' = scratch
  BY DEF listVars
<1>1. /\ (\A k : n(k)' = n(k)) /\ \A k, e : Image(slice, k, e)' = Image(slice, k, e)
      /\ \A k, t, part : BucketStart(k, t, part)' = BucketStart(k, t, part)
      /\ BucketsFit(slice)' = BucketsFit(slice)
  BY SameTask
<1>2. \A k, t, part : Put(k, t, part)' = Put(k, t, part)
  <2>1. \A k, t : Reached(k, t)' = Reached(k, t)
    BY <1>0, <1>1 DEF Reached
  <2> QED
    BY <1>1, <2>1 DEF Put
<1>3. \A k, t, part : Bucket(k, t, part)' = Bucket(k, t, part)
  BY <1>0, <1>1 DEF Bucket
<1>4. Multiplied'
  BY <1>0, <1>1 DEF PartInv, Multiplied
<1>5. Counted'
  BY <1>0, <1>1, <1>2 DEF PartInv, Counted
<1>6. BucketsFit(slice) => Filled'
  BY <1>0, <1>1, <1>2, <1>3 DEF PartInv, Filled
<1>7. \A t \in Parter : cursor'[t] \in ShareStart(n(side), t) .. ShareStart(n(side), t + 1)
  BY <1>0, <1>1 DEF PartInv
<1>8. pc' = "subjoin" => side' = 1 /\ \A t \in Parter : cursor'[t] = ShareStart(n(1), t + 1)
  BY <1>0, <1>1
<1>9. n(side)' = n(side) /\ n(1)' = n(1)
  BY <1>0, <1>1 DEF n
<1> QED
  BY <1>4, <1>5, <1>6, <1>7, <1>8, <1>9, <1>1 DEF PartInv

\* The loop over a side begins, with empty buckets; those of side 0 keep what they hold.
LEMMA EnterPart ==
  ASSUME TypeInv, Same, NEW m \in Side, EnterPartition(m), pc' = "partition",
         Multiplied', scratch' = scratch,
         m = 1 => /\ PartInv /\ pc = "partition" /\ side = 0 /\ LM' = LM
                  /\ \A t \in Parter : cursor[t] = ShareStart(n(0), t + 1)
  PROVE  PartInv'
<1>0. /\ (\A k : n(k)' = n(k)) /\ \A k, e : Image(slice, k, e)' = Image(slice, k, e)
      /\ \A k, t, part : BucketStart(k, t, part)' = BucketStart(k, t, part)
      /\ BucketsFit(slice)' = BucketsFit(slice)
  BY SameTask
<1>1. /\ side' = m
      /\ \A t \in Parter : cursor'[t] = ShareStart(n(m), t)
      /\ \A t \in Parter, part \in Partition : count'[m][t][part] = BucketStart(m, t, part)
      /\ \A k \in Side : k # m => count'[k] = count[k]
  BY DEF EnterPartition, TypeInv
<1>2. /\ n(m) \in Nat
      /\ \A t \in Parter : /\ ShareStart(n(m), t) \in Nat /\ ShareStart(n(m), t + 1) \in Nat
                           /\ ShareStart(n(m), t) <= ShareStart(n(m), t + 1)
  <2>1. n(m) \in Nat
    BY TaskType DEF TypeInv
  <2>2. \A t \in Parter : t \in 0 .. T_part /\ t + 1 \in 0 .. T_part /\ t <= t + 1
    BY Sizes DEF Parter
  <2> QED
    BY <2>1, <2>2, Shares
<1>3. \A t \in Parter, part \in Partition :
         Put(m, t, part)' = {} /\ BucketStart(m, t, part) \in Nat
         /\ count'[m][t][part] = BucketStart(m, t, part) + Cardinality(Put(m, t, part)')
         /\ Bucket(m, t, part)' = <<>>
  <2> SUFFICES ASSUME NEW t \in Parter, NEW part \in Partition
               PROVE  Put(m, t, part)' = {} /\ BucketStart(m, t, part) \in Nat
                      /\ count'[m][t][part] = BucketStart(m, t, part) + Cardinality(Put(m, t, part)')
                      /\ Bucket(m, t, part)' = <<>>
    OBVIOUS
  <2>1. ~(m < m)
    BY DEF Side
  <2>2. Reached(m, t)' = ShareStart(n(m), t)
    BY <1>1, <2>1 DEF Reached
  <2>3. ShareStart(n(m), t) + 1 .. ShareStart(n(m), t) = {}
    BY <1>2
  <2>4. Put(m, t, part)' = {}
    BY <1>0, <2>2, <2>3 DEF Put
  <2>5. BucketStart(m, t, part) \in Nat
    BY BlockType, WordsHavePartitions DEF TypeInv
  <2>6. count'[m][t][part] = BucketStart(m, t, part)
    BY <1>1
  <2>7. Cardinality(Put(m, t, part)') = 0
    BY <2>4, FS_EmptySet
  <2>8. count'[m][t][part] - BucketStart(m, t, part)' = 0
    BY <1>0, <2>5, <2>6
  <2>9. Bucket(m, t, part)' = [e \in 1 .. 0 |-> scratch[m][BucketStart(m, t, part) + e - 1]]
    BY <1>0, <2>8 DEF Bucket
  <2>10. Bucket(m, t, part)' = <<>>
    BY <2>9
  <2> QED
    BY <2>4, <2>5, <2>6, <2>7, <2>10
<1>4. ASSUME NEW k \in Side, k < m
      PROVE  /\ k = 0 /\ m = 1 /\ LM' = LM /\ PartInv /\ pc = "partition" /\ side = 0
             /\ \A t, part : t \in Parter => Put(k, t, part)' = Put(k, t, part)
             /\ \A t \in Parter, part \in Partition : Bucket(k, t, part)' = Bucket(k, t, part)
             /\ count'[k] = count[k]
  <2>1. k = 0 /\ m = 1
    BY <1>4 DEF Side
  <2>2. LM' = LM /\ PartInv /\ pc = "partition" /\ side = 0 /\ count'[k] = count[k]
    BY <1>1, <2>1
  <2>3. \A t \in Parter : Reached(k, t)' = Reached(k, t)
    BY <1>0, <1>1, <2>1, <2>2 DEF Reached
  <2>4. \A t, part : t \in Parter => Put(k, t, part)' = Put(k, t, part)
    BY <1>0, <2>3 DEF Put
  <2>5. \A t \in Parter, part \in Partition : Bucket(k, t, part)' = Bucket(k, t, part)
    BY <1>0, <2>2 DEF Bucket
  <2> QED
    BY <2>1, <2>2, <2>4, <2>5
<1>5. \A k \in Side : k <= m => k = m \/ k < m
  BY DEF Side
<1>6. Counted'
  <2> SUFFICES ASSUME NEW k \in Side, NEW t \in Parter, NEW part \in Partition, k <= m
               PROVE  count'[k][t][part] = BucketStart(k, t, part) + Cardinality(Put(k, t, part)')
    BY <1>0, <1>1 DEF Counted
  <2>1. CASE k = m
    BY <1>3, <2>1
  <2>2. CASE k < m
    <3>1. k <= side
      BY <1>4, <2>2
    <3>2. count[k][t][part] = BucketStart(k, t, part) + Cardinality(Put(k, t, part))
      BY <1>4, <2>2, <3>1 DEF PartInv, Counted
    <3>3. count'[k] = count[k] /\ Put(k, t, part)' = Put(k, t, part)
      BY <1>4, <2>2
    <3> QED
      BY <3>2, <3>3
  <2> QED
    BY <1>5, <2>1, <2>2
<1>7. ASSUME BucketsFit(slice) PROVE Filled'
  <2> SUFFICES ASSUME NEW k \in Side, NEW t \in Parter, NEW part \in Partition, k <= m
               PROVE  Enumerates(Bucket(k, t, part)', Put(k, t, part)', LM'[k])
    BY <1>1 DEF Filled
  <2>1. CASE k = m
    BY <1>3, <2>1, EnumNothing
  <2>2. CASE k < m
    <3>1. k <= side
      BY <1>4, <2>2
    <3>2. Enumerates(Bucket(k, t, part), Put(k, t, part), LM[k])
      BY <1>4, <1>7, <2>2, <3>1 DEF PartInv, Filled
    <3>3. Bucket(k, t, part)' = Bucket(k, t, part) /\ Put(k, t, part)' = Put(k, t, part) /\ LM' = LM
      BY <1>4, <2>2
    <3> QED
      BY <3>2, <3>3
  <2> QED
    BY <1>5, <2>1, <2>2
<1>8. \A t \in Parter : cursor'[t] \in ShareStart(n(m), t) .. ShareStart(n(m), t + 1)
  BY <1>1, <1>2
<1>9. n(side)' = n(m) /\ pc' # "subjoin"
  BY <1>0, <1>1 DEF n
<1> QED
  BY <1>0, <1>1, <1>6, <1>7, <1>8, <1>9 DEF PartInv

\* The types hold initially ...
LEMMA TypeInit ==
  ASSUME Init
  PROVE  TypeInv
<1>1. \A k \in Side : n(k) \in Nat
  BY TaskType DEF Init
<1>2. Len(task.slices) \in Nat /\ (task.slices # <<>> => 1 <= Len(task.slices))
  <2>1. task.slices \in Seq(SliceType)
    BY JouxAssumption DEF Init
  <2> QED
    BY <2>1, EmptySeq
<1>3. T_part * fan_out \in Nat \ {0}
  BY Sizes, WordsHavePartitions
<1>4. tsize \in [Side -> Nat]
  BY <1>1, <1>3, BoundType DEF Init
<1>5. pc \in {"gemm", "done"} /\ (Busy => task.slices # <<>>)
  BY DEF Init, Busy
<1>6. /\ cursor \in [Parter -> Nat] /\ count \in [Side -> [Parter -> [Partition -> Nat]]]
      /\ scratch = [k \in Side |-> scratch[k]]
      /\ \A k \in Side : scratch[k] \in [0 .. ScratchSize(k) - 1 -> Word \cup {Garbage}]
      /\ preselected = [t \in Joiner |-> preselected[t]]
  BY DEF Init
<1>7. task \in Tasks /\ nslice = 1 /\ side = 0 /\ nexti = 0
  BY DEF Init
<1> QED
  BY <1>2, <1>4, <1>5, <1>6, <1>7 DEF TypeInv, Phases, Side

\* ... in steps that leave the lists alone ...
LEMMA TypeKept ==
  ASSUME TypeInv, Same, UNCHANGED <<listVars, nexti>>, pc' \in Phases,
         preselected' = [t \in Joiner |-> preselected'[t]],
         Busy' => Busy, pc' = "checkup" => pc = "checkup" \/ nexti = fan_out, fan_out \in Nat
  PROVE  TypeInv'
<1>1. \A k : ScratchSize(k)' = ScratchSize(k)
  BY SameTask
<1> QED
  BY <1>1 DEF TypeInv, Same, listVars

\* The next word of a thread is one of the side's, and has a partition.
LEMMA DispatchWord ==
  ASSUME TypeInv, PartInv, NEW t \in Parter, Dispatch(t)
  PROVE  /\ side \in Side /\ cursor[t] \in Nat
         /\ cursor[t] + 1 \in ShareStart(n(side), t) + 1 .. ShareStart(n(side), t + 1)
         /\ cursor[t] + 1 \in 1 .. n(side)
         /\ LM[side][cursor[t] + 1] = Image(slice, side, cursor[t] + 1)
         /\ LM[side][cursor[t] + 1] \in Word
         /\ TopValue(LM[side][cursor[t] + 1], p) \in Partition
<1>1. pc = "partition" /\ cursor[t] < ShareStart(n(side), t + 1) /\ cursor[t] \in Nat /\ side \in Side
  BY DEF Dispatch, TypeInv
<1>2. n(side) \in Nat /\ ShareStart(n(side), t) \in Nat /\ ShareStart(n(side), t + 1) \in Nat
  <2>1. n(side) \in Nat
    BY <1>1, TaskType DEF TypeInv
  <2>2. t \in 0 .. T_part /\ t + 1 \in 0 .. T_part
    BY Sizes DEF Parter
  <2> QED
    BY <2>1, <2>2, Shares
<1>3. cursor[t] + 1 \in ShareStart(n(side), t) + 1 .. ShareStart(n(side), t + 1)
  BY <1>1, <1>2 DEF PartInv
<1>4. cursor[t] + 1 \in 1 .. n(side)
  BY <1>2, <1>3, ShareOfOne
<1>5. LM[side][cursor[t] + 1] = Image(slice, side, cursor[t] + 1)
  BY <1>1, <1>4 DEF PartInv, Multiplied
<1>6. LM[side][cursor[t] + 1] \in Word
  BY <1>5, ImageType
<1> QED
  BY <1>1, <1>3, <1>4, <1>5, <1>6, WordsHavePartitions

\* ... and in every step.
LEMMA TypeNext ==
  ASSUME TypeInv, PartInv, [Next]_vars
  PROVE  TypeInv'
<1>0. fan_out \in Nat /\ \A k \in Side : n(k) \in Nat
  BY TaskType, WordsHavePartitions DEF TypeInv
<1>1. \A k \in Side, t \in Parter : ShareStart(n(k), t) \in Nat
  <2>1. \A t \in Parter : t \in 0 .. T_part
    BY Sizes DEF Parter
  <2> QED
    BY <1>0, <2>1, Shares
<1>2. \A k \in Side, t \in Parter, part \in Partition : BucketStart(k, t, part) \in Nat
  BY BlockType, WordsHavePartitions DEF TypeInv
<1>3. ASSUME NEW k \in Side, EnterPartition(k)
      PROVE  /\ side' \in Side /\ cursor' \in [Parter -> Nat]
             /\ count' \in [Side -> [Parter -> [Partition -> Nat]]]
  <2>1. count \in [Side -> [Parter -> [Partition -> Nat]]]
    BY DEF TypeInv
  <2> QED
    BY <1>1, <1>2, <1>3, <2>1 DEF EnterPartition
<1>4. CASE Gemm
  <2>1. Same /\ pc = "gemm" /\ pc' = "partition" /\ scratch' = scratch /\ nexti' = nexti /\ preselected' = preselected
        /\ EnterPartition(0)
    BY <1>4 DEF Gemm, Same, joinVars
  <2>2. \A k : ScratchSize(k)' = ScratchSize(k)
    BY <2>1, SameTask
  <2>3. 0 \in Side
    BY DEF Side
  <2> QED
    BY <1>3, <2>1, <2>2, <2>3 DEF TypeInv, Same, Busy, Phases
<1>5. ASSUME NEW t \in Parter, Dispatch(t) PROVE TypeInv'
  <2>1. Same /\ pc = "partition" /\ pc' \in {"partition", "undefined"} /\ nexti' = nexti
        /\ preselected' = preselected /\ side' = side /\ cursor' = [cursor EXCEPT ![t] = @ + 1]
    BY <1>5 DEF Dispatch, Same, joinVars
  <2>2. \A k : ScratchSize(k)' = ScratchSize(k)
    BY <2>1, SameTask
  <2>3. PICK k \in Side, y \in Word, part \in Partition :
          /\ k = side
          /\ count' = [count EXCEPT ![k][t][part] = @ + 1]
          /\ scratch' = scratch \/ \E idx : scratch' = [scratch EXCEPT ![k][idx] = y]
    <3>1. side \in Side /\ LM[side][cursor[t] + 1] \in Word
          /\ TopValue(LM[side][cursor[t] + 1], p) \in Partition
      BY <1>5, DispatchWord
    <3> QED
      BY <1>5, <3>1 DEF Dispatch
  <2>4. cursor' \in [Parter -> Nat]
    BY <2>1 DEF TypeInv
  <2>5. count' \in [Side -> [Parter -> [Partition -> Nat]]]
    <3>1. count \in [Side -> [Parter -> [Partition -> Nat]]]
      BY DEF TypeInv
    <3> QED
      BY <2>3, <3>1
  <2>6. /\ scratch' = [kk \in Side |-> scratch'[kk]]
        /\ \A kk \in Side : scratch'[kk] \in [0 .. ScratchSize(kk) - 1 -> Word \cup {Garbage}]
    <3>0. scratch = [kk \in Side |-> scratch[kk]]
          /\ \A kk \in Side : scratch[kk] \in [0 .. ScratchSize(kk) - 1 -> Word \cup {Garbage}]
      BY DEF TypeInv
    <3>1. CASE scratch' = scratch
      BY <3>0, <3>1
    <3>2. ASSUME NEW idx, scratch' = [scratch EXCEPT ![k][idx] = y]
          PROVE  /\ scratch' = [kk \in Side |-> scratch'[kk]]
                 /\ \A kk \in Side : scratch'[kk] \in [0 .. ScratchSize(kk) - 1 -> Word \cup {Garbage}]
      <4>1. scratch' = [kk \in Side |-> scratch'[kk]]
        BY <3>0, <3>2
      <4>2. ASSUME NEW kk \in Side
            PROVE  scratch'[kk] \in [0 .. ScratchSize(kk) - 1 -> Word \cup {Garbage}]
        <5>1. scratch'[kk] = scratch[kk] \/ scratch'[kk] = [scratch[kk] EXCEPT ![idx] = y]
          BY <3>0, <3>2
        <5>2. scratch[kk] \in [0 .. ScratchSize(kk) - 1 -> Word \cup {Garbage}]
          BY <3>0
        <5> QED
          BY <5>1, <5>2
      <4> QED
        BY <4>1, <4>2
    <3> QED
      BY <2>3, <3>1, <3>2
  <2>7. pc' \in Phases /\ pc' # "checkup" /\ Busy
    BY <2>1 DEF Phases, Busy
  <2>8. nexti' \in Nat /\ preselected' = [u \in Joiner |-> preselected'[u]] /\ side' \in Side
    BY <2>1 DEF TypeInv
  <2>9. task' \in Tasks /\ nslice' \in Nat \ {0} /\ nslice' <= Len(task'.slices) /\ tsize' \in [Side -> Nat]
    BY <2>1, <2>7 DEF TypeInv, Same
  <2> QED
    BY <2>2, <2>4, <2>5, <2>6, <2>7, <2>8, <2>9 DEF TypeInv
<1>6. CASE Partitioned
  <2>1. Same /\ pc = "partition" /\ pc' \in {"partition", "subjoin"} /\ scratch' = scratch
    BY <1>6 DEF Partitioned, Same
  <2>2. \A k : ScratchSize(k)' = ScratchSize(k)
    BY <2>1, SameTask
  <2>3. 1 \in Side
    BY DEF Side
  <2>4. side' \in Side /\ cursor' \in [Parter -> Nat] /\ count' \in [Side -> [Parter -> [Partition -> Nat]]]
    <3>1. CASE EnterPartition(1)
      BY <1>3, <2>3, <3>1
    <3>2. CASE UNCHANGED <<side, count, cursor>>
      BY <3>2 DEF TypeInv
    <3> QED
      BY <1>6, <3>1, <3>2 DEF Partitioned
  <2>5. nexti' \in Nat /\ preselected' = [t \in Joiner |-> preselected'[t]]
    BY <1>6 DEF Partitioned, TypeInv, joinVars
  <2> QED
    BY <2>1, <2>2, <2>4, <2>5 DEF TypeInv, Same, Busy, Phases
<1>7. ASSUME NEW t \in Joiner, Subjoin(t) PROVE TypeInv'
  <2>1. Same /\ pc = "subjoin" /\ pc' \in {"subjoin", "hang", "undefined"} /\ UNCHANGED listVars
    BY <1>7 DEF Subjoin, Same
  <2>2. nexti' \in Nat
    <3>1. nexti' = Min({fan_out, nexti + CHUNK}) /\ nexti \in Nat /\ CHUNK \in Nat
      BY <1>7, JouxAssumption DEF Subjoin, TypeInv
    <3> QED
      BY <1>0, <3>1, MinOfTwo
  <2>3. preselected' = [u \in Joiner |-> preselected'[u]]
    BY <1>7 DEF Subjoin, TypeInv
  <2>4. \A k : ScratchSize(k)' = ScratchSize(k)
    BY <2>1, SameTask
  <2> QED
    BY <2>1, <2>2, <2>3, <2>4 DEF TypeInv, Same, Busy, Phases, listVars
<1>8. CASE Joined
  <2>1. Same /\ UNCHANGED <<listVars, nexti>> /\ preselected' = preselected /\ pc = "subjoin" /\ pc' = "checkup"
        /\ nexti = fan_out
    BY <1>8 DEF Joined, Same, joinVars
  <2> QED
    BY <1>0, <2>1, TypeKept DEF TypeInv, Busy, Phases
<1>9. ASSUME NEW t \in Joiner, Look(t) \/ Store(t) \/ Copy(t) \/ Load(t) \/ Bump(t) PROVE TypeInv'
  <2>1. Same /\ UNCHANGED <<listVars, nexti>> /\ preselected' = preselected /\ pc = "checkup"
        /\ pc' \in {"checkup", "undefined"}
    BY <1>9 DEF Look, Store, Copy, Load, Bump, Same, joinVars
  <2> QED
    BY <1>0, <2>1, TypeKept DEF TypeInv, Busy, Phases
<1>10. CASE Checked \/ Lift
  <2>1. Same /\ UNCHANGED <<listVars, nexti>> /\ preselected' = preselected /\ pc \in {"checkup", "lift"}
        /\ pc' \in {"lift", "undefined"}
    BY <1>10 DEF Checked, Lift, Same, joinVars
  <2> QED
    BY <1>0, <2>1, TypeKept DEF TypeInv, Busy, Phases
<1>11. CASE EndSlice
  <2>1. /\ task' = task /\ tsize' = tsize /\ UNCHANGED <<listVars, nexti>>
        /\ preselected' = [t \in Joiner |-> <<>>] /\ nslice' = nslice + 1
        /\ \/ nslice' <= Len(task.slices) /\ pc' = "gemm"
           \/ pc' = "done"
    BY <1>11 DEF EndSlice, NextSlice
  <2>2. \A k \in Side : ScratchSize(k)' = ScratchSize(k)
    BY <2>1 DEF ScratchSize, psize
  <2>3. preselected' = [t \in Joiner |-> preselected'[t]] /\ nslice' \in Nat \ {0}
    BY <2>1 DEF TypeInv
  <2>4. pc' \in Phases /\ pc' # "checkup" /\ (Busy' => nslice' <= Len(task'.slices))
    BY <2>1 DEF Phases, Busy
  <2> QED
    BY <2>1, <2>2, <2>3, <2>4 DEF TypeInv, listVars
<1>12. CASE UNCHANGED vars
  <2>1. Same /\ UNCHANGED <<listVars, nexti>> /\ preselected' = preselected /\ pc' = pc
    BY <1>12 DEF vars, Same, joinVars
  <2> QED
    BY <1>0, <2>1, TypeKept DEF TypeInv, Busy
<1> QED
  BY <1>4, <1>5, <1>6, <1>7, <1>8, <1>9, <1>10, <1>11, <1>12 DEF Next, Stop

\* Every step keeps what is known of phase 2.
LEMMA PartNext ==
  ASSUME TypeInv, PartInv, [Next]_vars
  PROVE  PartInv'
<1>0. pc' \notin {"partition", "subjoin"} => PartInv'
  BY DEF PartInv
<1>1. CASE Gemm
  <2>1. Same /\ pc = "gemm" /\ pc' = "partition" /\ scratch' = scratch /\ EnterPartition(0)
        /\ LM' = [k \in Side |-> [e \in 1 .. n(k) |-> naive_gemv(task.L[k][e], slice.M)]]
    BY <1>1 DEF Gemm, Same
  <2>2. \A k : n(k)' = n(k) /\ \A e : Image(slice, k, e)' = Image(slice, k, e)
    BY <2>1, SameTask
  <2>3. \A k \in Side : n(k) \in Nat
    BY TaskType DEF TypeInv
  <2>4. Multiplied'
    BY <2>1, <2>2, <2>3 DEF Multiplied, Image
  <2>5. 0 \in Side
    BY DEF Side
  <2> QED
    BY <2>1, <2>4, <2>5, EnterPart
<1>2. ASSUME NEW t \in Parter, Dispatch(t) PROVE PartInv'
  <2>1. pc = "partition" /\ pc' \in {"partition", "undefined"}
    BY <1>2 DEF Dispatch
  <2> QED
    BY <1>0, <1>2, <2>1, DispatchPart
<1>3. CASE Partitioned
  <2>1. Same /\ pc = "partition" /\ LM' = LM /\ scratch' = scratch
        /\ \A t \in Parter : cursor[t] = ShareStart(n(side), t + 1)
    BY <1>3 DEF Partitioned, Same
  <2>2. CASE side = 0 /\ EnterPartition(1) /\ UNCHANGED <<pc, joinVars>>
    <3>1. \A k : n(k)' = n(k) /\ \A e : Image(slice, k, e)' = Image(slice, k, e)
      BY <2>1, SameTask
    <3>2. Multiplied
      BY <2>1 DEF PartInv
    <3>3. Multiplied'
      BY <2>1, <3>1, <3>2 DEF Multiplied
    <3>4. 1 \in Side /\ pc' = "partition"
      BY <2>1, <2>2 DEF Side
    <3> QED
      BY <2>1, <2>2, <3>3, <3>4, EnterPart
  <2>3. CASE side = 1 /\ pc' = "subjoin" /\ UNCHANGED <<side, count, cursor>>
    <3>1. UNCHANGED listVars
      BY <2>1, <2>3 DEF listVars
    <3> QED
      BY <2>1, <2>3, <3>1, PartKept
  <2> QED
    BY <1>3, <2>2, <2>3 DEF Partitioned
<1>4. ASSUME NEW t \in Joiner, Subjoin(t) PROVE PartInv'
  <2>1. Same /\ pc = "subjoin" /\ pc' \in {"subjoin", "hang", "undefined"} /\ UNCHANGED listVars
    BY <1>4 DEF Subjoin, Same
  <2>2. side = 1 /\ \A u \in Parter : cursor[u] = ShareStart(n(1), u + 1)
    BY <2>1 DEF PartInv
  <2> QED
    BY <1>0, <2>1, <2>2, PartKept
<1>5. CASE Joined
  BY <1>0, <1>5 DEF Joined
<1>6. ASSUME NEW t \in Joiner, Look(t) \/ Store(t) \/ Copy(t) \/ Load(t) \/ Bump(t) PROVE PartInv'
  BY <1>0, <1>6 DEF Look, Store, Copy, Load, Bump
<1>7. CASE Checked \/ Lift
  BY <1>0, <1>7 DEF Checked, Lift
<1>8. CASE EndSlice
  BY <1>0, <1>8 DEF EndSlice
<1>9. CASE UNCHANGED vars
  <2>1. Same /\ UNCHANGED listVars /\ pc' = pc
    BY <1>9 DEF vars, Same
  <2>2. pc = "subjoin" => side = 1 /\ \A u \in Parter : cursor[u] = ShareStart(n(1), u + 1)
    BY DEF PartInv
  <2> QED
    BY <1>0, <2>1, <2>2, PartKept
<1> QED
  BY <1>1, <1>2, <1>3, <1>4, <1>5, <1>6, <1>7, <1>8, <1>9 DEF Next, Stop

-----------------------------------------------------------------------------
\* When the sides are partitioned, every partition is in its buckets.
LEMMA AllHeld ==
  ASSUME TypeInv, PartInv, pc = "subjoin", BucketsFit(slice), NEW part \in Partition
  PROVE  Multiplied /\ BucketsHold(part)
<1>1. side = 1 /\ Multiplied /\ Filled
  BY DEF PartInv
<1>2. ASSUME NEW k \in Side, NEW t \in Parter
      PROVE  /\ Bucket(k, t, part) \in Seq(Word \cup {Garbage})
             /\ Enumerates(Bucket(k, t, part), Share(k, t, part), LM[k])
  <2>1. k <= side
    BY <1>1 DEF Side
  <2>2. Put(k, t, part) = Share(k, t, part)
    BY <2>1, PutType
  <2>3. Enumerates(Bucket(k, t, part), Put(k, t, part), LM[k])
    BY <1>1, <2>1 DEF Filled
  <2>4. Bucket(k, t, part) \in Seq(Word \cup {Garbage})
    BY <2>1, BucketType
  <2> QED
    BY <2>2, <2>3, <2>4
<1> QED
  BY <1>1, <1>2 DEF BucketsHold

\* What a thread takes out of partitions a up to b, not included.
JoinedFrom(a, b) ==
    {q \in Pairs : /\ Joins(slice, q[1], q[2])
                   /\ a <= TopValue(Image(slice, 0, q[1]), p) /\ TopValue(Image(slice, 0, q[1]), p) < b}

\* A chunk of partitions gives each of its joined pairs once.
LEMMA ChunkLists ==
  ASSUME TypeInv, PartInv, pc = "subjoin", BucketsFit(slice),
         NEW a \in Nat, NEW b \in Nat, a < b, b <= fan_out,
         NEW got, got = FlattenSeq([e \in 1 .. b - a |-> subjoin(a + e - 1)])
  PROVE  got \in Seq(Triples) /\ Enumerates(got, JoinedFrom(a, b), TripleOf)
<1>1. PICK N \in Nat : N = b - a
  OBVIOUS
<1> DEFINE seqs == [e \in 1 .. N |-> subjoin(a + e - 1)]
           X == [e \in 1 .. N |-> JoinsIn(a + e - 1)]
<1>2. \A e \in 1 .. N : a + e - 1 \in Partition
  BY <1>1, WordsHavePartitions DEF Partition
<1>3. slice \in SliceType /\ slice.l \in Int /\ slice.l >= p
      /\ DOMAIN task.L[0] = 1 .. n(0) /\ DOMAIN task.L[1] = 1 .. n(1)
  <2>1. nslice \in 1 .. Len(task.slices)
    BY TaskType DEF TypeInv, Busy
  <2> QED
    BY <2>1, TaskType DEF TypeInv, slice, Side
<1>4. ASSUME NEW e \in 1 .. N
      PROVE  subjoin(a + e - 1) \in Seq(Triples) /\ Enumerates(subjoin(a + e - 1), JoinsIn(a + e - 1), TripleOf)
  BY <1>2, <1>3, AllHeld, SubjoinLists
<1>5. seqs \in [1 .. N -> Seq(Triples)]
  BY <1>4
<1>6. seqs \in Seq(Seq(Triples)) /\ Len(seqs) = N
  BY <1>5, FunctionSeq
<1>7. \A m, k \in 1 .. N : m # k => X[m] \cap X[k] = {}
  <2> SUFFICES ASSUME NEW m \in 1 .. N, NEW k \in 1 .. N, m # k, NEW q, q \in X[m], q \in X[k] PROVE FALSE
    OBVIOUS
  <2>1. a + m - 1 = TopValue(Image(slice, 0, q[1]), p) /\ a + k - 1 = TopValue(Image(slice, 0, q[1]), p)
    BY DEF JoinsIn
  <2>2. a + m - 1 = a + k - 1
    BY <2>1
  <2> QED
    BY <2>2
<1>8. \A m \in 1 .. N : Enumerates(seqs[m], X[m], TripleOf)
  BY <1>4
<1>9. \A q : q \in JoinedFrom(a, b) <=> \E m \in 1 .. N : q \in X[m]
  <2> SUFFICES ASSUME NEW q PROVE q \in JoinedFrom(a, b) <=> \E m \in 1 .. N : q \in X[m]
    OBVIOUS
  <2>1. ASSUME NEW m \in 1 .. N, q \in X[m] PROVE q \in JoinedFrom(a, b)
    <3>1. q \in Pairs /\ Joins(slice, q[1], q[2]) /\ TopValue(Image(slice, 0, q[1]), p) = a + m - 1
      BY <2>1 DEF JoinsIn
    <3>2. a <= a + m - 1 /\ a + m - 1 < b
      BY <1>1
    <3> QED
      BY <3>1, <3>2 DEF JoinedFrom
  <2>2. ASSUME q \in JoinedFrom(a, b) PROVE \E m \in 1 .. N : q \in X[m]
    <3>1. PICK part \in Partition : /\ part = TopValue(Image(slice, 0, q[1]), p) /\ a <= part /\ part < b
                                 /\ q \in Pairs /\ Joins(slice, q[1], q[2])
      BY <2>2, ImageType, WordsHavePartitions DEF JoinedFrom
    <3>2. part \in Nat
      BY DEF Partition
    <3>3. PICK m \in 1 .. N : m = part - a + 1 /\ a + m - 1 = part
      BY <1>1, <3>1, <3>2
    <3>4. q \in JoinsIn(part)
      BY <3>1 DEF JoinsIn
    <3> QED
      BY <3>3, <3>4
  <2> QED
    BY <2>1, <2>2
<1>10. got = FlattenSeq(seqs)
  BY <1>1
<1>11. PICK s, Y, v, Z : s = seqs /\ Y = X /\ v = TripleOf /\ Z = JoinedFrom(a, b)
  OBVIOUS
<1>12. /\ s \in Seq(Seq(Triples)) /\ N = Len(s)
       /\ \A m, k \in 1 .. N : m # k => Y[m] \cap Y[k] = {}
       /\ \A m \in 1 .. N : Enumerates(s[m], Y[m], v)
       /\ \A q : q \in Z <=> \E m \in 1 .. N : q \in Y[m]
  BY <1>6, <1>7, <1>8, <1>9, <1>11
<1>13. FlattenSeq(s) \in Seq(Triples) /\ Enumerates(FlattenSeq(s), Z, v)
  BY ONLY <1>12, FlattenLists
<1> QED
  BY <1>10, <1>11, <1>13

\* Steps outside phase 3 leave what the threads hold alone.
LEMMA JoinKept ==
  ASSUME JoinInv, Same, nexti' = nexti, preselected' = preselected,
         pc' \in {"subjoin", "checkup"} => pc \in {"subjoin", "checkup"}
  PROVE  JoinInv'
<1>1. /\ Pairs' = Pairs /\ TripleOf' = TripleOf /\ BucketsFit(slice)' = BucketsFit(slice)
      /\ \A m : JoinedBelow(m)' = JoinedBelow(m)
  BY SameTask
<1>2. PICK m : m = nexti
  OBVIOUS
<1>3. JoinedBelow(nexti)' = JoinedBelow(m) /\ JoinedBelow(nexti) = JoinedBelow(m)
  BY <1>1, <1>2
<1>4. \A P : Holding(P) => Holding(P)'
  BY <1>1, <1>3 DEF Holding
<1> QED
  BY <1>1, <1>4 DEF JoinInv

\* A thread that takes a chunk holds its pairs on top of its own, and nobody else has them.
LEMMA SubjoinJoin ==
  ASSUME TypeInv, PartInv, JoinInv, NEW t \in Joiner, Subjoin(t)
  PROVE  JoinInv'
<1>0. Same /\ pc = "subjoin" /\ nexti \in Nat /\ nexti < fan_out /\ fan_out \in Nat /\ CHUNK \in Nat \ {0}
  BY JouxAssumption, WordsHavePartitions DEF Subjoin, Same, TypeInv
<1>1. /\ Pairs' = Pairs /\ TripleOf' = TripleOf /\ BucketsFit(slice)' = BucketsFit(slice)
      /\ \A m : JoinedBelow(m)' = JoinedBelow(m)
  BY <1>0, SameTask
<1>2. PICK b \in Nat : nexti' = b /\ nexti < b /\ b <= fan_out
  <2>1. nexti' = Min({fan_out, nexti + CHUNK})
    BY DEF Subjoin
  <2>2. Min({fan_out, nexti + CHUNK}) = IF fan_out <= nexti + CHUNK THEN fan_out ELSE nexti + CHUNK
    BY <1>0, MinOfTwo
  <2> QED
    BY <1>0, <2>1, <2>2
<1> SUFFICES ASSUME pc' \in {"subjoin", "checkup"}, BucketsFit(slice)
             PROVE  \E P \in [Joiner -> SUBSET Pairs] : Holding(P)'
  BY <1>1 DEF JoinInv
<1>3. PICK got : /\ got = FlattenSeq([e \in 1 .. b - nexti |-> subjoin(nexti + e - 1)])
                 /\ preselected' = [preselected EXCEPT ![t] = @ \o got]
  BY <1>0, <1>2 DEF Subjoin
<1>4. PICK P \in [Joiner -> SUBSET Pairs] : Holding(P)
  BY <1>0 DEF JoinInv
<1>5. PICK G : G = JoinedFrom(nexti, b)
  OBVIOUS
<1>6. got \in Seq(Triples) /\ Enumerates(got, G, TripleOf)
  BY <1>0, <1>2, <1>3, <1>5, ChunkLists
<1>7. G \subseteq Pairs /\ G \cap JoinedBelow(nexti) = {}
      /\ \A q : q \in JoinedBelow(b) <=> q \in JoinedBelow(nexti) \/ q \in G
  <2>1. \A q : TopValue(Image(slice, 0, q[1]), p) \in Nat
    BY ImageType, WordsHavePartitions DEF Partition
  <2>2. G \subseteq Pairs
    BY <1>5 DEF JoinedFrom
  <2>3. ASSUME NEW q, q \in G, q \in JoinedBelow(nexti) PROVE FALSE
    BY <1>0, <1>5, <2>1, <2>3 DEF JoinedFrom, JoinedBelow
  <2>4. ASSUME NEW q PROVE q \in JoinedBelow(b) <=> q \in JoinedBelow(nexti) \/ q \in G
    BY <1>0, <1>2, <1>5, <2>1 DEF JoinedFrom, JoinedBelow
  <2> QED
    BY <2>2, <2>3, <2>4
<1>8. /\ \A v, u \in Joiner : v # u => P[v] \cap P[u] = {}
      /\ \A q : q \in JoinedBelow(nexti) <=> \E u \in Joiner : q \in P[u]
      /\ \A u \in Joiner : preselected[u] \in Seq(Triples) /\ Enumerates(preselected[u], P[u], TripleOf)
  BY <1>4 DEF Holding
<1> DEFINE R == [P EXCEPT ![t] = @ \cup G]
<1>9. R \in [Joiner -> SUBSET Pairs] /\ R[t] = P[t] \cup G /\ \A u \in Joiner : u # t => R[u] = P[u]
  BY <1>7
<1>10. P[t] \cap G = {} /\ \A u \in Joiner : P[u] \cap G = {}
  BY <1>7, <1>8
<1> HIDE DEF R
<1>11. \A v, u \in Joiner : v # u => R[v] \cap R[u] = {}
  <2> SUFFICES ASSUME NEW v \in Joiner, NEW u \in Joiner, v # u PROVE R[v] \cap R[u] = {}
    OBVIOUS
  <2>1. P[v] \cap P[u] = {}
    BY <1>8
  <2>2. CASE v = t
    BY <1>9, <1>10, <2>1, <2>2
  <2>3. CASE u = t
    BY <1>9, <1>10, <2>1, <2>3
  <2>4. CASE v # t /\ u # t
    BY <1>9, <2>1, <2>4
  <2> QED
    BY <2>2, <2>3, <2>4
<1>12. \A q : q \in JoinedBelow(b) <=> \E u \in Joiner : q \in R[u]
  <2> SUFFICES ASSUME NEW q PROVE q \in JoinedBelow(b) <=> \E u \in Joiner : q \in R[u]
    OBVIOUS
  <2>1. (\E u \in Joiner : q \in R[u]) <=> (\E u \in Joiner : q \in P[u]) \/ q \in G
    BY <1>9
  <2> QED
    BY <1>7, <1>8, <2>1
<1>13. ASSUME NEW u \in Joiner
       PROVE  preselected'[u] \in Seq(Triples) /\ Enumerates(preselected'[u], R[u], TripleOf)
  <2>1. preselected = [w \in Joiner |-> preselected[w]]
    BY DEF TypeInv
  <2>2. CASE u = t
    <3>1. preselected'[t] = preselected[t] \o got
      BY <1>3, <2>1
    <3>2. PICK s \in Seq(Triples) : s = preselected[t] /\ Enumerates(s, P[t], TripleOf)
      BY <1>8
    <3>3. s \o got \in Seq(Triples)
      BY <1>6, ConcatProperties
    <3>4. Enumerates(s \o got, P[t] \cup G, TripleOf)
      BY <1>6, <1>10, <3>2, EnumConcat
    <3> QED
      BY <1>9, <2>2, <3>1, <3>2, <3>3, <3>4
  <2>3. CASE u # t
    BY <1>3, <1>8, <1>9, <2>1, <2>3
  <2> QED
    BY <2>2, <2>3
<1>14. JoinedBelow(nexti)' = JoinedBelow(b)
  BY <1>1, <1>2
<1>15. Holding(R)'
  BY <1>1, <1>11, <1>12, <1>13, <1>14 DEF Holding
<1> QED
  BY <1>9, <1>15

\* Every step keeps what is known of phase 3.
LEMMA JoinNext ==
  ASSUME JoinTaskInv, [Next]_vars
  PROVE  JoinInv'
<1>0. TypeInv /\ PartInv /\ JoinInv /\ (pc' \notin {"subjoin", "checkup"} => JoinInv')
  BY DEF JoinTaskInv, JoinInv
<1>1. CASE Gemm
  BY <1>0, <1>1 DEF Gemm
<1>2. ASSUME NEW t \in Parter, Dispatch(t) PROVE JoinInv'
  BY <1>0, <1>2 DEF Dispatch
<1>3. CASE Partitioned
  <2>1. pc' = "partition" \/ (nexti' = 0 /\ preselected' = [t \in Joiner |-> <<>>])
    BY <1>3 DEF Partitioned, Same
  <2>2. CASE pc' = "partition"
    BY <1>0, <2>2
  <2>3. CASE nexti' = 0 /\ preselected' = [t \in Joiner |-> <<>>]
    <3> DEFINE P == [t \in Joiner |-> {}]
    <3>1. JoinedBelow(nexti)' = {}
      <4>1. nexti' = 0
        BY <2>3
      <4>2. \A q : TopValue(Image(slice, 0, q[1])', p) \in Nat
        <5>1. \A q : Image(slice, 0, q[1])' \in Word
          BY ImageType DEF Image, naive_gemv, Word
        <5> QED
          BY <5>1, WordsHavePartitions DEF Partition
      <4> QED
        BY <4>1, <4>2 DEF JoinedBelow
    <3>2. P \in [Joiner -> SUBSET Pairs'] /\ \A t \in Joiner : P[t] = {}
      OBVIOUS
    <3>3. <<>> \in Seq(Triples)
      OBVIOUS
    <3>4. \A t \in Joiner : preselected'[t] \in Seq(Triples) /\ Enumerates(preselected'[t], P[t], TripleOf')
      BY <2>3, <3>2, <3>3, EnumNothing
    <3> HIDE DEF P
    <3>5. Holding(P)'
      BY <3>1, <3>2, <3>4 DEF Holding
    <3> QED
      BY <3>2, <3>5 DEF JoinInv
  <2> QED
    BY <2>1, <2>2, <2>3
<1>4. ASSUME NEW t \in Joiner, Subjoin(t) PROVE JoinInv'
  BY <1>0, <1>4, SubjoinJoin
<1>5. CASE Joined
  <2>1. Same /\ nexti' = nexti /\ preselected' = preselected /\ pc = "subjoin"
    BY <1>5 DEF Joined, Same, joinVars
  <2> QED
    BY <1>0, <2>1, JoinKept
<1>6. ASSUME NEW t \in Joiner, Look(t) \/ Store(t) \/ Copy(t) \/ Load(t) \/ Bump(t) PROVE JoinInv'
  <2>1. Same /\ nexti' = nexti /\ preselected' = preselected /\ pc = "checkup"
    BY <1>6 DEF Look, Store, Copy, Load, Bump, Same, joinVars
  <2> QED
    BY <1>0, <2>1, JoinKept
<1>7. CASE Checked \/ Lift
  BY <1>0, <1>7 DEF Checked, Lift
<1>8. CASE EndSlice
  BY <1>0, <1>8 DEF EndSlice
<1>9. CASE UNCHANGED vars
  <2>1. Same /\ nexti' = nexti /\ preselected' = preselected /\ pc' = pc
    BY <1>9 DEF vars, Same, joinVars
  <2> QED
    BY <1>0, <2>1, JoinKept
<1> QED
  BY <1>1, <1>2, <1>3, <1>4, <1>5, <1>6, <1>7, <1>8, <1>9 DEF Next, Stop

\* The invariant holds initially ...
LEMMA InvInit ==
  ASSUME Init
  PROVE  JoinTaskInv
<1>1. pc \in {"gemm", "done"}
  BY DEF Init
<1> QED
  BY <1>1, TypeInit DEF JoinTaskInv, PartInv, JoinInv

\* ... and every step keeps it.
LEMMA InvNext ==
  ASSUME JoinTaskInv, [Next]_vars
  PROVE  JoinTaskInv'
<1>1. TypeInv /\ PartInv
  BY DEF JoinTaskInv
<1> QED
  BY <1>1, TypeNext, PartNext, JoinNext DEF JoinTaskInv

\* When all partitions are joined, what the threads hold are the joins, each once.
LEMMA InvJoin ==
  ASSUME JoinTaskInv
  PROVE  JoinExact
<1> SUFFICES ASSUME pc = "checkup", BucketsFit(slice)
             PROVE  ToBag(FlattenSeq([t \in 1 .. T_subj |-> preselected[t - 1]]))
                      = ToBag([q \in {q \in Pairs : Joins(slice, q[1], q[2])} |->
                                 Triple(Image(slice, 0, q[1]), Image(slice, 1, q[2]))])
  BY DEF JoinExact
<1>1. PICK P \in [Joiner -> SUBSET Pairs] : Holding(P)
  BY DEF JoinTaskInv, JoinInv
<1>2. nexti \in Nat /\ nexti >= fan_out /\ fan_out \in Nat
  BY WordsHavePartitions DEF JoinTaskInv, TypeInv
<1>3. PICK Z : Z = {q \in Pairs : Joins(slice, q[1], q[2])}
  OBVIOUS
<1>4. JoinedBelow(nexti) = Z
  <2>1. \A q : TopValue(Image(slice, 0, q[1]), p) \in Partition
    BY ImageType, WordsHavePartitions
  <2>2. \A part \in Partition : part < nexti
    BY <1>2 DEF Partition
  <2> QED
    BY <1>3, <2>1, <2>2 DEF JoinedBelow
<1>5. /\ \A t, u \in Joiner : t # u => P[t] \cap P[u] = {}
      /\ \A q : q \in Z <=> \E t \in Joiner : q \in P[t]
      /\ \A t \in Joiner : preselected[t] \in Seq(Triples) /\ Enumerates(preselected[t], P[t], TripleOf)
  BY <1>1, <1>4 DEF Holding
<1> DEFINE seqs == [t \in 1 .. T_subj |-> preselected[t - 1]]
           X == [t \in 1 .. T_subj |-> P[t - 1]]
<1>6. T_subj \in Nat /\ \A t \in 1 .. T_subj : t - 1 \in Joiner
  BY Sizes DEF Joiner
<1>7. seqs \in [1 .. T_subj -> Seq(Triples)]
  BY <1>5, <1>6
<1>8. seqs \in Seq(Seq(Triples)) /\ Len(seqs) = T_subj
  BY <1>6, <1>7, FunctionSeq
<1>9. \A m, k \in 1 .. T_subj : m # k => X[m] \cap X[k] = {}
  <2>1. \A m, k \in 1 .. T_subj : m # k => m - 1 # k - 1
    BY <1>6
  <2> QED
    BY <1>5, <1>6, <2>1
<1>10. \A m \in 1 .. T_subj : Enumerates(seqs[m], X[m], TripleOf)
  BY <1>5, <1>6
<1>11. \A q : q \in Z <=> \E m \in 1 .. T_subj : q \in X[m]
  <2>1. \A t \in Joiner : t + 1 \in 1 .. T_subj /\ (t + 1) - 1 = t
    BY Sizes DEF Joiner
  <2>2. ASSUME NEW q, NEW t \in Joiner, q \in P[t] PROVE q \in X[t + 1] /\ t + 1 \in 1 .. T_subj
    BY <2>1, <2>2
  <2> QED
    BY <1>5, <1>6, <2>2
<1>12. PICK s, Y, v : s = seqs /\ Y = X /\ v = TripleOf
  OBVIOUS
<1>13. /\ s \in Seq(Seq(Triples)) /\ T_subj = Len(s) /\ T_subj \in Nat
       /\ \A m, k \in 1 .. T_subj : m # k => Y[m] \cap Y[k] = {}
       /\ \A m \in 1 .. T_subj : Enumerates(s[m], Y[m], v)
       /\ \A q : q \in Z <=> \E m \in 1 .. T_subj : q \in Y[m]
  BY <1>6, <1>8, <1>9, <1>10, <1>11, <1>12
<1>14. FlattenSeq(s) \in Seq(Triples) /\ Enumerates(FlattenSeq(s), Z, v)
  BY ONLY <1>13, FlattenLists
<1>15. IsFiniteSet(Z)
  BY ONLY <1>14, EnumLen
<1>16. PICK f : f = [q \in Z |-> Triple(Image(slice, 0, q[1]), Image(slice, 1, q[2]))]
  OBVIOUS
<1>17. DOMAIN f = Z /\ \A q \in Z : f[q] = v[q]
  <2>1. Z \subseteq Pairs
    BY <1>3
  <2> QED
    BY <1>12, <1>16, <2>1 DEF TripleOf
<1>18. ToBag(FlattenSeq(s)) = ToBag(f)
  BY ONLY <1>14, <1>15, <1>17, EnumBag
<1> QED
  BY <1>3, <1>12, <1>16, <1>18

\* When the joins of phases 2 and 3 are over, the threads hold between them every
\* pair of words that agrees on the slice's l bits once, and no other: whatever
\* the number of threads, of partitions and of words, the sizes and the
\* interleaving, as long as no bucket is too small.
THEOREM JoinExactHolds == Spec => []JoinExact
<1>1. Init => JoinTaskInv
  BY InvInit
<1>2. JoinTaskInv /\ [Next]_vars => JoinTaskInv'
  BY InvNext
<1>3. JoinTaskInv => JoinExact
  BY InvJoin
<1> QED
  BY <1>1, <1>2, <1>3, PTL DEF Spec

(***************************************************************************)
(* Phase 4                                                                 *)
(***************************************************************************)
\* Parity, which addition over GF(2) is about.
IsOdd(m) == m % 2 = 1

\* The parity of a sum less an even number.
LEMMA Odd ==
  ASSUME NEW a \in Nat, NEW b \in Nat, NEW c \in Nat, NEW d \in Nat, d = a + b - 2 * c
  PROVE  IsOdd(d) <=> (IsOdd(a) /\ ~IsOdd(b)) \/ (~IsOdd(a) /\ IsOdd(b))
  BY DEF IsOdd

\* The parity of the size of a symmetric difference.
LEMMA XorSize ==
  ASSUME NEW A, NEW B, IsFiniteSet(A), IsFiniteSet(B)
  PROVE  IsOdd(Cardinality(SymDiff(A, B))) <=>
           \/ IsOdd(Cardinality(A)) /\ ~IsOdd(Cardinality(B))
           \/ ~IsOdd(Cardinality(A)) /\ IsOdd(Cardinality(B))
<1> DEFINE U == A \cup B
           I == A \cap B
<1>1. IsFiniteSet(U) /\ Cardinality(U) = Cardinality(A) + Cardinality(B) - Cardinality(I)
  BY FS_Union
<1>2. IsFiniteSet(U \ I) /\ Cardinality(U \ I) = Cardinality(U) - Cardinality(U \cap I)
  BY <1>1, FS_Difference
<1>3. U \cap I = I /\ SymDiff(A, B) = U \ I
  BY DEF SymDiff
<1>4. IsFiniteSet(I)
  BY FS_Intersection
<1>5. /\ Cardinality(A) \in Nat /\ Cardinality(B) \in Nat /\ Cardinality(I) \in Nat /\ Cardinality(U) \in Nat
      /\ Cardinality(U \ I) \in Nat
  BY <1>1, <1>2, <1>4, FS_CardinalityType
<1> HIDE DEF U, I
<1>6. PICK a \in Nat, b \in Nat, c \in Nat, d \in Nat :
        /\ a = Cardinality(A) /\ b = Cardinality(B) /\ c = Cardinality(I)
        /\ d = Cardinality(U \ I)
  BY <1>5
<1>7. d = a + b - 2 * c
  <2>1. Cardinality(U) = a + b - c
    BY <1>1, <1>6
  <2>2. d = Cardinality(U) - c
    BY <1>2, <1>3, <1>6
  <2> QED
    BY <2>1, <2>2
<1>8. IsOdd(d) <=> (IsOdd(a) /\ ~IsOdd(b)) \/ (~IsOdd(a) /\ IsOdd(b))
  BY <1>7, Odd
<1>9. SymDiff(A, B) = U \ I
  BY <1>3
<1> QED
  BY <1>6, <1>8, <1>9

\* The product is linear.
LEMMA Linear ==
  ASSUME NEW w \in Word, NEW y \in Word, NEW N
  PROVE  naive_gemv(Xor(w, y), N) = Xor(naive_gemv(w, N), naive_gemv(y, N))
<1>1. IsFiniteSet(Bit)
  BY Sizes, FS_Interval DEF Bit
<1>2. IsFiniteSet(w) /\ IsFiniteSet(y)
  BY <1>1, FS_Subset DEF Word
<1>3. ASSUME NEW b \in Bit
      PROVE  b \in naive_gemv(Xor(w, y), N) <=> b \in Xor(naive_gemv(w, N), naive_gemv(y, N))
  <2> DEFINE A == {part \in w : b \in N[part]}
             B == {part \in y : b \in N[part]}
             C == {part \in Xor(w, y) : b \in N[part]}
  <2>1. C = SymDiff(A, B)
    BY DEF Xor, SymDiff
  <2>2. IsFiniteSet(A) /\ IsFiniteSet(B)
    BY <1>2, FS_Subset
  <2>3. IsOdd(Cardinality(C)) <=>
           \/ IsOdd(Cardinality(A)) /\ ~IsOdd(Cardinality(B))
           \/ ~IsOdd(Cardinality(A)) /\ IsOdd(Cardinality(B))
    BY <2>1, <2>2, XorSize
  <2>4. /\ b \in naive_gemv(Xor(w, y), N) <=> IsOdd(Cardinality(C))
        /\ b \in naive_gemv(w, N) <=> IsOdd(Cardinality(A))
        /\ b \in naive_gemv(y, N) <=> IsOdd(Cardinality(B))
    BY DEF naive_gemv, IsOdd
  <2>5. b \in Xor(naive_gemv(w, N), naive_gemv(y, N)) <=>
           \/ b \in naive_gemv(w, N) /\ b \notin naive_gemv(y, N)
           \/ b \notin naive_gemv(w, N) /\ b \in naive_gemv(y, N)
    BY DEF Xor, SymDiff
  <2> QED
    BY <2>3, <2>4, <2>5
<1>4. \A b : b \in naive_gemv(Xor(w, y), N) => b \in Bit
  BY DEF naive_gemv
<1>5. \A b : b \in Xor(naive_gemv(w, N), naive_gemv(y, N)) => b \in Bit
  BY DEF naive_gemv, Xor, SymDiff
<1> QED
  BY <1>3, <1>4, <1>5

\* What the lookup accepts of the pairs that are joined is what has to be reported.
LEMMA HitReports ==
  ASSUME TypeInv, Busy, NEW q \in Pairs, Joins(slice, q[1], q[2]),
         Lookup(Xor(Image(slice, 0, q[1]), Image(slice, 1, q[2])))
  PROVE  q \in Reports(slice)
<1>1. q[1] \in 1 .. n(0) /\ q[2] \in 1 .. n(1) /\ nslice \in 1 .. Len(task.slices)
  BY TaskType DEF TypeInv, Pairs, Side, Busy
<1>2. PICK w \in Word, y \in Word : w = task.L[0][q[1]] /\ y = task.L[1][q[2]]
  BY <1>1, TaskType DEF TypeInv, Side
<1>3. Inverts(slice.Minv, slice.M)
  BY <1>1, TaskType DEF TypeInv, slice
<1> DEFINE u == naive_gemv(w, slice.M)
           v == naive_gemv(y, slice.M)
<1>4. u = Image(slice, 0, q[1]) /\ v = Image(slice, 1, q[2])
  BY <1>2 DEF Image
<1>5. Xor(u, v) = Zero => w = y
  <2>1. Xor(u, v) = Zero => u = v
    BY DEF Xor, SymDiff, Zero
  <2>2. naive_gemv(u, slice.Minv) = w /\ naive_gemv(v, slice.Minv) = y
    BY <1>3 DEF Inverts
  <2> QED
    BY <2>1, <2>2
<1>6. naive_gemv(Xor(w, y), slice.M) = Xor(u, v)
  BY Linear
<1>7. Xor(u, v) \in slice.CM \/ Xor(u, v) = Zero
  BY <1>4 DEF Lookup
<1>8. w # y => Solves(slice, q[1], q[2])
  BY <1>2, <1>5, <1>6, <1>7 DEF Solves
<1> QED
  BY <1>2, <1>8 DEF Reports

\* A list has an injection of its own.
LEMMA EnumInto ==
  ASSUME NEW s, NEW X, NEW v, Enumerates(s, X, v)
  PROVE  \E g \in [1 .. Len(s) -> X] :
           /\ \A m, k \in 1 .. Len(s) : g[m] = g[k] => m = k
           /\ \A m \in 1 .. Len(s) : s[m] = v[g[m]]
  BY DEF Enumerates

\* Partitions that fit leave the table of subjoin a free entry.
LEMMA NotOverfull ==
  ASSUME Multiplied, NEW part \in Partition, BucketsHold(part), JoinFits(slice)
  PROVE  ~Overfull(part)
<1> DEFINE A == Scattered(0, part)
           X == {e \in 1 .. n(0) : Image(slice, 0, e) # Zero /\ TopValue(Image(slice, 0, e), p) = part}
           D(e) == {d \in 1 .. e - 1 : A[d] # Zero}
<1>0. 0 \in Side /\ n(0) \in Nat /\ \A e \in 1 .. n(0) : LM[0][e] = Image(slice, 0, e)
  BY DEF Multiplied, Side
<1>1. A \in Seq(Word) /\ Enumerates(A, InPartition(0, part), LM[0])
  BY <1>0, ScatteredLists
<1>2. PICK g \in [1 .. Len(A) -> InPartition(0, part)] :
        /\ \A m, k \in 1 .. Len(A) : g[m] = g[k] => m = k
        /\ \A m \in 1 .. Len(A) : A[m] = LM[0][g[m]]
  BY <1>1, EnumInto
<1>3. PICK N \in Nat : N = Len(A) /\ DOMAIN A = 1 .. N
  BY <1>1
<1>4. Cardinality(X) < HASH_SIZE /\ IsFiniteSet(X) /\ Cardinality(X) \in Nat /\ HASH_SIZE \in Nat
  <2>1. IsFiniteSet(1 .. n(0)) /\ X \subseteq 1 .. n(0)
    BY <1>0, FS_Interval
  <2>2. IsFiniteSet(X)
    BY <2>1, FS_Subset
  <2>3. Cardinality(X) < HASH_SIZE
    BY DEF JoinFits
  <2> HIDE DEF X
  <2> QED
    BY <2>2, <2>3, FS_CardinalityType, JouxAssumption
<1>5. \A m \in 1 .. N : A[m] # Zero => g[m] \in X
  BY <1>0, <1>2, <1>3 DEF InPartition
<1>6. ASSUME NEW e \in 1 .. N + 1 PROVE ~(Cardinality(D(e)) >= HASH_SIZE)
  <2>1. PICK Y : Y = D(e)
    OBVIOUS
  <2>2. Y \subseteq 1 .. N /\ \A d \in Y : g[d] \in X
    BY <1>3, <1>5, <2>1
  <2> DEFINE f == [d \in Y |-> g[d]]
  <2> HIDE DEF X
  <2>3. f \in Injection(Y, X)
    BY <1>2, <1>3, <2>2 DEF Injection, IsInjective
  <2>4. IsFiniteSet(Y) /\ Cardinality(Y) <= Cardinality(X)
    BY <1>4, <2>3, FS_Injection
  <2>5. Cardinality(Y) \in Nat
    BY <2>4, FS_CardinalityType
  <2> QED
    BY <1>4, <2>1, <2>4, <2>5
<1>7. \A e \in DOMAIN A : ~(Cardinality(D(e)) >= HASH_SIZE)
  BY <1>3, <1>6
<1>8. ~(Cardinality(D(Len(A) + 1)) >= HASH_SIZE)
  BY <1>3, <1>6
<1> QED
  BY <1>7, <1>8 DEF Overfull

\* The triples that phase 4 reports, and those whose report is over.
Hits == {hit \in Joiner \X Nat : hit[2] \in DOMAIN preselected[hit[1]] /\ Hit(hit[1], hit[2])}
Done == {hit \in Hits : hit[2] < pos[hit[1]] \/ (hit[2] = pos[hit[1]] /\ tpc[hit[1]] = "look")}

\* What the first m slices have to report.
ReportsUpTo(m) ==
    {q \in (DOMAIN task.slices) \X Pairs : q[1] <= m /\ q[2] \in Reports(task.slices[q[1]])}

\* A task has a finite number of pairs.
LEMMA PairsFinite ==
  ASSUME task \in Tasks
  PROVE  IsFiniteSet(Pairs) /\ \A s : IsFiniteSet(Reports(s)) /\ Cardinality(Reports(s)) \in Nat
<1>1. \A k \in Side : DOMAIN task.L[k] = 1 .. n(k) /\ n(k) \in Nat
  BY TaskType
<1>2. \A k \in Side : IsFiniteSet(DOMAIN task.L[k])
  BY <1>1, FS_Interval
<1>3. IsFiniteSet(Pairs)
  BY <1>2, FS_Product DEF Pairs, Side
<1>4. \A s : Reports(s) \subseteq Pairs
  BY DEF Reports
<1> QED
  BY <1>3, <1>4, FS_Subset, FS_CardinalityType

\* So it has of reports, which fit if the task does.
LEMMA UpTo ==
  ASSUME task \in Tasks, NEW m \in Int
  PROVE  /\ IsFiniteSet(ReportsUpTo(m)) /\ Cardinality(ReportsUpTo(m)) \in Nat
         /\ Fits => Cardinality(ReportsUpTo(m)) <= CAPACITY
<1> DEFINE Z == (DOMAIN task.slices) \X Pairs
           R == {q \in Z : q[2] \in Reports(task.slices[q[1]])}
<1>1. IsFiniteSet(DOMAIN task.slices)
  <2>1. DOMAIN task.slices = 1 .. Len(task.slices) /\ Len(task.slices) \in Nat
    BY JouxAssumption
  <2> QED
    BY <2>1, FS_Interval
<1>2. IsFiniteSet(Z)
  BY <1>1, PairsFinite, FS_Product
<1>3. IsFiniteSet(R) /\ ReportsUpTo(m) \subseteq R
  <2>1. R \subseteq Z
    OBVIOUS
  <2> HIDE DEF Z
  <2>2. IsFiniteSet(R)
    BY <1>2, <2>1, FS_Subset
  <2> QED
    BY <2>2 DEF ReportsUpTo, Z
<1>4. IsFiniteSet(ReportsUpTo(m)) /\ Cardinality(ReportsUpTo(m)) <= Cardinality(R)
  BY <1>3, FS_Subset
<1>5. Cardinality(ReportsUpTo(m)) \in Nat /\ Cardinality(R) \in Nat
  BY <1>3, <1>4, FS_CardinalityType
<1>6. Fits => Cardinality(R) <= CAPACITY
  BY DEF Fits
<1> HIDE DEF R
<1> QED
  BY <1>4, <1>5, <1>6, JouxAssumption

\* The reports of one slice come on top of those before.
LEMMA UpToNext ==
  ASSUME task \in Tasks, NEW m \in 1 .. Len(task.slices)
  PROVE  Cardinality(ReportsUpTo(m)) = Cardinality(ReportsUpTo(m - 1)) + Cardinality(Reports(task.slices[m]))
<1>1. PICK Q, X, Y : Q = Reports(task.slices[m]) /\ X = ReportsUpTo(m - 1) /\ Y = {m} \X Q
  OBVIOUS
<1>2. m \in Int /\ m - 1 \in Int /\ m \in DOMAIN task.slices /\ \A k \in DOMAIN task.slices : k \in Int
  <2>1. DOMAIN task.slices = 1 .. Len(task.slices) /\ Len(task.slices) \in Nat
    BY JouxAssumption
  <2> QED
    BY <2>1
<1>3. IsFiniteSet(Q) /\ Cardinality(Q) \in Nat /\ IsFiniteSet(X) /\ Cardinality(X) \in Nat
  BY <1>1, <1>2, PairsFinite, UpTo
<1>4. IsFiniteSet(Y) /\ Cardinality(Y) = Cardinality(Q)
  <2>1. IsFiniteSet({m}) /\ Cardinality({m}) = 1
    BY FS_Singleton
  <2>2. IsFiniteSet(Y) /\ Cardinality(Y) = 1 * Cardinality(Q)
    BY <1>1, <1>3, <2>1, FS_Product
  <2> QED
    BY <1>3, <2>2
<1>5. Q \subseteq Pairs
  BY <1>1 DEF Reports
<1>6. ReportsUpTo(m) = X \cup Y
  <2>1. ASSUME NEW q, q \in ReportsUpTo(m) PROVE q \in X \cup Y
    <3>1. q \in (DOMAIN task.slices) \X Pairs /\ q[1] <= m /\ q[2] \in Reports(task.slices[q[1]])
      BY <2>1 DEF ReportsUpTo
    <3>2. q[1] <= m - 1 \/ q[1] = m
      BY <1>2, <3>1
    <3>3. q[1] = m => q \in Y
      BY <1>1, <3>1
    <3>4. q[1] <= m - 1 => q \in X
      BY <1>1, <3>1 DEF ReportsUpTo
    <3> QED
      BY <3>2, <3>3, <3>4
  <2>2. ASSUME NEW q, q \in X PROVE q \in ReportsUpTo(m)
    BY <1>1, <1>2, <2>2 DEF ReportsUpTo
  <2>3. ASSUME NEW q, q \in Y PROVE q \in ReportsUpTo(m)
    <3>1. q[1] = m /\ q[2] \in Q /\ q[2] \in Pairs /\ q = <<q[1], q[2]>>
      BY <1>1, <1>5, <2>3
    <3> QED
      BY <1>1, <1>2, <3>1 DEF ReportsUpTo
  <2> QED
    BY <2>1, <2>2, <2>3
<1>7. X \cap Y = {}
  BY <1>1, <1>2 DEF ReportsUpTo
<1>8. Cardinality(X \cup Y) = Cardinality(X) + Cardinality(Y) - Cardinality(X \cap Y)
  BY <1>3, <1>4, FS_Union
<1>9. Cardinality(X \cap Y) = 0
  BY <1>7, FS_EmptySet
<1>10. Cardinality(X \cup Y) = Cardinality(X) + Cardinality(Q)
  BY <1>3, <1>4, <1>8, <1>9
<1> QED
  BY <1>1, <1>6, <1>10

\* Every report of phase 4 is one that the slice calls for.
LEMMA HitsBound ==
  ASSUME JoinTaskInv, pc = "checkup", BucketsFit(slice)
  PROVE  IsFiniteSet(Hits) /\ Cardinality(Hits) <= Cardinality(Reports(slice))
<1>1. PICK P \in [Joiner -> SUBSET Pairs] : Holding(P)
  BY DEF JoinTaskInv, JoinInv
<1>2. /\ \A t, u \in Joiner : t # u => P[t] \cap P[u] = {}
      /\ \A t \in Joiner : \A q \in P[t] : q \in Pairs /\ Joins(slice, q[1], q[2])
      /\ \A t \in Joiner : preselected[t] \in Seq(Triples) /\ Enumerates(preselected[t], P[t], TripleOf)
  BY <1>1 DEF Holding, JoinedBelow
<1> DEFINE Own(t, g) ==
             /\ g \in [1 .. Len(preselected[t]) -> P[t]]
             /\ \A m, k \in 1 .. Len(preselected[t]) : g[m] = g[k] => m = k
             /\ \A m \in 1 .. Len(preselected[t]) : preselected[t][m] = TripleOf[g[m]]
           G == [t \in Joiner |-> CHOOSE g : Own(t, g)]
<1>3. \A t \in Joiner : Own(t, G[t])
  <2> SUFFICES ASSUME NEW t \in Joiner PROVE Own(t, G[t])
    OBVIOUS
  <2>1. \E g : Own(t, g)
    BY <1>2, EnumInto
  <2> HIDE DEF Own
  <2> QED
    BY <2>1
<1> HIDE DEF G
<1>4. PICK HH : \A t \in Joiner : Own(t, HH[t])
  BY <1>3
<1>d. \A t \in Joiner : DOMAIN preselected[t] = 1 .. Len(preselected[t])
  BY <1>2
<1>5. \A t \in Joiner :
        /\ DOMAIN preselected[t] = 1 .. Len(preselected[t])
        /\ HH[t] \in [1 .. Len(preselected[t]) -> P[t]]
        /\ \A m, k \in 1 .. Len(preselected[t]) : HH[t][m] = HH[t][k] => m = k
        /\ \A m \in 1 .. Len(preselected[t]) : preselected[t][m] = TripleOf[HH[t][m]]
  BY <1>4, <1>d
<1> HIDE DEF Own
<1>6. TypeInv /\ Busy
  BY DEF JoinTaskInv, Busy
<1>7. ASSUME NEW hit \in Hits
      PROVE  /\ hit[1] \in Joiner /\ hit[2] \in 1 .. Len(preselected[hit[1]]) /\ hit = <<hit[1], hit[2]>>
             /\ HH[hit[1]][hit[2]] \in P[hit[1]]
             /\ HH[hit[1]][hit[2]] \in Reports(slice)
  <2>1. hit[1] \in Joiner /\ hit[2] \in DOMAIN preselected[hit[1]] /\ hit = <<hit[1], hit[2]>> /\ Hit(hit[1], hit[2])
    BY DEF Hits
  <2>2. PICK t \in Joiner, m \in 1 .. Len(preselected[hit[1]]) : t = hit[1] /\ m = hit[2] /\ m \in 1 .. Len(preselected[t]) /\ Hit(t, m)
    BY <1>5, <2>1
  <2>3. PICK q : q = HH[t][m]
    OBVIOUS
  <2>4. q \in P[t] /\ q \in Pairs /\ Joins(slice, q[1], q[2]) /\ preselected[t][m] = TripleOf[q]
    BY <1>2, <1>5, <2>2, <2>3
  <2>5. preselected[t][m][3] = Xor(Image(slice, 0, q[1]), Image(slice, 1, q[2]))
    BY <2>4 DEF TripleOf, Triple
  <2>6. Lookup(Xor(Image(slice, 0, q[1]), Image(slice, 1, q[2])))
    BY <2>2, <2>5 DEF Hit
  <2>7. q \in Reports(slice)
    BY <1>6, <2>4, <2>6, HitReports
  <2> QED
    BY <2>1, <2>2, <2>3, <2>4, <2>7
<1> DEFINE f == [hit \in Hits |-> HH[hit[1]][hit[2]]]
<1>8. ASSUME NEW hit \in Hits, NEW k \in Hits, HH[hit[1]][hit[2]] = HH[k[1]][k[2]] PROVE hit = k
  <2>1. hit[1] = k[1]
    BY <1>2, <1>7, <1>8
  <2>2. hit[2] = k[2]
    BY <1>5, <1>7, <1>8, <2>1
  <2> QED
    BY <1>7, <2>1, <2>2
<1>9. f \in Injection(Hits, Reports(slice))
  BY <1>7, <1>8 DEF Injection, IsInjective
<1>10. IsFiniteSet(Reports(slice))
  BY <1>6, PairsFinite DEF TypeInv
<1> HIDE DEF f
<1> QED
  BY <1>9, <1>10, FS_Injection

\* Whether a task fits depends on the task and the capacities alone.
LEMMA SameFits ==
  ASSUME task' = task, tsize' = tsize
  PROVE  /\ Fits' = Fits
         /\ \A s : Reports(s)' = Reports(s)
         /\ \A m : ReportsUpTo(m)' = ReportsUpTo(m)
<1>1. Pairs' = Pairs /\ \A k : n(k)' = n(k)
  BY DEF Pairs, n
<1>2. \A s, k, e : Image(s, k, e)' = Image(s, k, e)
  BY DEF Image
<1>3. \A s, a, b : Joins(s, a, b)' = Joins(s, a, b) /\ Solves(s, a, b)' = Solves(s, a, b)
  BY DEF Joins, Solves
<1>4. \A s : Reports(s)' = Reports(s)
  BY <1>1, <1>3 DEF Reports
<1>5. \A s : BucketsFit(s)' = BucketsFit(s)
  BY <1>1, <1>2 DEF BucketsFit
<1>6. \A s : JoinFits(s)' = JoinFits(s)
  BY <1>1, <1>2, <1>3 DEF JoinFits
<1>7. Fits' = Fits
  BY <1>1, <1>4, <1>5, <1>6 DEF Fits
<1>8. \A m : ReportsUpTo(m)' = ReportsUpTo(m)
  BY <1>1, <1>4 DEF ReportsUpTo
<1> QED
  BY <1>4, <1>7, <1>8

\* A task that fits has slices that fit.
LEMMA FitsSlice ==
  ASSUME TypeInv, Busy, Fits
  PROVE  BucketsFit(slice) /\ JoinFits(slice)
<1>1. nslice \in 1 .. Len(task.slices)
  BY TaskType DEF TypeInv, Busy
<1>2. slice \in ToSet(task.slices)
  BY <1>1, TaskType DEF TypeInv, slice
<1> QED
  BY <1>2 DEF Fits

\* A thread has room in its bucket for the next word.
LEMMA DispatchFits ==
  ASSUME TypeInv, PartInv, BucketsFit(slice), NEW t \in Parter, Dispatch(t)
  PROVE  pc' = pc
<1>1. PICK k \in Side, e \in Nat, y \in Word, part \in Partition :
        /\ k = side /\ e = cursor[t] + 1 /\ y = LM[side][cursor[t] + 1] /\ part = TopValue(y, p)
        /\ e \in ShareStart(n(k), t) + 1 .. ShareStart(n(k), t + 1) /\ y = Image(slice, k, e)
  BY DispatchWord
<1>2. pc = "partition" /\ k <= side /\ ~(k < side)
  BY <1>1 DEF Dispatch, Side
<1>3. PICK c : c = Cardinality(Put(k, t, part))
  OBVIOUS
<1>4. /\ Put(k, t, part) \subseteq Share(k, t, part) /\ IsFiniteSet(Put(k, t, part)) /\ c \in Nat
      /\ IsFiniteSet(Share(k, t, part)) /\ Cardinality(Share(k, t, part)) \in Nat
      /\ Cardinality(Share(k, t, part)) <= tsize[k] /\ tsize[k] \in Nat
  BY <1>2, <1>3, PutType DEF TypeInv
<1>5. e \in Share(k, t, part)
  BY <1>1 DEF Share
<1>6. e \notin Put(k, t, part)
  <2>1. Reached(k, t) = cursor[t] /\ cursor[t] \in Nat
    BY <1>1, <1>2 DEF Reached, TypeInv
  <2> QED
    BY <1>1, <2>1 DEF Put
<1>7. Cardinality(Put(k, t, part) \cup {e}) = c + 1
  BY <1>3, <1>4, <1>6, FS_AddElement
<1>8. c + 1 <= Cardinality(Share(k, t, part))
  <2>1. Put(k, t, part) \cup {e} \subseteq Share(k, t, part)
    BY <1>4, <1>5
  <2> QED
    BY <1>4, <1>7, <2>1, FS_Subset
<1>9. c \in 0 .. tsize[k] - 1
  BY <1>4, <1>8
<1>10. BucketStart(k, t, part) + c \in 0 .. ScratchSize(k) - 1 /\ ScratchSize(k) \in Nat
  BY <1>4, <1>9, Places, BlockType, WordsHavePartitions DEF TypeInv
<1>11. count[k][t][part] = BucketStart(k, t, part) + c
  BY <1>2, <1>3 DEF PartInv, Counted
<1>12. count[k][t][part] < ScratchSize(k)
  BY <1>10, <1>11
<1>13. ~(count[side][t][TopValue(LM[side][cursor[t] + 1], p)] >= ScratchSize(side))
  BY <1>1, <1>10, <1>11, <1>12
<1> QED
  BY <1>13 DEF Dispatch

\* A table of subjoin has a free entry, and a thread has room for what it takes.
LEMMA SubjoinFits ==
  ASSUME TypeInv, PartInv, JoinInv, BucketsFit(slice), JoinFits(slice),
         NEW t \in Joiner, Subjoin(t)
  PROVE  pc' = pc
<1>0. Same /\ pc = "subjoin" /\ nexti \in Nat /\ nexti < fan_out /\ fan_out \in Nat /\ CHUNK \in Nat \ {0}
  BY JouxAssumption, WordsHavePartitions DEF Subjoin, Same, TypeInv
<1>1. PICK b \in Nat : nexti' = b /\ nexti < b /\ b <= fan_out
  <2>1. nexti' = Min({fan_out, nexti + CHUNK})
    BY DEF Subjoin
  <2>2. Min({fan_out, nexti + CHUNK}) = IF fan_out <= nexti + CHUNK THEN fan_out ELSE nexti + CHUNK
    BY <1>0, MinOfTwo
  <2> QED
    BY <1>0, <2>1, <2>2
<1>2. \A part \in nexti .. b - 1 : ~Overfull(part)
  <2> SUFFICES ASSUME NEW part \in nexti .. b - 1 PROVE ~Overfull(part)
    OBVIOUS
  <2>1. part \in Partition
    BY <1>0, <1>1 DEF Partition
  <2> QED
    BY <1>0, <2>1, AllHeld, NotOverfull
<1>3. PICK got : got = FlattenSeq([e \in 1 .. b - nexti |-> subjoin(nexti + e - 1)])
  OBVIOUS
<1>4. PICK P \in [Joiner -> SUBSET Pairs] : Holding(P)
  BY <1>0 DEF JoinInv
<1>5. PICK G : G = JoinedFrom(nexti, b)
  OBVIOUS
<1>6. got \in Seq(Triples) /\ Enumerates(got, G, TripleOf)
  BY <1>0, <1>1, <1>3, <1>5, ChunkLists
<1>7. PICK s \in Seq(Triples) : s = preselected[t] /\ Enumerates(s, P[t], TripleOf)
  BY <1>4 DEF Holding
<1>8. P[t] \subseteq JoinedBelow(nexti)
  BY <1>4 DEF Holding
<1> DEFINE All == {q \in Pairs : Joins(slice, q[1], q[2])}
<1>9. G \cap P[t] = {} /\ P[t] \cup G \subseteq All
  <2>1. \A q : TopValue(Image(slice, 0, q[1]), p) \in Nat
    BY ImageType, WordsHavePartitions DEF Partition
  <2>2. G \cap JoinedBelow(nexti) = {}
    BY <1>0, <1>5, <2>1 DEF JoinedFrom, JoinedBelow
  <2>3. G \subseteq All /\ JoinedBelow(nexti) \subseteq All
    BY <1>5 DEF JoinedFrom, JoinedBelow
  <2> QED
    BY <1>8, <2>2, <2>3
<1>10. IsFiniteSet(All) /\ Cardinality(All) <= n(0) /\ Cardinality(All) \in Nat /\ n(0) \in Nat
  <2>1. IsFiniteSet(Pairs) /\ All \subseteq Pairs
    BY PairsFinite DEF TypeInv
  <2>2. Cardinality(All) <= n(0)
    BY DEF JoinFits
  <2>3. n(0) \in Nat
    BY TaskType DEF TypeInv, Side
  <2> HIDE DEF All
  <2> QED
    BY <2>1, <2>2, <2>3, FS_Subset, FS_CardinalityType
<1> HIDE DEF All
<1>11. IsFiniteSet(P[t]) /\ Cardinality(P[t]) = Len(s) /\ IsFiniteSet(G) /\ Cardinality(G) = Len(got)
  BY <1>6, <1>7, EnumLen
<1>12. Cardinality(P[t] \cup G) = Len(s) + Len(got)
  <2>1. P[t] \cap G = {}
    BY <1>9
  <2>2. Cardinality(P[t] \cap G) = 0
    BY <2>1, FS_EmptySet
  <2>3. Len(s) \in Nat /\ Len(got) \in Nat
    BY <1>6
  <2>4. Cardinality(P[t] \cup G) = Cardinality(P[t]) + Cardinality(G) - Cardinality(P[t] \cap G)
    BY <1>11, FS_Union
  <2> QED
    BY <1>11, <2>2, <2>3, <2>4
<1>13. Cardinality(P[t] \cup G) <= Cardinality(All)
  BY <1>9, <1>10, FS_Subset
<1>14. Len(preselected[t]) + Len(got) <= n(0) /\ Len(preselected[t]) + Len(got) \in Nat
  <2>1. Len(s) \in Nat /\ Len(got) \in Nat
    BY <1>6
  <2> QED
    BY <1>7, <1>10, <1>12, <1>13, <2>1
<1>15. ~(\E part \in nexti .. nexti' - 1 : Overfull(part))
  BY <1>1, <1>2
<1>16. ~(Len(preselected[t]) + Len(got) > n(0))
  BY <1>10, <1>14
<1>17. got = FlattenSeq([e \in 1 .. nexti' - nexti |-> subjoin(nexti + e - 1)])
  BY <1>1, <1>3
<1> QED
  BY <1>15, <1>16, <1>17 DEF Subjoin

\* A list of solutions that has never grown.
Roomy(r) ==
    /\ r = [size |-> r.size, capacity |-> CAPACITY, solutions |-> r.solutions, room |-> CAPACITY]
    /\ r.size \in Nat

\* The threads of phase 4: what they have read of the size is no more than the
\* reports that are over.
Checks ==
    /\ tpc \in [Joiner -> {"look", "store", "copy", "load", "bump"}]
    /\ local.size <= Cardinality(Done)
    /\ \A t \in Joiner :
         /\ tpc[t] # "look" => <<t, pos[t]>> \in Hits
         /\ tpc[t] \in {"store", "copy", "load"} => seen[t] <= Cardinality(Done)
         /\ tpc[t] \in {"copy", "bump"} => reg[t] <= Cardinality(Done)

\* Nothing has gone wrong in a task that fits, since the lists have room for what
\* is still to come: no more is counted in local than reports are over, lost
\* updates included, and no more of them are over than the slice calls for.
CheckInv ==
    Fits =>
      /\ pc \notin {"undefined", "hang"}
      /\ pos \in [Joiner -> Nat] /\ seen \in [Joiner -> Nat] /\ reg \in [Joiner -> Nat]
      /\ Roomy(local) /\ Roomy(result) /\ lifted \in Nat
      /\ pc \notin {"checkup", "lift"} => local.size = 0
      /\ pc = "checkup" => Checks
      /\ pc = "lift" => local.size <= Cardinality(Reports(slice)) /\ lifted <= local.size
      /\ pc # "lift" => lifted = 0
      /\ result.size <= Cardinality(ReportsUpTo(nslice - 1)) + lifted

\* A list begins with its room.
LEMMA NewRoom == Roomy(NewResult) /\ NewResult.size = 0
  BY DEF Roomy, NewResult

\* A list with room for another solution does not grow.
LEMMA GrownRoom ==
  ASSUME NEW r, Roomy(r), r.size < CAPACITY
  PROVE  Grown(r) = r
<1>1. r.capacity = CAPACITY /\ r.size \in Nat /\ CAPACITY \in Nat
  BY JouxAssumption DEF Roomy
<1> QED
  BY <1>1 DEF Grown

\* A store leaves the size and the room alone.
LEMMA StoredRoom ==
  ASSUME NEW r, NEW at, NEW sol, Roomy(r)
  PROVE  Roomy(Stored(r, at, sol)) /\ Stored(r, at, sol).size = r.size
<1>1. \A X : Roomy([r EXCEPT !.solutions = X]) /\ [r EXCEPT !.solutions = X].size = r.size
  BY DEF Roomy
<1>2. \E X : Stored(r, at, sol) = [r EXCEPT !.solutions = X]
  BY DEF Stored
<1> QED
  BY <1>1, <1>2

\* The slice's reports are among those of the task.
LEMMA SliceReports ==
  ASSUME TypeInv, Busy
  PROVE  /\ Cardinality(Reports(slice)) \in Nat
         /\ Cardinality(ReportsUpTo(nslice - 1)) \in Nat
         /\ Cardinality(ReportsUpTo(nslice)) = Cardinality(ReportsUpTo(nslice - 1)) + Cardinality(Reports(slice))
         /\ Fits => Cardinality(ReportsUpTo(nslice - 1)) + Cardinality(Reports(slice)) <= CAPACITY
<1>1. task \in Tasks /\ nslice \in 1 .. Len(task.slices) /\ nslice \in Int /\ nslice - 1 \in Int
  BY TaskType DEF TypeInv, Busy
<1>2. Cardinality(ReportsUpTo(nslice)) = Cardinality(ReportsUpTo(nslice - 1)) + Cardinality(Reports(slice))
  BY <1>1, UpToNext DEF slice
<1> QED
  BY <1>1, <1>2, PairsFinite, UpTo

\* While a report is under way there is room for it.
LEMMA DoneBound ==
  ASSUME JoinTaskInv, pc = "checkup", Fits
  PROVE  /\ IsFiniteSet(Done) /\ Cardinality(Done) \in Nat
         /\ Cardinality(Done) <= Cardinality(Reports(slice))
         /\ (\E hit \in Hits : hit \notin Done) => Cardinality(Done) < CAPACITY
<1>1. TypeInv /\ Busy
  BY DEF JoinTaskInv, Busy
<1>2. /\ Cardinality(Reports(slice)) \in Nat /\ Cardinality(ReportsUpTo(nslice - 1)) \in Nat
      /\ Cardinality(ReportsUpTo(nslice - 1)) + Cardinality(Reports(slice)) <= CAPACITY /\ CAPACITY \in Nat
  BY <1>1, SliceReports, JouxAssumption
<1>3. IsFiniteSet(Hits) /\ Cardinality(Hits) <= Cardinality(Reports(slice)) /\ Cardinality(Hits) \in Nat
  BY <1>1, FitsSlice, HitsBound, FS_CardinalityType
<1>4. Done \subseteq Hits
  BY DEF Done
<1>5. IsFiniteSet(Done) /\ Cardinality(Done) \in Nat /\ Cardinality(Done) <= Cardinality(Hits)
      /\ (Cardinality(Hits) = Cardinality(Done) => Hits = Done)
  BY <1>3, <1>4, FS_Subset, FS_CardinalityType
<1> QED
  BY <1>2, <1>3, <1>5

\* The threads hold the same triples, and the lookup is the same.
SameHits == Same /\ preselected' = preselected /\ hit0' = hit0

\* Then there is the same to report.
LEMMA HitsKept ==
  ASSUME SameHits
  PROVE  Hits' = Hits
<1>1. slice' = slice /\ preselected' = preselected /\ hit0' = hit0
  BY SameTask DEF SameHits
<1>2. \A t, e : Hit(t, e)' = Hit(t, e)
  BY <1>1 DEF Hit, Lookup
<1> QED
  BY <1>1, <1>2 DEF Hits

\* Looking for the next report begins a new one and ends none.
LEMMA LookStep ==
  ASSUME JoinTaskInv, Fits, CheckInv, NEW t \in Joiner, Look(t)
  PROVE  Checks' /\ pos' \in [Joiner -> Nat] /\ seen' \in [Joiner -> Nat] /\ Roomy(local)' /\ pc' = pc
<1>1. SameHits /\ pc = "checkup" /\ tpc[t] = "look" /\ UNCHANGED reg
  BY DEF Look, SameHits, Same, joinVars
<1>2. /\ pos \in [Joiner -> Nat] /\ seen \in [Joiner -> Nat] /\ Checks /\ Roomy(local)
      /\ tpc \in [Joiner -> {"look", "store", "copy", "load", "bump"}]
  BY <1>1 DEF CheckInv, Checks
<1>3. PICK e \in DOMAIN preselected[t] :
         /\ e > pos[t] /\ Hit(t, e)
         /\ \A d \in pos[t] + 1 .. e - 1 : ~Hit(t, d)
         /\ pos' = [pos EXCEPT ![t] = e]
  BY DEF Look
<1>4. e \in Nat
  <2>1. preselected[t] \in Seq(Triples)
    BY <1>1, FitsSlice DEF JoinTaskInv, JoinInv, Holding, Busy
  <2> QED
    BY <2>1
<1>5. Hits' = Hits
  BY <1>1, HitsKept
<1>6. /\ seen' = [seen EXCEPT ![t] = local.size] /\ tpc' = [tpc EXCEPT ![t] = "store"]
      /\ local' = Grown(local)
  BY DEF Look
<1>7. <<t, e>> \in Hits /\ <<t, e>> \notin Done
  BY <1>1, <1>2, <1>3, <1>4 DEF Hits, Done
<1>8. Cardinality(Done) \in Nat /\ Cardinality(Done) < CAPACITY
  BY <1>1, <1>7, DoneBound
<1>9. local.size \in Nat /\ local.size <= Cardinality(Done) /\ CAPACITY \in Nat
  BY <1>2, JouxAssumption DEF Checks, Roomy
<1>10. local' = local
  BY <1>2, <1>6, <1>8, <1>9, GrownRoom
<1>11. Done' = Done
  <2> SUFFICES ASSUME NEW hit \in Hits PROVE hit \in Done' <=> hit \in Done
    BY <1>5 DEF Done
  <2>1. hit[1] \in Joiner /\ hit[2] \in Nat /\ Hit(hit[1], hit[2])
    BY DEF Hits
  <2>2. CASE hit[1] # t
    BY <1>2, <1>3, <1>5, <1>6, <2>1, <2>2 DEF Done
  <2>3. CASE hit[1] = t
    <3>1. hit \in Done <=> hit[2] <= pos[t]
      BY <1>1, <1>2, <2>1, <2>3 DEF Done
    <3>2. hit \in Done' <=> hit[2] < e
      BY <1>2, <1>3, <1>4, <1>5, <1>6, <2>1, <2>3 DEF Done
    <3>3. pos[t] \in Nat
      BY <1>2
    <3>4. hit[2] < e => hit[2] <= pos[t]
      <4>1. ~(hit[2] \in pos[t] + 1 .. e - 1)
        BY <1>3, <2>1, <2>3
      <4> QED
        BY <1>4, <2>1, <3>3, <4>1
    <3> QED
      BY <1>3, <1>4, <2>1, <3>1, <3>2, <3>3, <3>4
  <2> QED
    BY <2>2, <2>3
<1>12. Checks'
  <2>1. tpc' \in [Joiner -> {"look", "store", "copy", "load", "bump"}]
    BY <1>2, <1>6
  <2>2. local'.size <= Cardinality(Done')
    BY <1>9, <1>10, <1>11
  <2>3. ASSUME NEW u \in Joiner
        PROVE  /\ tpc'[u] # "look" => <<u, pos'[u]>> \in Hits'
               /\ tpc'[u] \in {"store", "copy", "load"} => seen'[u] <= Cardinality(Done')
               /\ tpc'[u] \in {"copy", "bump"} => reg'[u] <= Cardinality(Done')
    <3>1. CASE u = t
      BY <1>2, <1>3, <1>5, <1>6, <1>7, <1>9, <1>11, <3>1
    <3>2. CASE u # t
      BY <1>1, <1>2, <1>3, <1>5, <1>6, <1>11, <3>2 DEF Checks
    <3> QED
      BY <3>1, <3>2
  <2> QED
    BY <2>1, <2>2, <2>3 DEF Checks
<1>13. pc' = pc
  <2>1. local.capacity = CAPACITY
    BY <1>2 DEF Roomy
  <2> QED
    BY <1>8, <1>9, <2>1 DEF Look
<1> QED
  BY <1>2, <1>3, <1>4, <1>6, <1>9, <1>10, <1>12, <1>13

\* A report in progress is not over before its last step, which counts at most one more.
LEMMA ReportStep ==
  ASSUME JoinTaskInv, Fits, CheckInv, NEW t \in Joiner, Store(t) \/ Copy(t) \/ Load(t) \/ Bump(t)
  PROVE  Checks' /\ reg' \in [Joiner -> Nat] /\ Roomy(local)' /\ pc' = pc
<1>1. SameHits /\ pc = "checkup" /\ tpc[t] \in {"store", "copy", "load", "bump"} /\ UNCHANGED <<pos, seen>>
  BY DEF Store, Copy, Load, Bump, SameHits, Same, joinVars
<1>2. /\ pos \in [Joiner -> Nat] /\ seen \in [Joiner -> Nat] /\ reg \in [Joiner -> Nat]
      /\ Checks /\ Roomy(local) /\ tpc \in [Joiner -> {"look", "store", "copy", "load", "bump"}]
  BY <1>1 DEF CheckInv, Checks
<1>3. PICK c \in Nat : c = Cardinality(Done)
  BY <1>1, DoneBound
<1>4. local.size \in Nat /\ local.size <= c
      /\ \A u \in Joiner :
            /\ tpc[u] # "look" => <<u, pos[u]>> \in Hits
            /\ tpc[u] \in {"store", "copy", "load"} => seen[u] <= c
            /\ tpc[u] \in {"copy", "bump"} => reg[u] <= c
  BY <1>2, <1>3 DEF Checks, Roomy
<1>5. Hits' = Hits
  BY <1>1, HitsKept
<1>6. <<t, pos[t]>> \in Hits /\ <<t, pos[t]>> \notin Done /\ c < CAPACITY /\ CAPACITY \in Nat
  <2>1. <<t, pos[t]>> \in Hits
    BY <1>1, <1>4
  <2>2. <<t, pos[t]>> \notin Done
    BY <1>1, <1>2 DEF Done
  <2> QED
    BY <1>1, <1>3, <2>1, <2>2, DoneBound, JouxAssumption
<1>7. ASSUME NEW to \in {"copy", "load", "bump"}, tpc' = [tpc EXCEPT ![t] = to]
      PROVE  Done' = Done
  <2> SUFFICES ASSUME NEW hit \in Hits PROVE hit \in Done' <=> hit \in Done
    BY <1>5 DEF Done
  <2>1. hit[1] \in Joiner /\ hit[2] \in Nat
    BY DEF Hits
  <2>2. tpc[hit[1]] = "look" <=> tpc'[hit[1]] = "look"
    BY <1>1, <1>2, <1>7, <2>1
  <2> QED
    BY <1>1, <1>5, <2>2 DEF Done
<1>8. ASSUME NEW to \in {"copy", "bump"}, tpc[t] \in {"store", "load"}, tpc' = [tpc EXCEPT ![t] = to],
             \E s \in {seen[t], local.size} : reg' = [reg EXCEPT ![t] = s],
             pc' = pc, local' = local
      PROVE  Checks' /\ reg' \in [Joiner -> Nat] /\ Roomy(local)' /\ pc' = pc
  <2>1. PICK s : s \in Nat /\ s <= c /\ reg' = [reg EXCEPT ![t] = s]
    <3>1. seen[t] \in Nat /\ seen[t] <= c
      BY <1>2, <1>4, <1>8
    <3> QED
      BY <1>4, <1>8, <3>1
  <2>2. Done' = Done
    BY <1>7, <1>8
  <2>3. \A u \in Joiner : /\ tpc'[u] = IF u = t THEN to ELSE tpc[u]
                          /\ reg'[u] = IF u = t THEN s ELSE reg[u]
    BY <1>2, <1>8, <2>1
  <2>4. tpc' \in [Joiner -> {"look", "store", "copy", "load", "bump"}] /\ reg' \in [Joiner -> Nat]
    BY <1>2, <1>8, <2>1
  <2>5. Checks'
    <3>1. local'.size <= Cardinality(Done')
      BY <1>3, <1>4, <1>8, <2>2
    <3>2. ASSUME NEW u \in Joiner
          PROVE  /\ tpc'[u] # "look" => <<u, pos'[u]>> \in Hits'
                 /\ tpc'[u] \in {"store", "copy", "load"} => seen'[u] <= Cardinality(Done')
                 /\ tpc'[u] \in {"copy", "bump"} => reg'[u] <= Cardinality(Done')
      BY <1>1, <1>3, <1>4, <1>5, <1>6, <1>8, <2>1, <2>2, <2>3
    <3> QED
      BY <2>4, <3>1, <3>2 DEF Checks
  <2>6. Roomy(local')
    BY <1>2, <1>8
  <2> QED
    BY <1>8, <2>4, <2>5, <2>6 DEF Roomy
<1>9. CASE Copy(t)
  <2>1. tpc[t] = "copy" /\ reg' = reg
    BY <1>9 DEF Copy
  <2>2. reg[t] \in Nat /\ reg[t] <= c /\ local.room = CAPACITY
    <3>1. local.room = CAPACITY
      BY <1>2 DEF Roomy
    <3>2. reg[t] \in Nat /\ reg[t] <= c
      BY <1>2, <1>4, <2>1
    <3> QED
      BY <3>1, <3>2
  <2>3. /\ local' = Copied(local, reg[t], word[t], preselected[t][pos[t]])
        /\ tpc' = tpc \/ tpc' = [tpc EXCEPT ![t] = "load"]
        /\ pc' = pc
    BY <1>6, <1>9, <2>2 DEF Copy
  <2>4. Done' = Done
    <3>1. CASE tpc' = tpc
      BY <1>1, <1>5, <3>1 DEF Done
    <3>2. CASE tpc' = [tpc EXCEPT ![t] = "load"]
      BY <1>7, <3>2
    <3> QED
      BY <2>3, <3>1, <3>2
  <2>5. Roomy(local') /\ local'.size = local.size
    <3>1. PICK entry : local' = Stored(local, reg[t], entry)
      BY <2>3 DEF Copied
    <3> QED
      BY <1>2, <3>1, StoredRoom
  <2>6. \A u \in Joiner : tpc'[u] = tpc[u] \/ (u = t /\ tpc'[u] = "load")
    <3>1. tpc \in [Joiner -> {"look", "store", "copy", "load", "bump"}]
      BY <1>2
    <3>2. tpc' = tpc \/ tpc' = [tpc EXCEPT ![t] = "load"]
      BY <2>3
    <3> QED
      BY <3>1, <3>2
  <2>7. Checks'
    <3>1. tpc' \in [Joiner -> {"look", "store", "copy", "load", "bump"}]
      BY <1>2, <2>3
    <3>2. local'.size <= Cardinality(Done')
      BY <1>3, <1>4, <2>4, <2>5
    <3>3. ASSUME NEW u \in Joiner
          PROVE  /\ tpc'[u] # "look" => <<u, pos'[u]>> \in Hits'
                 /\ tpc'[u] \in {"store", "copy", "load"} => seen'[u] <= Cardinality(Done')
                 /\ tpc'[u] \in {"copy", "bump"} => reg'[u] <= Cardinality(Done')
      BY <1>1, <1>3, <1>4, <1>5, <1>6, <2>1, <2>4, <2>6
    <3> QED
      BY <3>1, <3>2, <3>3 DEF Checks
  <2> QED
    BY <1>2, <2>1, <2>3, <2>5, <2>7 DEF Roomy
<1>10. CASE Bump(t)
  <2>1. tpc[t] = "bump" /\ pc' = pc /\ local' = [local EXCEPT !.size = reg[t] + 1]
        /\ tpc' = [tpc EXCEPT ![t] = "look"] /\ reg' = reg
    BY <1>10 DEF Bump
  <2>2. Done' = Done \cup {<<t, pos[t]>>}
    <3> SUFFICES ASSUME NEW hit \in Hits PROVE hit \in Done' <=> hit \in Done \/ hit = <<t, pos[t]>>
      BY <1>5, <1>6 DEF Done
    <3>1. hit[1] \in Joiner /\ hit[2] \in Nat /\ hit = <<hit[1], hit[2]>>
      BY DEF Hits
    <3>2. CASE hit[1] # t
      BY <1>1, <1>2, <1>5, <2>1, <3>1, <3>2 DEF Done
    <3>3. CASE hit[1] = t
      <4>1. tpc'[t] = "look" /\ pos' = pos
        BY <1>1, <1>2, <2>1
      <4>2. hit \in Done' <=> hit[2] < pos[t] \/ hit[2] = pos[t]
        BY <1>5, <3>3, <4>1 DEF Done
      <4>3. hit \in Done <=> hit[2] < pos[t]
        BY <2>1, <3>3 DEF Done
      <4>4. hit = <<t, pos[t]>> <=> hit[2] = pos[t]
        BY <3>1, <3>3
      <4> QED
        BY <4>2, <4>3, <4>4
    <3> QED
      BY <3>2, <3>3
  <2>3. Cardinality(Done') = c + 1
    <3>1. IsFiniteSet(Done)
      BY <1>1, DoneBound
    <3> QED
      BY <1>3, <1>6, <2>2, <3>1, FS_AddElement
  <2>4. reg[t] \in Nat /\ reg[t] <= c
    BY <1>2, <1>4, <2>1
  <2>5. Roomy(local') /\ local'.size = reg[t] + 1
    BY <1>2, <2>1, <2>4 DEF Roomy
  <2>6. \A u \in Joiner : tpc'[u] = IF u = t THEN "look" ELSE tpc[u]
    BY <1>2, <2>1
  <2>7. Checks'
    <3>1. tpc' \in [Joiner -> {"look", "store", "copy", "load", "bump"}]
      BY <1>2, <2>1
    <3>2. local'.size <= Cardinality(Done')
      BY <2>3, <2>4, <2>5
    <3>3. ASSUME NEW u \in Joiner
          PROVE  /\ tpc'[u] # "look" => <<u, pos'[u]>> \in Hits'
                 /\ tpc'[u] \in {"store", "copy", "load"} => seen'[u] <= Cardinality(Done')
                 /\ tpc'[u] \in {"copy", "bump"} => reg'[u] <= Cardinality(Done')
      <4>1. seen[u] \in Nat /\ reg[u] \in Nat
        BY <1>2
      <4> QED
        BY <1>1, <1>4, <1>5, <2>1, <2>3, <2>6, <4>1
    <3> QED
      BY <3>1, <3>2, <3>3 DEF Checks
  <2> QED
    BY <1>2, <2>1, <2>5, <2>7 DEF Roomy
<1>11. CASE Store(t)
  <2>1. /\ tpc[t] = "store" /\ tpc' = [tpc EXCEPT ![t] = "copy"] /\ pc' = pc /\ local' = local
        /\ \E at \in {seen[t], local.size} : reg' = [reg EXCEPT ![t] = at]
    BY <1>11 DEF Store
  <2> QED
    BY <1>8, <2>1
<1>12. CASE Load(t)
  <2>1. /\ tpc[t] = "load" /\ tpc' = [tpc EXCEPT ![t] = "bump"] /\ pc' = pc /\ local' = local
        /\ \E at \in {seen[t], local.size} : reg' = [reg EXCEPT ![t] = at]
    BY <1>12 DEF Load
  <2> QED
    BY <1>8, <2>1
<1> QED
  BY <1>9, <1>10, <1>11, <1>12

\* CheckInv holds initially ...
LEMMA CheckInit ==
  ASSUME Init
  PROVE  CheckInv
<1>1. /\ pc \in {"gemm", "done"} /\ lifted = 0 /\ nslice = 1 /\ task \in Tasks
      /\ pos = Zeros /\ seen = Zeros /\ reg = Zeros /\ local = NewResult /\ result = NewResult
  BY DEF Init
<1>2. Zeros \in [Joiner -> Nat]
  BY DEF Zeros
<1>3. Cardinality(ReportsUpTo(nslice - 1)) \in Nat
  BY <1>1, UpTo
<1>4. result.size <= Cardinality(ReportsUpTo(nslice - 1)) + lifted
  BY <1>1, <1>3, NewRoom
<1> QED
  BY <1>1, <1>2, <1>4, NewRoom DEF CheckInv

\* Nothing happens to the lists of solutions.
LEMMA CheckKept ==
  ASSUME CheckInv, Same, UNCHANGED <<local, pos, seen, reg, lifted, result>>,
         pc \in {"gemm", "partition", "subjoin"}, Fits => pc' \in {"gemm", "partition", "subjoin"}
  PROVE  CheckInv'
<1>1. task' = task /\ tsize' = tsize /\ nslice' = nslice
  BY DEF Same
<1>2. Fits' = Fits /\ \A m : ReportsUpTo(m)' = ReportsUpTo(m)
  BY <1>1, SameFits
<1> SUFFICES ASSUME Fits PROVE CheckInv'
  BY <1>2 DEF CheckInv
<1>3. PICK m : m = nslice - 1
  OBVIOUS
<1>4. ReportsUpTo(nslice - 1)' = ReportsUpTo(m) /\ ReportsUpTo(nslice - 1) = ReportsUpTo(m)
  BY <1>1, <1>2, <1>3
<1>5. /\ pos \in [Joiner -> Nat] /\ seen \in [Joiner -> Nat] /\ reg \in [Joiner -> Nat]
      /\ Roomy(local) /\ Roomy(result) /\ lifted \in Nat /\ local.size = 0 /\ lifted = 0
      /\ result.size <= Cardinality(ReportsUpTo(m)) + lifted
  BY <1>4 DEF CheckInv
<1>6. Roomy(local)' /\ Roomy(result)'
  BY <1>5 DEF Roomy
<1> QED
  BY <1>2, <1>4, <1>5, <1>6 DEF CheckInv

\* ... and in every step.
LEMMA CheckNext ==
  ASSUME JoinTaskInv, CheckInv, [Next]_vars
  PROVE  CheckInv'
<1>0. TypeInv /\ PartInv /\ JoinInv
  BY DEF JoinTaskInv
<1>1. CASE Gemm
  <2>1. Same /\ UNCHANGED <<local, pos, seen, reg, lifted, result>> /\ pc = "gemm" /\ pc' = "partition"
    BY <1>1 DEF Gemm, Same, checkVars
  <2> QED
    BY <2>1, CheckKept
<1>2. ASSUME NEW t \in Parter, Dispatch(t) PROVE CheckInv'
  <2>1. Same /\ UNCHANGED <<local, pos, seen, reg, lifted, result>> /\ pc = "partition" /\ Busy
    BY <1>2 DEF Dispatch, Same, checkVars, Busy
  <2>2. Fits => pc' = pc
    BY <1>0, <1>2, <2>1, FitsSlice, DispatchFits
  <2> QED
    BY <2>1, <2>2, CheckKept
<1>3. CASE Partitioned
  <2>1. Same /\ UNCHANGED <<local, pos, seen, reg, lifted, result>> /\ pc = "partition"
        /\ pc' \in {"partition", "subjoin"}
    BY <1>3 DEF Partitioned, Same, checkVars
  <2> QED
    BY <2>1, CheckKept
<1>4. ASSUME NEW t \in Joiner, Subjoin(t) PROVE CheckInv'
  <2>1. Same /\ UNCHANGED <<local, pos, seen, reg, lifted, result>> /\ pc = "subjoin" /\ Busy
    BY <1>4 DEF Subjoin, Same, checkVars, Busy
  <2>2. Fits => pc' = pc
    BY <1>0, <1>4, <2>1, FitsSlice, SubjoinFits
  <2> QED
    BY <2>1, <2>2, CheckKept
<1>5. ASSUME Same PROVE /\ Fits' = Fits
                        /\ slice' = slice /\ Cardinality(Reports(slice))' = Cardinality(Reports(slice))
                        /\ Cardinality(ReportsUpTo(nslice - 1))' = Cardinality(ReportsUpTo(nslice - 1))
  <2>1. task' = task /\ tsize' = tsize /\ nslice' = nslice /\ slice' = slice
    BY <1>5, SameTask DEF Same
  <2>2. Fits' = Fits /\ (\A m : ReportsUpTo(m)' = ReportsUpTo(m)) /\ \A s : Reports(s)' = Reports(s)
    BY <2>1, SameFits
  <2>3. PICK m, s : m = nslice - 1 /\ s = slice
    OBVIOUS
  <2> QED
    BY <2>1, <2>2, <2>3
<1>6. CASE Joined
  <2>1. SameHits /\ pc = "subjoin" /\ pc' = "checkup" /\ tpc' = [t \in Joiner |-> "look"] /\ pos' = Zeros
        /\ UNCHANGED <<local, seen, reg, lifted, result>>
    BY <1>6 DEF Joined, SameHits, Same, joinVars
  <2> SUFFICES ASSUME Fits PROVE CheckInv'
    BY <1>5, <2>1 DEF CheckInv, SameHits
  <2>2. /\ seen \in [Joiner -> Nat] /\ reg \in [Joiner -> Nat]
        /\ Roomy(local) /\ Roomy(result) /\ local.size = 0 /\ lifted = 0
        /\ result.size <= Cardinality(ReportsUpTo(nslice - 1)) + lifted
    BY <2>1 DEF CheckInv
  <2>3. \A t \in Joiner : preselected[t] \in Seq(Triples)
    BY <1>0, <2>1, FitsSlice DEF JoinInv, Holding, Busy
  <2>4. \A hit \in Hits : hit[1] \in Joiner /\ hit[2] \in Nat /\ hit[2] >= 1
    BY <2>3 DEF Hits
  <2>5. Done' = {}
    <3>1. Hits' = Hits
      BY <2>1, HitsKept
    <3>2. \A hit \in Hits : ~(hit[2] < pos'[hit[1]]) /\ hit[2] # pos'[hit[1]]
      BY <2>1, <2>4 DEF Zeros
    <3> QED
      BY <3>1, <3>2 DEF Done
  <2>6. Cardinality(Done') = 0
    BY <2>5, FS_EmptySet
  <2>7. Checks'
    BY <2>1, <2>2, <2>6 DEF Checks
  <2>8. Roomy(local)' /\ Roomy(result)' /\ pos' \in [Joiner -> Nat]
    BY <2>1, <2>2 DEF Roomy, Zeros
  <2>9. result'.size <= Cardinality(ReportsUpTo(nslice - 1))' + lifted'
    BY <1>5, <2>1, <2>2 DEF SameHits
  <2> QED
    BY <2>1, <2>2, <2>7, <2>8, <2>9 DEF CheckInv
<1>7. ASSUME NEW t \in Joiner, Look(t) \/ Store(t) \/ Copy(t) \/ Load(t) \/ Bump(t) PROVE CheckInv'
  <2>1. Same /\ pc = "checkup" /\ UNCHANGED <<lifted, result>>
    BY <1>7 DEF Look, Store, Copy, Load, Bump, Same
  <2> SUFFICES ASSUME Fits PROVE CheckInv'
    BY <1>5, <2>1 DEF CheckInv
  <2>2. /\ pos \in [Joiner -> Nat] /\ seen \in [Joiner -> Nat] /\ reg \in [Joiner -> Nat]
        /\ Roomy(result) /\ lifted \in Nat /\ lifted = 0
        /\ result.size <= Cardinality(ReportsUpTo(nslice - 1)) + lifted
    BY <2>1 DEF CheckInv
  <2>3. Checks' /\ pos' \in [Joiner -> Nat] /\ seen' \in [Joiner -> Nat] /\ reg' \in [Joiner -> Nat]
        /\ Roomy(local)' /\ pc' = pc
    <3>1. CASE Look(t)
      <4>1. reg' = reg
        BY <3>1 DEF Look
      <4> QED
        BY <2>2, <3>1, <4>1, LookStep
    <3>2. CASE Store(t) \/ Copy(t) \/ Load(t) \/ Bump(t)
      <4>1. pos' = pos /\ seen' = seen
        BY <3>2 DEF Store, Copy, Load, Bump
      <4> QED
        BY <2>2, <3>2, <4>1, ReportStep
    <3> QED
      BY <1>7, <3>1, <3>2
  <2>4. Roomy(result)' /\ result'.size <= Cardinality(ReportsUpTo(nslice - 1))' + lifted'
    BY <1>5, <2>1, <2>2 DEF Roomy
  <2> QED
    BY <2>1, <2>2, <2>3, <2>4 DEF CheckInv
<1>8. CASE Checked
  <2>1. Same /\ pc = "checkup" /\ pc' = "lift" /\ pos' = Zeros /\ seen' = Zeros /\ reg' = Zeros
        /\ UNCHANGED <<local, lifted, result>>
    BY <1>8 DEF Checked, Same
  <2> SUFFICES ASSUME Fits PROVE CheckInv'
    BY <1>5, <2>1 DEF CheckInv
  <2>2. /\ Roomy(local) /\ Roomy(result) /\ lifted = 0 /\ local.size <= Cardinality(Done)
        /\ result.size <= Cardinality(ReportsUpTo(nslice - 1)) + lifted
    BY <2>1 DEF CheckInv, Checks
  <2>3. local.size \in Nat /\ local.size <= Cardinality(Reports(slice))
    <3>1. Cardinality(Done) \in Nat /\ Cardinality(Done) <= Cardinality(Reports(slice))
      BY <2>1, DoneBound
    <3>2. Cardinality(Reports(slice)) \in Nat
      BY <1>0, PairsFinite DEF TypeInv
    <3> QED
      BY <2>2, <3>1, <3>2 DEF Roomy
  <2>4. Roomy(local)' /\ Roomy(result)' /\ Zeros \in [Joiner -> Nat]
    BY <2>1, <2>2 DEF Roomy, Zeros
  <2>5. /\ local'.size <= Cardinality(Reports(slice))' /\ lifted' <= local'.size
        /\ result'.size <= Cardinality(ReportsUpTo(nslice - 1))' + lifted'
    BY <1>5, <2>1, <2>2, <2>3
  <2> QED
    BY <2>1, <2>2, <2>4, <2>5 DEF CheckInv
<1>9. CASE Lift
  <2>1. Same /\ pc = "lift" /\ lifted < local.size /\ lifted' = lifted + 1
        /\ UNCHANGED <<local, pos, seen, reg>>
    BY <1>9 DEF Lift, Same, checkVars
  <2> SUFFICES ASSUME Fits PROVE CheckInv'
    BY <1>5, <2>1 DEF CheckInv
  <2>2. /\ pos \in [Joiner -> Nat] /\ seen \in [Joiner -> Nat] /\ reg \in [Joiner -> Nat]
        /\ Roomy(local) /\ Roomy(result) /\ lifted \in Nat
        /\ local.size <= Cardinality(Reports(slice))
        /\ result.size <= Cardinality(ReportsUpTo(nslice - 1)) + lifted
    BY <2>1 DEF CheckInv
  <2>3. /\ local.size \in Nat /\ result.size \in Nat /\ result.room = CAPACITY
        /\ Cardinality(Reports(slice)) \in Nat /\ Cardinality(ReportsUpTo(nslice - 1)) \in Nat
        /\ Cardinality(ReportsUpTo(nslice - 1)) + Cardinality(Reports(slice)) <= CAPACITY /\ CAPACITY \in Nat
    BY <1>0, <2>1, <2>2, SliceReports, JouxAssumption DEF Roomy, Busy
  <2>4. result.size < CAPACITY
    BY <2>1, <2>2, <2>3
  <2>5. Grown(result) = result
    BY <2>2, <2>4, GrownRoom
  <2>6. PICK sol : /\ result' = [Stored(result, result.size, sol) EXCEPT !.size = @ + 1]
                   /\ pc' = pc
    BY <1>9, <2>3, <2>4, <2>5 DEF Lift
  <2>7. PICK r : r = Stored(result, result.size, sol)
    OBVIOUS
  <2>8. Roomy(r) /\ r.size = result.size
    BY <2>2, <2>7, StoredRoom
  <2>9. Roomy(result') /\ result'.size = result.size + 1
    <3>1. result' = [r EXCEPT !.size = @ + 1]
      BY <2>6, <2>7
    <3> QED
      BY <2>3, <2>8, <3>1 DEF Roomy
  <2>10. Roomy(local)'
    BY <2>1, <2>2 DEF Roomy
  <2>11. /\ local'.size <= Cardinality(Reports(slice))' /\ lifted' <= local'.size /\ lifted' \in Nat
         /\ result'.size <= Cardinality(ReportsUpTo(nslice - 1))' + lifted'
    BY <1>5, <2>1, <2>2, <2>3, <2>9
  <2> QED
    BY <2>1, <2>2, <2>6, <2>9, <2>10, <2>11 DEF CheckInv, Roomy
<1>10. CASE EndSlice
  <2>1. /\ task' = task /\ tsize' = tsize /\ nslice' = nslice + 1 /\ pc = "lift" /\ lifted = local.size
        /\ pc' \in {"gemm", "done"} /\ local' = NewResult /\ lifted' = 0
        /\ UNCHANGED <<pos, seen, reg, result>>
    BY <1>10 DEF EndSlice, NextSlice
  <2>2. Fits' = Fits /\ \A m : ReportsUpTo(m)' = ReportsUpTo(m)
    BY <2>1, SameFits
  <2> SUFFICES ASSUME Fits PROVE CheckInv'
    BY <2>2 DEF CheckInv
  <2>3. /\ pos \in [Joiner -> Nat] /\ seen \in [Joiner -> Nat] /\ reg \in [Joiner -> Nat]
        /\ Roomy(result) /\ lifted \in Nat
        /\ local.size <= Cardinality(Reports(slice))
        /\ result.size <= Cardinality(ReportsUpTo(nslice - 1)) + lifted
    BY <2>1 DEF CheckInv
  <2>4. PICK m : m = nslice /\ m \in Nat
    BY <1>0 DEF TypeInv
  <2>5. nslice' - 1 = m
    BY <2>1, <2>4
  <2>6. ReportsUpTo(nslice - 1)' = ReportsUpTo(m)
    BY <2>2, <2>5
  <2>7. result.size <= Cardinality(ReportsUpTo(m)) /\ Cardinality(ReportsUpTo(m)) \in Nat /\ result.size \in Nat
    <3>1. /\ Cardinality(Reports(slice)) \in Nat /\ Cardinality(ReportsUpTo(nslice - 1)) \in Nat
          /\ Cardinality(ReportsUpTo(nslice)) = Cardinality(ReportsUpTo(nslice - 1)) + Cardinality(Reports(slice))
      BY <1>0, <2>1, SliceReports DEF Busy
    <3> QED
      BY <2>1, <2>3, <2>4, <3>1 DEF Roomy
  <2>8. Roomy(local)' /\ Roomy(result)' /\ local'.size = 0
    BY <2>1, <2>3, NewRoom DEF Roomy
  <2>9. result'.size <= Cardinality(ReportsUpTo(nslice - 1))' + lifted'
    BY <2>1, <2>6, <2>7
  <2> QED
    BY <2>1, <2>3, <2>8, <2>9 DEF CheckInv
<1>11. CASE UNCHANGED vars
  <2>1. SameHits /\ UNCHANGED <<pc, local, tpc, pos, seen, reg, lifted, result>>
    BY <1>11 DEF vars, SameHits, Same, joinVars, checkVars
  <2>2. Same
    BY <2>1 DEF SameHits
  <2>3. Done' = Done
    BY <2>1, HitsKept DEF Done
  <2>4. Hits' = Hits
    BY <2>1, HitsKept
  <2>5. Checks' = Checks
    BY <2>1, <2>3, <2>4 DEF Checks
  <2>6. Roomy(local)' = Roomy(local) /\ Roomy(result)' = Roomy(result)
    BY <2>1 DEF Roomy
  <2> QED
    BY <1>5, <2>1, <2>2, <2>5, <2>6 DEF CheckInv
<1> QED
  BY <1>1, <1>2, <1>3, <1>4, <1>6, <1>7, <1>8, <1>9, <1>10, <1>11 DEF Next, Stop

\* A task that the sizes are meant for is never written out of bounds and never
\* hangs: the buckets of phase 2, the tables of subjoin, the threads' preselected
\* and the two lists of solutions, whatever the number of threads and the
\* interleaving, the races of phase 4 on the shared list included.
THEOREM InBoundsHolds == Spec => []InBounds
<1>1. Init => JoinTaskInv /\ CheckInv
  BY InvInit, CheckInit
<1>2. JoinTaskInv /\ CheckInv /\ [Next]_vars => JoinTaskInv' /\ CheckInv'
  BY InvNext, CheckNext
<1>3. CheckInv => InBounds
  BY DEF CheckInv, InBounds
<1> QED
  BY <1>1, <1>2, <1>3, PTL DEF Spec

(***************************************************************************)
(* What the task reports                                                   *)
(***************************************************************************)
\* What a thread has counted it has also written, though not all of it need be in
\* its own bucket.
Written ==
    pc # "undefined" =>
        \A k \in Side, t \in Parter, part \in Partition :
            \A a \in BucketStart(k, t, part) .. count[k][t][part] - 1 :
                a \in 0 .. ScratchSize(k) - 1 /\ scratch[k][a] \in Word

\* What TypeOK says beyond TypeInv.  Between its phases a thread is at position 0,
\* so that its preselected can be emptied.
RangeInv ==
    /\ nslice <= Len(task.slices) + 1 /\ (pc = "done" => nslice = Len(task.slices) + 1)
    /\ hit0 \in BOOLEAN
    /\ \A t \in Parter : cursor[t] <= n(side)
    /\ nexti <= fan_out
    /\ tpc \in [Joiner -> {"idle", "look", "store", "copy", "load", "bump"}]
    /\ pos \in [Joiner -> Nat]
    /\ \A t \in Joiner : preselected[t] \in Seq(Triples) /\ pos[t] <= Len(preselected[t])
    /\ pc \notin {"checkup", "undefined", "hang"} => pos = Zeros

\* A thread that copies is at one of the words; the others are at the first.
WordInv ==
    /\ word \in [Joiner -> 1 .. 3]
    /\ \A t \in Joiner : word[t] # 1 => tpc[t] = "copy" /\ pc \in {"checkup", "undefined"}

\* Entries whose words are each in its place but come from any of T.
Mixtures(T) == {<<a[1], b[2], c[3]>> : a, b, c \in T}

\* The slice's reports; the entries that threads may leave when they have copied
\* theirs over each other, and what an entry may be before they have finished.
Triplets == {TripleOf[q] : q \in Reports(slice)}
Reported == {NoEntry} \cup Mixtures(Triplets)
Underway == Mixtures({NoEntry} \cup Triplets)

\* The same of the task's result.
Given(s) == {Triple(task.L[0][q[1]], task.L[1][q[2]]) : q \in Reports(s)}
Answered == {NoEntry} \cup UNION {Mixtures(Given(s)) : s \in ToSet(task.slices)}

\* What a copying thread has written stays written, and an entry that is partly
\* written is one that a thread is still copying.
Writing(t) ==
    tpc[t] = "copy" =>
        \A k \in 1 .. word[t] - 1 :
            reg[t] < Len(local.solutions) /\ local.solutions[reg[t] + 1][k] # Garbage
Blank(entry) == \A k \in 1 .. 3 : entry[k] = Garbage
Copies ==
    /\ \A t \in Joiner : Writing(t)
    /\ \A m \in 1 .. Len(local.solutions), k \in 1 .. 3 :
         local.solutions[m][k] = Garbage =>
             \/ Blank(local.solutions[m])
             \/ \E t \in Joiner : tpc[t] = "copy" /\ reg[t] + 1 = m /\ word[t] \in 2 .. k

\* Nothing else gets into the lists of solutions, however copies overlap.
EntryInv ==
    Fits =>
      /\ pc = "checkup" => local.solutions \in Seq(Underway) /\ Copies
      /\ pc = "lift" => local.solutions \in Seq(Reported)
      /\ pc \notin {"checkup", "lift"} => local.solutions = <<>>
      /\ result.solutions \in Seq(Answered)

Sparse == \A s \in ToSet(task.slices) : Cardinality(Reports(s)) <= 1

\* The solutions of the first m slices, and the triple of a report.
WantedUpTo(m) ==
    {q \in (DOMAIN task.slices) \X Pairs : q[1] <= m /\ Solves(task.slices[q[1]], q[2][1], q[2][2])}
Original == [q \in (DOMAIN task.slices) \X Pairs |-> Triple(task.L[0][q[2][1]], task.L[1][q[2][2]])]

\* A list holds the solutions of the first m slices, each once, and perhaps pairs
\* of equal words.
Complete(list, m) ==
    \E F \in SUBSET ReportsUpTo(m) : WantedUpTo(m) \subseteq F /\ Enumerates(list, F, Original)

\* The first solution of the list is that of thread t's triple e.
First(t, e) == Len(local.solutions) >= 1 /\ local.solutions[1] = preselected[t][e]

\* The words of it that thread t has copied are there.
Begun(t) == \A k \in 1 .. word[t] - 1 : EntryAt(local, 0)[k] = preselected[t][pos[t]][k]

\* How many slices the result covers.
Covered == IF pc = "lift" /\ lifted = local.size THEN nslice ELSE nslice - 1

\* A thread that is alone in reporting overwrites nothing ...
Alone ==
    /\ \A t \in Joiner : tpc[t] \in {"load", "bump"} => First(t, pos[t])
    /\ \A t \in Joiner : tpc[t] = "copy" => Begun(t)
    /\ Done # {} => local.size = 1 /\ \E hit \in Done : First(hit[1], hit[2])

\* ... its solution is there to be lifted, unless there is none ...
Brought ==
    /\ local.size = 1 => Len(local.solutions) >= 1 /\ \E q \in Reports(slice) : local.solutions[1] = TripleOf[q]
    /\ local.size = 0 => \A q \in Pairs : ~Solves(slice, q[1], q[2])

\* ... and the result has the solutions of the slices it covers.
SparseInv ==
    Fits /\ Sparse =>
      /\ Len(result.solutions) = result.size
      /\ pc = "checkup" => Alone
      /\ pc = "lift" => Brought
      /\ Complete(Entries(result), Covered)

-----------------------------------------------------------------------------
\* Flattened lists of a type are a list of it.
LEMMA FlattenType ==
  ASSUME NEW T, NEW seqs \in Seq(Seq(T))
  PROVE  FlattenSeq(seqs) \in Seq(T)
<1>1. CASE Len(seqs) = 0
  <2>1. seqs = <<>>
    BY <1>1
  <2>2. FlattenSeq(seqs) = seqs
    BY <2>1 DEF FlattenSeq
  <2>3. <<>> \in Seq(T)
    OBVIOUS
  <2> QED
    BY <2>1, <2>2, <2>3
<1>2. CASE Len(seqs) # 0
  <2>1. PICK N \in Nat \ {0} : N = Len(seqs)
    BY <1>2
  <2>2. PICK f \in [1 .. N -> Seq(T)] : Partial(f, seqs, N)
    BY <2>1, FlattenIs
  <2>3. N \in 1 .. N
    BY <2>1
  <2> QED
    BY <2>2, <2>3 DEF Partial
<1> QED
  BY <1>1, <1>2

\* A function on the numbers from 1 is a list.
LEMMA ListOf ==
  ASSUME NEW T, NEW size \in Int, NEW f, f = [e \in 1 .. size |-> f[e]], \A e \in 1 .. size : f[e] \in T
  PROVE  f \in Seq(T)
<1>1. PICK N \in Nat : 1 .. size = 1 .. N
  <2>1. CASE size \in Nat
    BY <2>1
  <2>2. CASE size \notin Nat
    <3>1. 1 .. size = 1 .. 0
      BY <2>2
    <3> QED
      BY <3>1
  <2> QED
    BY <2>1, <2>2
<1>2. f \in [1 .. N -> T]
  BY <1>1
<1> QED
  BY <1>2, FunctionSeq

\* What the threads of phase 2 have written is words, whether a bucket has run over or not.
LEMMA ScatteredType ==
  ASSUME TypeInv, Written, pc # "undefined", NEW k \in Side, NEW part \in Partition
  PROVE  Scattered(k, part) \in Seq(Word)
<1> DEFINE seqs == [t \in 1 .. T_part |-> Bucket(k, t - 1, part)]
<1>1. ASSUME NEW t \in Parter PROVE Bucket(k, t, part) \in Seq(Word)
  <2>1. PICK b \in Nat, c \in Nat : b = BucketStart(k, t, part) /\ c = count[k][t][part]
    BY BlockType, WordsHavePartitions DEF TypeInv
  <2>2. \A a \in b .. c - 1 : scratch[k][a] \in Word
    BY <2>1 DEF Written
  <2>3. PICK f : f = [e \in 1 .. c - b |-> scratch[k][b + e - 1]]
    OBVIOUS
  <2>4. \A e \in 1 .. c - b : b + e - 1 \in b .. c - 1
    OBVIOUS
  <2>5. \A e \in 1 .. c - b : f[e] \in Word
    BY <2>2, <2>3, <2>4
  <2>6. f \in Seq(Word)
    BY <2>3, <2>5, ListOf
  <2> QED
    BY <2>1, <2>3, <2>6 DEF Bucket
<1>2. \A t \in 1 .. T_part : t - 1 \in Parter
  BY Sizes DEF Parter
<1>3. seqs \in [1 .. T_part -> Seq(Word)]
  BY <1>1, <1>2
<1>4. seqs \in Seq(Seq(Word))
  BY <1>3, FunctionSeq, Sizes
<1>5. Scattered(k, part) = FlattenSeq(seqs)
  BY DEF Scattered, Bucket
<1> QED
  BY <1>4, <1>5, FlattenType

\* What a word matches is words.
LEMMA MatchesType ==
  ASSUME NEW A \in Seq(Word), NEW y
  PROVE  Matches(A, y) \in Seq(Word)
<1> DEFINE seqs == [e \in DOMAIN A |-> IF Agree(A[e], y) THEN <<A[e]>> ELSE <<>>]
<1>1. PICK N \in Nat : N = Len(A) /\ DOMAIN A = 1 .. N /\ \A e \in 1 .. N : A[e] \in Word
  OBVIOUS
<1>2. \A w \in Word : <<w>> \in Seq(Word)
  OBVIOUS
<1>3. seqs \in [1 .. N -> Seq(Word)]
  BY <1>1, <1>2
<1>4. seqs \in Seq(Seq(Word))
  BY <1>3, FunctionSeq
<1> QED
  BY <1>4, FlattenType DEF Matches

\* The sum of two words is a word.
LEMMA XorType == \A w, y \in Word : Xor(w, y) \in Word
  BY DEF Xor, SymDiff, Word

\* What subjoin emits is triples.
LEMMA SubjoinType ==
  ASSUME TypeInv, Written, pc # "undefined", NEW part \in Partition
  PROVE  subjoin(part) \in Seq(Triples)
<1> DEFINE A == Scattered(0, part)
           B == Scattered(1, part)
           Emitted(y) == LET X == Matches(A, y)
                         IN  [e \in DOMAIN X |-> <<X[e], y, Xor(X[e], y)>>]
           seqs == [e \in DOMAIN B |-> Emitted(B[e])]
<1>0. 0 \in Side /\ 1 \in Side
  BY DEF Side
<1>1. A \in Seq(Word) /\ B \in Seq(Word)
  BY <1>0, ScatteredType
<1>2. subjoin(part) = FlattenSeq(seqs)
  BY DEF subjoin
<1> HIDE DEF A, B
<1>3. ASSUME NEW y \in Word PROVE Emitted(y) \in Seq(Triples)
  <2>1. PICK X : X = Matches(A, y) /\ X \in Seq(Word)
    BY <1>1, MatchesType
  <2>2. PICK N \in Nat : N = Len(X) /\ DOMAIN X = 1 .. N /\ \A e \in 1 .. N : X[e] \in Word
    BY <2>1
  <2>3. PICK f : f = [e \in 1 .. N |-> <<X[e], y, Xor(X[e], y)>>]
    OBVIOUS
  <2>4. f \in [1 .. N -> Triples]
    BY <2>2, <2>3, XorType DEF Triples
  <2>5. f \in Seq(Triples)
    BY <2>4, FunctionSeq
  <2> QED
    BY <2>1, <2>2, <2>3, <2>5
<1> HIDE DEF Emitted
<1>4. PICK N \in Nat : N = Len(B) /\ DOMAIN B = 1 .. N /\ \A e \in 1 .. N : B[e] \in Word
  BY <1>1
<1>5. seqs \in [1 .. N -> Seq(Triples)]
  BY <1>3, <1>4
<1>6. seqs \in Seq(Seq(Triples))
  BY <1>5, FunctionSeq
<1> QED
  BY <1>2, <1>6, FlattenType

\* Nothing has been written initially ...
LEMMA WrittenInit ==
  ASSUME Init
  PROVE  Written
<1>1. TypeInv
  BY TypeInit
<1>2. \A k \in Side, t \in Parter, part \in Partition : BucketStart(k, t, part) \in Nat
  BY <1>1, BlockType, WordsHavePartitions DEF TypeInv
<1>3. \A k \in Side, t \in Parter, part \in Partition : count[k][t][part] = 0
  BY DEF Init
<1>4. ASSUME NEW k \in Side, NEW t \in Parter, NEW part \in Partition,
             NEW a \in BucketStart(k, t, part) .. count[k][t][part] - 1
      PROVE  FALSE
  BY <1>2, <1>3
<1> QED
  BY <1>4 DEF Written

\* ... and every step writes what it counts.
LEMMA WrittenNext ==
  ASSUME TypeInv, PartInv, Written, [Next]_vars
  PROVE  Written'
<1>0. \A k \in Side, t \in Parter, part \in Partition : BucketStart(k, t, part) \in Nat
  BY BlockType, WordsHavePartitions DEF TypeInv
<1>1. tsize' = tsize
  BY DEF Next, Gemm, Dispatch, Partitioned, Subjoin, Joined, Look, Store, Copy, Load, Bump, Checked, Lift, EndSlice,
         Stop, vars
<1>2. /\ \A k : ScratchSize(k)' = ScratchSize(k)
      /\ \A k, t, part : BucketStart(k, t, part)' = BucketStart(k, t, part)
  BY <1>1 DEF ScratchSize, BucketStart, psize
<1>3. ASSUME count' = count, scratch' = scratch, pc # "undefined" \/ pc' = "undefined"
      PROVE  Written'
  BY <1>2, <1>3 DEF Written
<1>4. ASSUME NEW m \in Side, EnterPartition(m), scratch' = scratch, pc # "undefined"
      PROVE  Written'
  <2>1. /\ \A t \in Parter, part \in Partition : count'[m][t][part] = BucketStart(m, t, part)
        /\ \A k \in Side, t \in Parter, part \in Partition : k # m => count'[k][t][part] = count[k][t][part]
    BY <1>4 DEF EnterPartition, TypeInv
  <2>2. ASSUME NEW k \in Side, NEW t \in Parter, NEW part \in Partition,
               NEW a \in BucketStart(k, t, part) .. count'[k][t][part] - 1
        PROVE  a \in 0 .. ScratchSize(k) - 1 /\ scratch[k][a] \in Word
    <3>1. k # m
      BY <1>0, <2>1, <2>2
    <3> QED
      BY <1>4, <2>1, <2>2, <3>1 DEF Written
  <2> QED
    BY <1>2, <1>4, <2>2 DEF Written
<1>5. CASE Gemm
  <2>1. EnterPartition(0) /\ scratch' = scratch /\ pc # "undefined" /\ 0 \in Side
    BY <1>5 DEF Gemm, Side
  <2> QED
    BY <1>4, <2>1
<1>6. ASSUME NEW t \in Parter, Dispatch(t) PROVE Written'
  <2>1. PICK k, y, part, idx :
          /\ k \in Side /\ y \in Word /\ part \in Partition /\ k = side
          /\ idx = count[k][t][part] /\ idx \in Nat
          /\ count' = [count EXCEPT ![k][t][part] = @ + 1]
          /\ \/ idx < ScratchSize(k) /\ scratch' = [scratch EXCEPT ![k][idx] = y]
             \/ pc' = "undefined"
    <3>1. side \in Side /\ LM[side][cursor[t] + 1] \in Word
          /\ TopValue(LM[side][cursor[t] + 1], p) \in Partition
      BY <1>6, DispatchWord
    <3>2. count[side][t][TopValue(LM[side][cursor[t] + 1], p)] \in Nat
      BY <3>1 DEF TypeInv
    <3> QED
      BY <1>6, <3>1, <3>2 DEF Dispatch
  <2>2. CASE pc' = "undefined"
    BY <2>2 DEF Written
  <2>3. CASE idx < ScratchSize(k) /\ scratch' = [scratch EXCEPT ![k][idx] = y]
    <3>1. idx \in 0 .. ScratchSize(k) - 1
      BY <2>1, <2>3, BlockType, WordsHavePartitions DEF TypeInv
    <3>2. /\ scratch'[k][idx] = y
          /\ \A kk \in Side : \A a \in 0 .. ScratchSize(kk) - 1 :
                scratch'[kk][a] = IF kk = k /\ a = idx THEN y ELSE scratch[kk][a]
      <4>1. scratch = [kk \in Side |-> scratch[kk]]
            /\ \A kk \in Side : scratch[kk] \in [0 .. ScratchSize(kk) - 1 -> Word \cup {Garbage}]
        BY DEF TypeInv
      <4>2. \A kk \in Side : scratch'[kk] = IF kk = k THEN [scratch[kk] EXCEPT ![idx] = y] ELSE scratch[kk]
        BY <2>1, <2>3, <4>1
      <4> QED
        BY <2>1, <3>1, <4>1, <4>2
    <3>3. \A kk \in Side, u \in Parter, l \in Partition :
             count'[kk][u][l] = IF kk = k /\ u = t /\ l = part THEN idx + 1 ELSE count[kk][u][l]
      BY <2>1 DEF TypeInv
    <3>4. pc # "undefined"
      BY <1>6 DEF Dispatch
    <3>5. ASSUME NEW kk \in Side, NEW u \in Parter, NEW l \in Partition,
                 NEW a \in BucketStart(kk, u, l) .. count'[kk][u][l] - 1
          PROVE  a \in 0 .. ScratchSize(kk) - 1 /\ scratch'[kk][a] \in Word
      <4>1. \A d \in BucketStart(kk, u, l) .. count[kk][u][l] - 1 :
               d \in 0 .. ScratchSize(kk) - 1 /\ scratch[kk][d] \in Word
        BY <3>4 DEF Written
      <4>2. (kk = k /\ a = idx) \/ a \in BucketStart(kk, u, l) .. count[kk][u][l] - 1
        BY <1>0, <2>1, <3>3, <3>5
      <4> QED
        BY <2>1, <3>1, <3>2, <4>1, <4>2
    <3> QED
      BY <1>2, <3>5 DEF Written
  <2> QED
    BY <2>1, <2>2, <2>3
<1>7. CASE Partitioned
  <2>1. scratch' = scratch /\ pc # "undefined" /\ 1 \in Side
        /\ (EnterPartition(1) \/ count' = count)
    BY <1>7 DEF Partitioned, Side
  <2> QED
    BY <1>3, <1>4, <2>1
<1>8. ASSUME NEW t \in Joiner, Subjoin(t) \/ Look(t) \/ Store(t) \/ Copy(t) \/ Load(t) \/ Bump(t) PROVE Written'
  <2>1. UNCHANGED listVars /\ pc # "undefined"
    BY <1>8 DEF Subjoin, Look, Store, Copy, Load, Bump
  <2> QED
    BY <1>3, <2>1 DEF listVars
<1>9. CASE Joined \/ Checked \/ Lift \/ EndSlice
  <2>1. UNCHANGED listVars /\ pc # "undefined"
    BY <1>9 DEF Joined, Checked, Lift, EndSlice
  <2> QED
    BY <1>3, <2>1 DEF listVars
<1>10. CASE UNCHANGED vars
  BY <1>3, <1>10 DEF vars, listVars
<1> QED
  BY <1>5, <1>6, <1>7, <1>8, <1>9, <1>10 DEF Next, Stop

\* The positions are in range initially ...
LEMMA RangeInit ==
  ASSUME Init
  PROVE  RangeInv
<1>1. task \in Tasks /\ nslice = 1 /\ side = 0 /\ pc = (IF task.slices = <<>> THEN "done" ELSE "gemm")
      /\ hit0 \in BOOLEAN /\ cursor = [t \in Parter |-> 0] /\ nexti = 0
      /\ preselected = [t \in Joiner |-> <<>>] /\ tpc = Idle /\ pos = Zeros
  BY DEF Init
<1>2. n(side) \in Nat /\ Len(task.slices) \in Nat
  BY <1>1, TaskType DEF Side
<1>3. pc = "done" => Len(task.slices) = 0
  BY <1>1
<1>4. nslice <= Len(task.slices) + 1 /\ (pc = "done" => nslice = Len(task.slices) + 1)
  BY <1>1, <1>2, <1>3
<1>5. <<>> \in Seq(Triples) /\ Len(<<>>) = 0
  OBVIOUS
<1> QED
  BY <1>1, <1>2, <1>4, <1>5, WordsHavePartitions DEF RangeInv, Idle, Zeros

\* ... and every step keeps them there.
LEMMA RangeNext ==
  ASSUME TypeInv, PartInv, Written, RangeInv, [Next]_vars
  PROVE  RangeInv'
<1>0. /\ task \in Tasks /\ fan_out \in Nat /\ CHUNK \in Nat /\ nexti \in Nat /\ Len(task.slices) \in Nat
      /\ nslice \in Nat /\ side \in Side
      /\ \A k \in Side : n(k) \in Nat
  BY TaskType, JouxAssumption, WordsHavePartitions DEF TypeInv
<1>1. \A k \in Side, t \in Parter : /\ ShareStart(n(k), t) <= n(k) /\ ShareStart(n(k), t + 1) <= n(k)
                                    /\ ShareStart(n(k), t) \in Nat /\ ShareStart(n(k), t + 1) \in Nat
  <2>1. \A t \in Parter : t \in 0 .. T_part /\ t + 1 \in 0 .. T_part /\ t <= T_part /\ t + 1 <= T_part
                          /\ T_part \in 0 .. T_part
    BY Sizes DEF Parter
  <2> QED
    BY <1>0, <2>1, Shares
<1>2. /\ nslice <= Len(task.slices) + 1 /\ (pc = "done" => nslice = Len(task.slices) + 1)
      /\ hit0 \in BOOLEAN
      /\ \A t \in Parter : cursor[t] <= n(side)
      /\ nexti <= fan_out
      /\ tpc \in [Joiner -> {"idle", "look", "store", "copy", "load", "bump"}]
      /\ pos \in [Joiner -> Nat]
      /\ \A t \in Joiner : preselected[t] \in Seq(Triples) /\ pos[t] <= Len(preselected[t])
      /\ pc \notin {"checkup", "undefined", "hang"} => pos = Zeros
  BY DEF RangeInv
<1>3. \A k : n(k)' = n(k) <=> Len(task'.L[k]) = Len(task.L[k])
  BY DEF n
<1>4. <<>> \in Seq(Triples) /\ Len(<<>>) = 0 /\ Zeros \in [Joiner -> Nat] /\ \A t \in Joiner : Zeros[t] = 0
  BY DEF Zeros
<1>5. ASSUME NEW k \in Side, EnterPartition(k), task' = task
      PROVE  \A t \in Parter : cursor'[t] <= n(side)'
  <2>1. side' = k /\ cursor' = [t \in Parter |-> ShareStart(n(k), t)] /\ n(side)' = n(k)
    BY <1>5 DEF EnterPartition, n
  <2> QED
    BY <1>1, <2>1
<1>6. ASSUME task' = task, nslice' = nslice, hit0' = hit0, pc' # "done" \/ pc = "done",
             \A t \in Parter : cursor'[t] <= n(side)', nexti' <= fan_out,
             tpc' = tpc, pos' = pos, 
             \A t \in Joiner : preselected'[t] \in Seq(Triples) /\ pos[t] <= Len(preselected'[t]),
             pc \notin {"checkup", "undefined", "hang"} \/ pc' \in {"checkup", "undefined", "hang"}
      PROVE  RangeInv'
  BY <1>2, <1>6 DEF RangeInv, Zeros
<1>7. ASSUME task' = task, nslice' = nslice, hit0' = hit0, pc' # "done", UNCHANGED <<side, cursor>>,
             nexti' = nexti, preselected' = preselected,
             tpc' \in [Joiner -> {"idle", "look", "store", "copy", "load", "bump"}],
             pos' \in [Joiner -> Nat], \A t \in Joiner : pos'[t] <= Len(preselected[t]),
             pc' \notin {"checkup", "undefined", "hang"} => pos' = Zeros
      PROVE  RangeInv'
  BY <1>2, <1>7 DEF RangeInv, Zeros, n
<1>8. CASE Gemm
  <2>1. /\ UNCHANGED <<task, nslice, hit0, nexti, preselected, tpc, pos>> /\ pc = "gemm" /\ pc' = "partition"
        /\ EnterPartition(0) /\ 0 \in Side
    BY <1>8 DEF Gemm, joinVars, checkVars, Side
  <2>2. \A t \in Parter : cursor'[t] <= n(side)'
    BY <1>5, <2>1
  <2> QED
    BY <1>2, <1>6, <2>1, <2>2
<1>9. ASSUME NEW t \in Parter, Dispatch(t) PROVE RangeInv'
  <2>1. /\ UNCHANGED <<task, nslice, hit0, nexti, preselected, tpc, pos, side>> /\ pc = "partition"
        /\ pc' \in {"partition", "undefined"}
        /\ cursor[t] < ShareStart(n(side), t + 1) /\ cursor' = [cursor EXCEPT ![t] = @ + 1]
    BY <1>9 DEF Dispatch, joinVars, checkVars
  <2>2. n(side)' = n(side) /\ cursor \in [Parter -> Nat]
    BY <2>1 DEF n, TypeInv
  <2>3. ASSUME NEW u \in Parter PROVE cursor'[u] <= n(side)'
    <3>1. CASE u = t
      <4>1. cursor[t] \in Nat /\ cursor'[t] = cursor[t] + 1 /\ n(side) \in Nat
            /\ ShareStart(n(side), t + 1) <= n(side) /\ ShareStart(n(side), t + 1) \in Nat
        BY <1>0, <1>1, <2>1, <2>2
      <4> QED
        BY <2>1, <2>2, <3>1, <4>1
    <3>2. CASE u # t
      BY <1>2, <2>1, <2>2, <3>2
    <3> QED
      BY <3>1, <3>2
  <2> QED
    BY <1>2, <1>6, <2>1, <2>3
<1>10. CASE Partitioned
  <2>1. /\ UNCHANGED <<task, nslice, hit0, tpc, pos>> /\ pc = "partition"
        /\ pc' \in {"partition", "subjoin"}
        /\ \/ EnterPartition(1) /\ nexti' = nexti /\ preselected' = preselected
           \/ UNCHANGED <<side, cursor>> /\ nexti' = 0 /\ preselected' = [t \in Joiner |-> <<>>]
    BY <1>10 DEF Partitioned, joinVars, checkVars
  <2>2. \A t \in Parter : cursor'[t] <= n(side)'
    <3>1. CASE EnterPartition(1)
      <4>1. 1 \in Side
        BY DEF Side
      <4> QED
        BY <1>5, <2>1, <3>1, <4>1
    <3>2. CASE UNCHANGED <<side, cursor>>
      BY <1>2, <2>1, <3>2 DEF n
    <3> QED
      BY <2>1, <3>1, <3>2
  <2>3. nexti' <= fan_out
        /\ \A t \in Joiner : preselected'[t] \in Seq(Triples) /\ pos[t] <= Len(preselected'[t])
    <3>1. \A t \in Joiner : pos[t] = 0
      BY <1>2, <1>4, <2>1
    <3>2. 0 <= fan_out
      BY <1>0
    <3>3. CASE nexti' = nexti /\ preselected' = preselected
      BY <1>2, <3>3
    <3>4. CASE nexti' = 0 /\ preselected' = [t \in Joiner |-> <<>>]
      BY <1>4, <3>1, <3>2, <3>4
    <3> QED
      BY <2>1, <3>3, <3>4
  <2> QED
    BY <1>6, <2>1, <2>2, <2>3
<1>11. ASSUME NEW t \in Joiner, Subjoin(t) PROVE RangeInv'
  <2>1. /\ UNCHANGED <<task, nslice, hit0, tpc, pos, side, cursor>> /\ pc = "subjoin" /\ nexti < fan_out
        /\ pc' \in {"subjoin", "undefined", "hang"} /\ nexti' = Min({fan_out, nexti + CHUNK})
    BY <1>11 DEF Subjoin, listVars, checkVars
  <2>2. nexti' \in Nat /\ nexti <= nexti' /\ nexti' <= fan_out
    BY <1>0, <2>1, MinOfTwo
  <2>3. PICK a \in Nat, b \in Nat : a = nexti /\ b = nexti' /\ a <= b /\ b <= fan_out
    BY <1>0, <2>2
  <2>4. PICK got : got = FlattenSeq([e \in 1 .. b - a |-> subjoin(a + e - 1)])
    OBVIOUS
  <2>5. got \in Seq(Triples)
    <3>0. PICK N \in Nat : N = b - a
      <4>0. a <= b
        BY <2>3
      <4>1. b - a \in Nat
        BY <4>0
      <4> QED
        BY <4>1
    <3> DEFINE seqs == [e \in 1 .. N |-> subjoin(a + e - 1)]
    <3>1. ASSUME NEW e \in 1 .. N PROVE a + e - 1 \in Partition
      <4>1. fan_out \in Int /\ a \in Nat /\ b \in Nat /\ b <= fan_out
        BY <1>0, <2>3
      <4>2. a + e - 1 \in 0 .. fan_out - 1
        BY <3>0, <4>1
      <4> QED
        BY <4>2 DEF Partition
    <3>2. \A e \in 1 .. N : subjoin(a + e - 1) \in Seq(Triples)
      BY <2>1, <3>1, SubjoinType
    <3>3. seqs \in [1 .. N -> Seq(Triples)]
      BY <3>2
    <3>4. seqs \in Seq(Seq(Triples))
      BY <3>3, FunctionSeq
    <3> QED
      BY <2>4, <3>0, <3>4, FlattenType
  <2>6. preselected' = preselected \/ preselected' = [preselected EXCEPT ![t] = @ \o got]
    BY <1>11, <2>3, <2>4 DEF Subjoin
  <2>7. ASSUME NEW u \in Joiner PROVE preselected'[u] \in Seq(Triples) /\ pos[u] <= Len(preselected'[u])
    <3>1. preselected[u] \in Seq(Triples) /\ pos[u] <= Len(preselected[u]) /\ pos[u] \in Nat
      BY <1>2
    <3>2. preselected'[u] = preselected[u] \/ preselected'[u] = preselected[u] \o got
      BY <2>6 DEF TypeInv
    <3>3. preselected[u] \o got \in Seq(Triples) /\ Len(preselected[u] \o got) = Len(preselected[u]) + Len(got)
          /\ Len(got) \in Nat /\ Len(preselected[u]) \in Nat
      BY <2>5, <3>1, ConcatProperties
    <3>4. pos[u] <= Len(preselected[u] \o got)
      BY <3>1, <3>3
    <3> QED
      BY <3>1, <3>2, <3>3, <3>4
  <2>8. \A u \in Parter : cursor'[u] <= n(side)'
    BY <1>2, <2>1 DEF n
  <2> QED
    BY <1>6, <2>1, <2>2, <2>7, <2>8
<1>12. CASE Joined
  <2>1. /\ UNCHANGED <<task, nslice, hit0, side, cursor, nexti, preselected>> /\ pc' = "checkup"
        /\ tpc' = [t \in Joiner |-> "look"] /\ pos' = Zeros
    BY <1>12 DEF Joined, listVars, joinVars
  <2>2. \A t \in Joiner : 0 <= Len(preselected[t])
    BY <1>2
  <2> QED
    BY <1>4, <1>7, <2>1, <2>2
<1>13. ASSUME NEW t \in Joiner, Look(t) \/ Store(t) \/ Copy(t) \/ Load(t) \/ Bump(t) PROVE RangeInv'
  <2>1. /\ UNCHANGED <<task, nslice, hit0, side, cursor, nexti, preselected>> /\ pc' \in {"checkup", "undefined"}
        /\ tpc' = tpc \/ \E s \in {"look", "store", "copy", "load", "bump"} : tpc' = [tpc EXCEPT ![t] = s]
        /\ pos' = pos \/ \E e \in DOMAIN preselected[t] : pos' = [pos EXCEPT ![t] = e]
    BY <1>13 DEF Look, Store, Copy, Load, Bump, listVars, joinVars
  <2>2. tpc' \in [Joiner -> {"idle", "look", "store", "copy", "load", "bump"}]
    BY <1>2, <2>1
  <2>3. \A e \in DOMAIN preselected[t] : e \in Nat /\ e <= Len(preselected[t])
    BY <1>2
  <2>4. pos' \in [Joiner -> Nat] /\ \A u \in Joiner : pos'[u] <= Len(preselected[u])
    BY <1>2, <2>1, <2>3
  <2> QED
    BY <1>7, <2>1, <2>2, <2>4
<1>14. CASE Checked
  <2>1. /\ UNCHANGED <<task, nslice, hit0, side, cursor, nexti, preselected>> /\ pc' = "lift"
        /\ tpc' = Idle /\ pos' = Zeros
    BY <1>14 DEF Checked, listVars, joinVars
  <2>2. \A t \in Joiner : 0 <= Len(preselected[t])
    BY <1>2
  <2> QED
    BY <1>4, <1>7, <2>1, <2>2 DEF Idle
<1>15. CASE Lift
  <2>1. /\ UNCHANGED <<task, nslice, hit0, side, cursor, nexti, preselected, tpc, pos>> /\ pc = "lift"
        /\ pc' \in {"lift", "undefined"}
    BY <1>15 DEF Lift, listVars, joinVars, checkVars
  <2> QED
    BY <1>2, <1>7, <2>1
<1>16. CASE EndSlice
  <2>1. /\ UNCHANGED <<task, side, cursor, nexti, tpc, pos>> /\ pc = "lift"
        /\ nslice' = nslice + 1 /\ preselected' = [t \in Joiner |-> <<>>]
        /\ \/ nslice' <= Len(task.slices) /\ pc' = "gemm" /\ hit0' \in BOOLEAN
           \/ nslice' > Len(task.slices) /\ pc' = "done" /\ hit0' = hit0
    BY <1>16 DEF EndSlice, NextSlice, listVars
  <2>2. nslice <= Len(task.slices)
    BY <2>1 DEF TypeInv, Busy
  <2>3. nslice' <= Len(task'.slices) + 1 /\ (pc' = "done" => nslice' = Len(task'.slices) + 1) /\ hit0' \in BOOLEAN
    BY <1>0, <1>2, <2>1, <2>2
  <2>4. pos = Zeros
    BY <1>2, <2>1
  <2>5. \A t \in Joiner : preselected'[t] \in Seq(Triples) /\ pos'[t] <= Len(preselected'[t])
    BY <1>4, <2>1, <2>4
  <2>6. \A t \in Parter : cursor'[t] <= n(side)'
    BY <1>2, <2>1 DEF n
  <2>7. pos' = Zeros'
    BY <2>1, <2>4 DEF Zeros
  <2> QED
    BY <1>2, <2>1, <2>3, <2>5, <2>6, <2>7 DEF RangeInv
<1>17. CASE UNCHANGED vars
  <2>1. UNCHANGED <<task, nslice, hit0, side, cursor, nexti, preselected, tpc, pos, pc>>
    BY <1>17 DEF vars, listVars, joinVars, checkVars
  <2> QED
    BY <1>2, <2>1 DEF RangeInv, Zeros, n
<1> QED
  BY <1>8, <1>9, <1>10, <1>11, <1>12, <1>13, <1>14, <1>15, <1>16, <1>17 DEF Next, Stop

\* The threads start at the first word ...
LEMMA WordInit ==
  ASSUME Init
  PROVE  WordInv
  BY DEF Init, WordInv

\* ... and are back there when they have copied the last.
LEMMA WordNext ==
  ASSUME RangeInv, WordInv, [Next]_vars
  PROVE  WordInv'
<1>1. /\ word \in [Joiner -> 1 .. 3]
      /\ \A t \in Joiner : word[t] # 1 => tpc[t] = "copy" /\ pc \in {"checkup", "undefined"}
      /\ tpc \in [Joiner -> {"idle", "look", "store", "copy", "load", "bump"}]
  BY DEF WordInv, RangeInv
<1>2. ASSUME word' = word, \A t \in Joiner : word[t] = 1
      PROVE  WordInv'
  BY <1>1, <1>2 DEF WordInv
<1>3. ASSUME word' = word, pc \notin {"checkup", "undefined"}
      PROVE  WordInv'
  BY <1>1, <1>2, <1>3
<1>4. CASE Gemm \/ Partitioned \/ Joined \/ Lift \/ EndSlice \/ \E t \in Parter : Dispatch(t)
  <2>1. word' = word /\ pc \notin {"checkup", "undefined"}
    BY <1>4 DEF Gemm, Partitioned, Joined, Lift, EndSlice, Dispatch, checkVars
  <2> QED
    BY <1>3, <2>1
<1>5. ASSUME NEW t \in Joiner, Subjoin(t) PROVE WordInv'
  <2>1. word' = word /\ pc \notin {"checkup", "undefined"}
    BY <1>5 DEF Subjoin, checkVars
  <2> QED
    BY <1>3, <2>1
<1>6. CASE Checked
  <2>1. word' = word /\ \A t \in Joiner : tpc[t] = "look"
    BY <1>6 DEF Checked
  <2>2. \A t \in Joiner : word[t] = 1
    BY <1>1, <2>1
  <2> QED
    BY <1>2, <2>1, <2>2
<1>7. ASSUME NEW t \in Joiner, NEW to \in {"look", "store", "copy", "bump"}, tpc[t] # "copy",
             tpc' = [tpc EXCEPT ![t] = to], word' = word, pc' \in {"checkup", "undefined"}
      PROVE  WordInv'
  <2>1. \A u \in Joiner : word[u] # 1 => u # t /\ tpc'[u] = "copy"
    BY <1>1, <1>7
  <2> QED
    BY <1>1, <1>7, <2>1 DEF WordInv
<1>8. ASSUME NEW t \in Joiner, Look(t) \/ Store(t) \/ Load(t) \/ Bump(t) PROVE WordInv'
  <2>1. /\ tpc[t] # "copy" /\ word' = word /\ pc' \in {"checkup", "undefined"}
        /\ \E to \in {"look", "store", "copy", "bump"} : tpc' = [tpc EXCEPT ![t] = to]
    BY <1>8 DEF Look, Store, Load, Bump
  <2> QED
    BY <1>7, <2>1
<1>9. ASSUME NEW t \in Joiner, Copy(t) PROVE WordInv'
  <2>1. tpc[t] = "copy" /\ pc' \in {"checkup", "undefined"}
    BY <1>9 DEF Copy
  <2>2. \/ word[t] < 3 /\ word' = [word EXCEPT ![t] = @ + 1] /\ tpc' = tpc
        \/ word' = [word EXCEPT ![t] = 1] /\ tpc' = [tpc EXCEPT ![t] = "load"]
        \/ word' = word /\ tpc' = tpc
    BY <1>9 DEF Copy
  <2>3. word' \in [Joiner -> 1 .. 3]
    <3>1. word[t] < 3 => word[t] + 1 \in 1 .. 3
      BY <1>1
    <3> QED
      BY <1>1, <2>2, <3>1
  <2>4. \A u \in Joiner : word'[u] # 1 => tpc'[u] = "copy"
    BY <1>1, <2>1, <2>2
  <2> QED
    BY <2>1, <2>3, <2>4 DEF WordInv
<1>10. CASE UNCHANGED vars
  BY <1>1, <1>10 DEF vars, checkVars, WordInv
<1> QED
  BY <1>4, <1>5, <1>6, <1>8, <1>9, <1>10 DEF Next, Stop

\* So TypeOK holds.
LEMMA InRange ==
  ASSUME TypeInv, RangeInv, WordInv
  PROVE  TypeOK
<1>1. /\ Len(task.slices) \in Nat /\ nslice \in Nat /\ nslice >= 1 /\ fan_out \in Nat /\ nexti \in Nat
      /\ side \in Side /\ n(side) \in Nat /\ pc \in Phases
  BY TaskType, WordsHavePartitions DEF TypeInv
<1>2. nslice \in 1 .. Len(task.slices) + 1 /\ nexti \in 0 .. fan_out /\ hit0 \in BOOLEAN
  BY <1>1 DEF RangeInv
<1>3. \A t \in Parter : cursor[t] \in 0 .. n(side)
  <2>1. \A t \in Parter : cursor[t] \in Nat /\ cursor[t] <= n(side)
    BY DEF TypeInv, RangeInv
  <2> QED
    BY <1>1, <2>1
<1>4. \A t \in Joiner : /\ preselected[t] \in Seq(Triples)
                        /\ tpc[t] \in {"idle", "look", "store", "copy", "load", "bump"}
                        /\ pos[t] \in 0 .. Len(preselected[t])
  <2>1. \A t \in Joiner : preselected[t] \in Seq(Triples) /\ pos[t] \in Nat /\ pos[t] <= Len(preselected[t])
    BY DEF RangeInv
  <2>2. \A t \in Joiner : Len(preselected[t]) \in Nat
    BY <2>1
  <2> QED
    BY <2>1, <2>2 DEF RangeInv
<1>5. \A k \in Side : scratch[k] \in [0 .. ScratchSize(k) - 1 -> Word \cup {Garbage}]
  BY DEF TypeInv
<1> QED
  BY <1>1, <1>2, <1>3, <1>4, <1>5 DEF TypeOK, Phases, Triples, WordInv

-----------------------------------------------------------------------------
\* What a thread reports is one of the slice's reports.
LEMMA HitReport ==
  ASSUME JoinTaskInv, pc = "checkup", BucketsFit(slice), NEW t \in Joiner, NEW m,
         <<t, m>> \in Hits
  PROVE  \E q \in Reports(slice) : preselected[t][m] = TripleOf[q]
<1>1. PICK P \in [Joiner -> SUBSET Pairs] : Holding(P)
  BY DEF JoinTaskInv, JoinInv
<1>2. /\ \A q \in P[t] : q \in Pairs /\ Joins(slice, q[1], q[2])
      /\ preselected[t] \in Seq(Triples) /\ Enumerates(preselected[t], P[t], TripleOf)
  BY <1>1 DEF Holding, JoinedBelow
<1>3. m \in 1 .. Len(preselected[t]) /\ Hit(t, m)
  BY <1>2 DEF Hits
<1>4. PICK q \in P[t] : preselected[t][m] = TripleOf[q]
  BY <1>2, <1>3 DEF Enumerates
<1>5. preselected[t][m][3] = Xor(Image(slice, 0, q[1]), Image(slice, 1, q[2]))
  BY <1>2, <1>4 DEF TripleOf, Triple
<1>6. Lookup(Xor(Image(slice, 0, q[1]), Image(slice, 1, q[2])))
  BY <1>3, <1>5 DEF Hit
<1>7. TypeInv /\ Busy
  BY DEF JoinTaskInv, Busy
<1>8. q \in Reports(slice)
  BY <1>2, <1>6, <1>7, HitReports
<1> QED
  BY <1>4, <1>8

\* Each word of a report is lifted to that of the words that it is of.
LEMMA LiftedWords ==
  ASSUME TypeInv, Busy, NEW q \in Reports(slice)
  PROVE  /\ TripleOf[q] \in Triples
         /\ \A k \in 1 .. 3 : /\ TripleOf[q][k] # Garbage
                             /\ naive_gemv(TripleOf[q][k], slice.Minv) = Triple(task.L[0][q[1]], task.L[1][q[2]])[k]
<1>1. q \in Pairs /\ q[1] \in 1 .. n(0) /\ q[2] \in 1 .. n(1) /\ nslice \in 1 .. Len(task.slices)
  BY TaskType DEF TypeInv, Pairs, Side, Busy, Reports
<1>2. PICK w \in Word, y \in Word : w = task.L[0][q[1]] /\ y = task.L[1][q[2]]
  BY <1>1, TaskType DEF TypeInv, Side
<1>3. Inverts(slice.Minv, slice.M)
  BY <1>1, TaskType DEF TypeInv, slice
<1>4. PICK u \in Word, v \in Word : u = Image(slice, 0, q[1]) /\ v = Image(slice, 1, q[2])
  BY ImageType
<1>5. u = naive_gemv(w, slice.M) /\ v = naive_gemv(y, slice.M)
  BY <1>2, <1>4 DEF Image
<1>6. TripleOf[q] = <<u, v, Xor(u, v)>>
  BY <1>1, <1>4 DEF TripleOf, Triple
<1>7. TripleOf[q] \in Triples
  BY <1>6, XorType DEF Triples
<1>8. u # Garbage /\ v # Garbage /\ Xor(u, v) # Garbage
  BY XorType, JouxAssumption
<1>9. naive_gemv(u, slice.Minv) = w /\ naive_gemv(v, slice.Minv) = y
  BY <1>3, <1>5 DEF Inverts
<1>10. naive_gemv(Xor(u, v), slice.Minv) = Xor(w, y)
  BY <1>9, Linear
<1>11. Triple(task.L[0][q[1]], task.L[1][q[2]]) = <<w, y, Xor(w, y)>>
  BY <1>2 DEF Triple
<1>12. ASSUME NEW k \in 1 .. 3
       PROVE  /\ TripleOf[q][k] # Garbage
              /\ naive_gemv(TripleOf[q][k], slice.Minv) = Triple(task.L[0][q[1]], task.L[1][q[2]])[k]
  <2>1. CASE k = 1
    BY <1>6, <1>8, <1>9, <1>11, <2>1
  <2>2. CASE k = 2
    BY <1>6, <1>8, <1>9, <1>11, <2>2
  <2>3. CASE k = 3
    BY <1>6, <1>8, <1>10, <1>11, <2>3
  <2> QED
    BY <2>1, <2>2, <2>3
<1> QED
  BY <1>7, <1>12

\* So is an entry that is a mixture of reports.
LEMMA LiftedMixture ==
  ASSUME TypeInv, Busy, NEW q1 \in Reports(slice), NEW q2 \in Reports(slice), NEW q3 \in Reports(slice)
  PROVE  Lifted(<<TripleOf[q1][1], TripleOf[q2][2], TripleOf[q3][3]>>)
           = <<Triple(task.L[0][q1[1]], task.L[1][q1[2]])[1], Triple(task.L[0][q2[1]], task.L[1][q2[2]])[2],
               Triple(task.L[0][q3[1]], task.L[1][q3[2]])[3]>>
<1>1. PICK a, b, c : a = TripleOf[q1][1] /\ b = TripleOf[q2][2] /\ c = TripleOf[q3][3]
  OBVIOUS
<1>2. PICK u, v, w : /\ u = Triple(task.L[0][q1[1]], task.L[1][q1[2]])[1]
                     /\ v = Triple(task.L[0][q2[1]], task.L[1][q2[2]])[2]
                     /\ w = Triple(task.L[0][q3[1]], task.L[1][q3[2]])[3]
  OBVIOUS
<1>3. a # Garbage /\ b # Garbage /\ c # Garbage
  BY <1>1, LiftedWords
<1>4. naive_gemv(a, slice.Minv) = u /\ naive_gemv(b, slice.Minv) = v /\ naive_gemv(c, slice.Minv) = w
  BY <1>1, <1>2, LiftedWords
<1>5. Lifted(<<a, b, c>>) = <<u, v, w>>
  <2> DEFINE f == [e \in 1 .. 3 |-> IF <<a, b, c>>[e] = Garbage THEN Garbage
                                    ELSE naive_gemv(<<a, b, c>>[e], slice.Minv)]
  <2>1. f[1] = u /\ f[2] = v /\ f[3] = w
    BY <1>3, <1>4
  <2>2. f = <<f[1], f[2], f[3]>>
    OBVIOUS
  <2>3. Lifted(<<a, b, c>>) = f
    BY DEF Lifted
  <2> HIDE DEF f
  <2> QED
    BY <2>1, <2>2, <2>3
<1> QED
  BY <1>1, <1>2, <1>5

\* And a report.
LEMMA LiftedReport ==
  ASSUME TypeInv, Busy, NEW q \in Reports(slice)
  PROVE  Lifted(TripleOf[q]) = Triple(task.L[0][q[1]], task.L[1][q[2]])
<1>1. TripleOf[q] \in Triples
  BY LiftedWords
<1>2. TripleOf[q] = <<TripleOf[q][1], TripleOf[q][2], TripleOf[q][3]>>
  BY <1>1 DEF Triples
<1>3. PICK u, v, w : Triple(task.L[0][q[1]], task.L[1][q[2]]) = <<u, v, w>>
  BY DEF Triple
<1> QED
  BY <1>2, <1>3, LiftedMixture

\* What a mixture is made of.
LEMMA MixtureType ==
  ASSUME NEW T, NEW a \in T, NEW b \in T, NEW c \in T
  PROVE  <<a[1], b[2], c[3]>> \in Mixtures(T)
  BY DEF Mixtures

\* The greatest of two numbers.
LEMMA MaxOfTwo ==
  ASSUME NEW a \in Int, NEW b \in Int
  PROVE  Max({a, b}) = IF a >= b THEN a ELSE b
<1> DEFINE m == IF a >= b THEN a ELSE b
<1>1. m \in {a, b} /\ \A y \in {a, b} : m >= y
  OBVIOUS
<1>2. \A w \in {a, b} : (\A y \in {a, b} : w >= y) => w = m
  OBVIOUS
<1> HIDE DEF m
<1>3. Max({a, b}) = m
  BY <1>1, <1>2 DEF Max
<1> QED
  BY <1>3 DEF m

\* What a list holds after a store: what is stored, what it held, and nothing.
LEMMA StoredEntries ==
  ASSUME NEW S, NEW r, Roomy(r), r.solutions \in Seq(S), NoEntry \in S, NEW at \in Nat, NEW sol \in S
  PROVE  /\ Stored(r, at, sol).solutions \in Seq(S)
         /\ Len(Stored(r, at, sol).solutions) >= at + 1
         /\ Len(Stored(r, at, sol).solutions) >= Len(r.solutions)
         /\ Stored(r, at, sol).solutions[at + 1] = sol
         /\ \A m \in 1 .. Len(Stored(r, at, sol).solutions) :
               m # at + 1 => Stored(r, at, sol).solutions[m] = EntryAt(r, m - 1)
<1>0. PICK s \in Seq(S) : s = r.solutions
  OBVIOUS
<1>1. PICK N \in Nat : s = r.solutions /\ N = Len(s) /\ s \in Seq(S)
  BY <1>0
<1>2. PICK len \in Nat : len = Max({at + 1, N}) /\ len >= at + 1 /\ len >= N
  <2>1. Max({at + 1, N}) = IF at + 1 >= N THEN at + 1 ELSE N
    BY MaxOfTwo
  <2> QED
    BY <2>1
<1>3. PICK f : f = [k \in 1 .. len |-> IF k = at + 1 THEN sol ELSE EntryAt(r, k - 1)]
  OBVIOUS
<1>4. Stored(r, at, sol).solutions = f
  BY <1>1, <1>2, <1>3 DEF Stored, Roomy
<1>5. \A k \in 1 .. len : f[k] = IF k = at + 1 THEN sol ELSE IF k <= N THEN s[k] ELSE NoEntry
  <2>1. \A k \in 1 .. len : k \in Int /\ (k - 1 < N <=> k <= N) /\ k - 1 + 1 = k
    OBVIOUS
  <2>2. \A k \in 1 .. len : EntryAt(r, k - 1) = IF k <= N THEN s[k] ELSE NoEntry
    BY <1>1, <2>1 DEF EntryAt
  <2> QED
    BY <1>3, <2>2
<1>6. \A k \in 1 .. N : s[k] \in S
  BY <1>1
<1>7. f \in [1 .. len -> S]
  <2>1. f = [k \in 1 .. len |-> f[k]]
    BY <1>3
  <2>2. ASSUME NEW k \in 1 .. len PROVE f[k] \in S
    BY <1>5, <1>6
  <2> QED
    BY <2>1, <2>2
<1>8. f \in Seq(S) /\ Len(f) = len
  BY <1>7, FunctionSeq
<1>9. f[at + 1] = sol
  <2>1. at + 1 \in 1 .. len
    BY <1>2
  <2> QED
    BY <1>5, <2>1
<1>10. \A k \in 1 .. len : k # at + 1 => f[k] = EntryAt(r, k - 1)
  BY <1>3
<1> QED
  BY <1>1, <1>2, <1>4, <1>8, <1>9, <1>10

\* The same of the list alone.
LEMMA StoredNew ==
  ASSUME NEW S, NEW r, Roomy(r), r.solutions \in Seq(S), NoEntry \in S, NEW at \in Nat, NEW sol \in S,
         NEW new, new = Stored(r, at, sol).solutions
  PROVE  new \in Seq(S) /\ Len(new) >= at + 1 /\ Len(new) >= Len(r.solutions) /\ new[at + 1] = sol
<1>1. PICK st : st = Stored(r, at, sol).solutions
  OBVIOUS
<1>2. st \in Seq(S) /\ Len(st) >= at + 1 /\ Len(st) >= Len(r.solutions) /\ st[at + 1] = sol
  BY <1>1, StoredEntries
<1> QED
  BY <1>1, <1>2

\* The other entries are what they were.
LEMMA StoredElse ==
  ASSUME NEW r, Roomy(r), NEW at, NEW sol, NEW new, new = Stored(r, at, sol).solutions, NEW m \in DOMAIN new, m # at + 1
  PROVE  new[m] = EntryAt(r, m - 1)
<1> DEFINE len == Max({at + 1, Len(r.solutions)})
           f == [k \in 1 .. len |-> IF k = at + 1 THEN sol ELSE EntryAt(r, k - 1)]
<1>1. new = f
  <2> HIDE DEF len
  <2> QED
    BY DEF Stored, Roomy, len
<1> HIDE DEF len
<1> QED
  BY <1>1

\* Storing behind the last entry appends.
LEMMA StoredLast ==
  ASSUME NEW S, NEW r, Roomy(r), r.solutions \in Seq(S), Len(r.solutions) = r.size, NEW sol \in S
  PROVE  Stored(r, r.size, sol).solutions = Append(r.solutions, sol)
<1>1. PICK N \in Nat, s \in Seq(S) : N = r.size /\ N = Len(s) /\ s = r.solutions
  BY DEF Roomy
<1>2. Max({N + 1, N}) = N + 1
  BY <1>1, MaxOfTwo
<1>3. PICK f : f = [k \in 1 .. N + 1 |-> IF k = N + 1 THEN sol ELSE EntryAt(r, k - 1)]
  OBVIOUS
<1>4. Stored(r, r.size, sol).solutions = f
  BY <1>1, <1>2, <1>3 DEF Stored, Roomy
<1>5. \A k \in 1 .. N + 1 : f[k] = IF k = N + 1 THEN sol ELSE s[k]
  <2>1. \A k \in 1 .. N + 1 : k # N + 1 => k - 1 < N /\ k - 1 + 1 = k
    BY <1>1
  <2>2. \A k \in 1 .. N + 1 : k # N + 1 => EntryAt(r, k - 1) = s[k]
    BY <1>1, <2>1 DEF EntryAt
  <2> QED
    BY <1>3, <2>2
<1>6. f \in Seq(S) /\ Len(f) = N + 1
  <2>1. N + 1 \in Nat /\ \A k \in 1 .. N + 1 : k # N + 1 => s[k] \in S
    BY <1>1
  <2>2. f \in [1 .. N + 1 -> S]
    BY <1>3, <1>5, <2>1
  <2> QED
    BY <2>1, <2>2, FunctionSeq
<1>7. Append(s, sol) \in Seq(S) /\ Len(Append(s, sol)) = N + 1
      /\ (\A k \in 1 .. N : Append(s, sol)[k] = s[k]) /\ Append(s, sol)[N + 1] = sol
  BY <1>1, AppendProperties
<1>8. \A k \in 1 .. N + 1 : f[k] = Append(s, sol)[k]
  <2>1. \A k \in 1 .. N + 1 : k = N + 1 \/ k \in 1 .. N
    BY <1>1
  <2> QED
    BY <1>5, <1>7, <2>1
<1>9. f = Append(s, sol)
  BY <1>6, <1>7, <1>8, SeqEqual
<1> QED
  BY <1>1, <1>4, <1>9

\* An entry of a list is one of its solutions, or none.
LEMMA EntryType ==
  ASSUME NEW S, NEW r, r.solutions \in Seq(S), NoEntry \in S, NEW at \in Nat
  PROVE  EntryAt(r, at) \in S
<1>1. PICK s \in Seq(S) : s = r.solutions
  OBVIOUS
<1>2. PICK N \in Nat : N = Len(s) /\ \A k \in 1 .. N : s[k] \in S
  BY <1>1
<1>3. at < N => at + 1 \in 1 .. N
  BY <1>2
<1> QED
  BY <1>1, <1>2, <1>3 DEF EntryAt

LEMMA EntriesType ==
  ASSUME NEW S, NEW r, Roomy(r), r.solutions \in Seq(S), NoEntry \in S
  PROVE  Entries(r) \in Seq(S) /\ Len(Entries(r)) = r.size
<1>1. r.size \in Nat
  BY DEF Roomy
<1>2. \A k \in 1 .. r.size : EntryAt(r, k - 1) \in S
  <2>1. \A k \in 1 .. r.size : k - 1 \in Nat
    BY <1>1
  <2> QED
    BY <2>1, EntryType
<1>3. Entries(r) \in [1 .. r.size -> S]
  BY <1>2 DEF Entries
<1> QED
  BY <1>1, <1>3, FunctionSeq

\* What the solutions are depends on the task and the slice alone.
LEMMA SameAnswers ==
  ASSUME task' = task, tsize' = tsize
  PROVE  /\ Fits' = Fits /\ Answered' = Answered
         /\ nslice' = nslice => Triplets' = Triplets /\ Reported' = Reported /\ Underway' = Underway
<1>1. Fits' = Fits /\ \A s : Reports(s)' = Reports(s)
  BY SameFits
<1>2. Answered' = Answered
  <2>1. \A s : Given(s)' = Given(s)
    BY <1>1 DEF Given
  <2> QED
    BY <2>1 DEF Answered, Mixtures, NoEntry
<1>3. ASSUME nslice' = nslice PROVE Triplets' = Triplets
  <2>1. slice' = slice /\ TripleOf' = TripleOf
    BY <1>3, SameTask DEF Same
  <2>2. PICK s : s = slice
    OBVIOUS
  <2>3. Reports(slice)' = Reports(s) /\ Reports(slice) = Reports(s)
    BY <1>1, <2>1, <2>2
  <2> QED
    BY <2>1, <2>3 DEF Triplets
<1>4. ASSUME Triplets' = Triplets PROVE Reported' = Reported /\ Underway' = Underway
  BY <1>4 DEF Reported, Underway, Mixtures, NoEntry
<1> QED
  BY <1>1, <1>2, <1>3, <1>4

\* The reports, as entries, have words and no garbage.
LEMMA TripletsType ==
  ASSUME TypeInv, Busy, NEW e \in Triplets
  PROVE  e = <<e[1], e[2], e[3]>> /\ \A k \in 1 .. 3 : e[k] # Garbage
<1>1. PICK q \in Reports(slice) : e = TripleOf[q]
  BY DEF Triplets
<1>2. e \in Triples /\ \A k \in 1 .. 3 : e[k] # Garbage
  BY <1>1, LiftedWords
<1> QED
  BY <1>2 DEF Triples

\* An entry that is not partly written is none or a mixture of reports.
LEMMA WholeEntry ==
  ASSUME NEW T, NEW e \in Mixtures({NoEntry} \cup T),
         Blank(e) \/ \A k \in 1 .. 3 : e[k] # Garbage
  PROVE  e \in {NoEntry} \cup Mixtures(T)
<1>1. PICK a, b, c \in {NoEntry} \cup T : e = <<a[1], b[2], c[3]>>
  BY DEF Mixtures
<1>2. e[1] = a[1] /\ e[2] = b[2] /\ e[3] = c[3] /\ e = <<e[1], e[2], e[3]>>
  BY <1>1
<1>3. 1 \in 1 .. 3 /\ 2 \in 1 .. 3 /\ 3 \in 1 .. 3
  OBVIOUS
<1>4. NoEntry[1] = Garbage /\ NoEntry[2] = Garbage /\ NoEntry[3] = Garbage
  BY DEF NoEntry
<1>5. CASE Blank(e)
  <2>1. e[1] = Garbage /\ e[2] = Garbage /\ e[3] = Garbage
    BY <1>3, <1>5 DEF Blank
  <2> QED
    BY <1>2, <2>1 DEF NoEntry
<1>6. CASE \A k \in 1 .. 3 : e[k] # Garbage
  <2>1. a \in T /\ b \in T /\ c \in T
    BY <1>1, <1>2, <1>3, <1>4, <1>6
  <2> QED
    BY <1>1, <2>1, MixtureType
<1> QED
  BY <1>5, <1>6

\* An entry that nobody has written is one of those under way.
LEMMA NoEntryUnderway == NoEntry \in Underway
<1>1. PICK T : T = {NoEntry} \cup Triplets
  OBVIOUS
<1>2. NoEntry \in T
  BY <1>1
<1>3. <<NoEntry[1], NoEntry[2], NoEntry[3]>> \in Mixtures(T)
  BY <1>2, MixtureType
<1>4. <<NoEntry[1], NoEntry[2], NoEntry[3]>> = NoEntry
  BY DEF NoEntry
<1> QED
  BY <1>1, <1>3, <1>4 DEF Underway

\* Copying a word of a report into an entry.
LEMMA CopiedWord ==
  ASSUME NEW T, NEW e \in Mixtures(T), NEW sol \in T, NEW k \in 1 .. 3, NEW e2, e2 = [e EXCEPT ![k] = sol[k]]
  PROVE  e2 \in Mixtures(T)
<1>1. PICK a, b, c \in T : e = <<a[1], b[2], c[3]>>
  BY DEF Mixtures
<1>2. PICK u, v, w : u = a[1] /\ v = b[2] /\ w = c[3] /\ e = <<u, v, w>>
  BY <1>1
<1>3. \A y : [e EXCEPT ![1] = y] = <<y, v, w>> /\ [e EXCEPT ![2] = y] = <<u, y, w>> /\ [e EXCEPT ![3] = y] = <<u, v, y>>
  BY <1>2
<1>5. CASE k = 1
  <2>1. e2 = <<sol[1], v, w>>
    BY <1>3, <1>5
  <2>2. <<sol[1], b[2], c[3]>> \in Mixtures(T)
    BY <1>1, MixtureType
  <2> QED
    BY <1>2, <2>1, <2>2
<1>6. CASE k = 2
  <2>1. e2 = <<u, sol[2], w>>
    BY <1>3, <1>6
  <2>2. <<a[1], sol[2], c[3]>> \in Mixtures(T)
    BY <1>1, MixtureType
  <2> QED
    BY <1>2, <2>1, <2>2
<1>7. CASE k = 3
  <2>1. e2 = <<u, v, sol[3]>>
    BY <1>3, <1>7
  <2>2. <<a[1], b[2], sol[3]>> \in Mixtures(T)
    BY <1>1, MixtureType
  <2> QED
    BY <1>2, <2>1, <2>2
<1> QED
  BY <1>5, <1>6, <1>7

LEMMA CopiedWords ==
  ASSUME NEW T, NEW e \in Mixtures(T), NEW sol, NEW k \in 1 .. 3, NEW e2, e2 = [e EXCEPT ![k] = sol[k]], NEW m \in 1 .. 3
  PROVE  e2[m] = IF m = k THEN sol[k] ELSE e[m]
<1>1. PICK a, b, c \in T : e = <<a[1], b[2], c[3]>>
  BY DEF Mixtures
<1> QED
  BY <1>1

\* Initially there is no solution ...
LEMMA EntryInit ==
  ASSUME Init
  PROVE  EntryInv
<1>1. local.solutions = <<>> /\ result.solutions = <<>> /\ pc \in {"gemm", "done"}
  BY DEF Init, NewResult
<1>2. <<>> \in Seq(Answered)
  OBVIOUS
<1> QED
  BY <1>1, <1>2 DEF EntryInv

\* A thread that begins to copy, or is elsewhere, changes nothing for those that copy.
LEMMA CopiesKept ==
  ASSUME Copies, local'.solutions = local.solutions, word' = word,
         tpc = [u \in Joiner |-> tpc[u]], reg = [u \in Joiner |-> reg[u]],
         NEW t \in Joiner, NEW to, tpc[t] # "copy", tpc' = [tpc EXCEPT ![t] = to], to = "copy" => word[t] = 1,
         reg' = reg \/ \E at : reg' = [reg EXCEPT ![t] = at]
  PROVE  Copies'
<1>1. \A u \in Joiner : u # t => tpc'[u] = tpc[u] /\ reg'[u] = reg[u]
  OBVIOUS
<1>2. tpc'[t] = to
  OBVIOUS
<1>3. ASSUME NEW u \in Joiner PROVE Writing(u)'
  <2>1. CASE u = t
    <3>1. to = "copy" => 1 .. word[t] - 1 = {}
      OBVIOUS
    <3> QED
      BY <1>2, <2>1, <3>1 DEF Writing
  <2>2. CASE u # t
    BY <1>1, <2>2 DEF Writing, Copies
  <2> QED
    BY <2>1, <2>2
<1>4. ASSUME NEW m \in 1 .. Len(local.solutions), NEW k \in 1 .. 3, local.solutions[m][k] = Garbage,
             ~Blank(local.solutions[m])
      PROVE  \E u \in Joiner : tpc'[u] = "copy" /\ reg'[u] + 1 = m /\ word'[u] \in 2 .. k
  <2>1. PICK u \in Joiner : tpc[u] = "copy" /\ reg[u] + 1 = m /\ word[u] \in 2 .. k
    BY <1>4 DEF Copies
  <2>2. u # t
    BY <2>1
  <2> QED
    BY <1>1, <2>1, <2>2
<1>5. \A entry : Blank(entry)' = Blank(entry)
  BY DEF Blank
<1>6. ASSUME NEW m \in 1 .. Len(local.solutions)', NEW k \in 1 .. 3, (local.solutions[m][k] = Garbage)'
      PROVE  \/ Blank(local.solutions[m])'
             \/ \E u \in Joiner : tpc'[u] = "copy" /\ reg'[u] + 1 = m /\ word'[u] \in 2 .. k
  BY <1>4, <1>5, <1>6
<1> QED
  BY <1>3, <1>6 DEF Copies

\* A step of a copy puts one word of the thread's report into the entry.
LEMMA CopyIs ==
  ASSUME JoinTaskInv, CheckInv, CheckInv', EntryInv, WordInv, Fits, Fits', NEW t \in Joiner, Copy(t)
  PROVE  \E e \in Underway, sol \in Triplets, k \in 1 .. 3, at \in Nat :
           /\ sol = preselected[t][pos[t]] /\ k = word[t] /\ at = reg[t] /\ tpc[t] = "copy"
           /\ \A m \in 1 .. 3 : e[m] = IF m = k THEN sol[k] ELSE EntryAt(local, at)[m]
           /\ local' = Stored(local, at, e) /\ UNCHANGED <<pc, pos, reg>>
           /\ \/ k < 3 /\ word' = [word EXCEPT ![t] = k + 1] /\ tpc' = tpc
              \/ k = 3 /\ word' = [word EXCEPT ![t] = 1] /\ tpc' = [tpc EXCEPT ![t] = "load"]
<1>1. pc = "checkup" /\ tpc[t] = "copy" /\ UNCHANGED <<pos, reg>>
  BY DEF Copy
<1>2. /\ Checks /\ reg \in [Joiner -> Nat] /\ Roomy(local) /\ local.solutions \in Seq(Underway)
      /\ pc' # "undefined"
  BY <1>1 DEF CheckInv, EntryInv
<1>3. PICK k, at, sol : /\ k \in 1 .. 3 /\ at \in Nat
                         /\ k = word[t] /\ at = reg[t] /\ sol = preselected[t][pos[t]]
  BY <1>2 DEF WordInv
<1>4. <<t, pos[t]>> \in Hits
  BY <1>1, <1>2 DEF Checks
<1>5. BucketsFit(slice)
  BY <1>1, FitsSlice DEF JoinTaskInv, Busy
<1>6. sol \in Triplets
  BY <1>1, <1>3, <1>4, <1>5, HitReport DEF Triplets
<1>7. NoEntry \in Underway
  BY NoEntryUnderway
<1>8. EntryAt(local, at) \in Underway
  BY <1>2, <1>3, <1>7, EntryType
<1>9. PICK e : e = [EntryAt(local, at) EXCEPT ![k] = sol[k]]
  OBVIOUS
<1>10. e \in Underway /\ \A m \in 1 .. 3 : e[m] = IF m = k THEN sol[k] ELSE EntryAt(local, at)[m]
  <2>1. PICK T, old : T = {NoEntry} \cup Triplets /\ sol \in T /\ old = EntryAt(local, at) /\ old \in Mixtures(T)
                      /\ Underway = Mixtures(T)
    BY <1>6, <1>8 DEF Underway
  <2>2. e = [old EXCEPT ![k] = sol[k]]
    BY <1>9, <2>1
  <2>3. e \in Mixtures(T) /\ \A m \in 1 .. 3 : e[m] = IF m = k THEN sol[k] ELSE old[m]
    <3>1. k \in 1 .. 3
      BY <1>3
    <3>2. \A b \in 1 .. 3 : e = [old EXCEPT ![b] = sol[b]] => e \in Mixtures(T)
      BY <2>1, CopiedWord
    <3>3. ASSUME NEW m \in 1 .. 3 PROVE e[m] = IF m = k THEN sol[k] ELSE old[m]
      BY <2>1, <2>2, <3>1, CopiedWords
    <3> QED
      BY <2>2, <3>1, <3>2, <3>3
  <2> QED
    BY <2>1, <2>2, <2>3
<1>11. /\ local' = Copied(local, at, k, sol) /\ pc' = pc
       /\ \/ k < 3 /\ word' = [word EXCEPT ![t] = k + 1] /\ tpc' = tpc
          \/ k = 3 /\ word' = [word EXCEPT ![t] = 1] /\ tpc' = [tpc EXCEPT ![t] = "load"]
  BY <1>2, <1>3 DEF Copy
<1>12. local' = Stored(local, at, e)
  BY <1>9, <1>11 DEF Copied
<1> QED
  BY <1>1, <1>3, <1>6, <1>10, <1>11, <1>12

\* It keeps the entries apart that are whole and those that are being copied.
LEMMA CopyStep ==
  ASSUME JoinTaskInv, CheckInv, CheckInv', EntryInv, WordInv, Fits, Fits', NEW t \in Joiner, Copy(t)
  PROVE  local'.solutions \in Seq(Underway) /\ Copies' /\ pc' = pc
<1>1. pc = "checkup" /\ TypeInv /\ Busy
  BY DEF Copy, JoinTaskInv, Busy
<1>2. /\ local.solutions \in Seq(Underway) /\ Copies /\ Roomy(local)
      /\ word \in [Joiner -> 1 .. 3] /\ reg \in [Joiner -> Nat]
      /\ tpc \in [Joiner -> {"look", "store", "copy", "load", "bump"}]
  BY <1>1 DEF CheckInv, EntryInv, WordInv, Checks
<1>3. PICK e \in Underway, sol \in Triplets, k \in 1 .. 3, at \in Nat :
         /\ k = word[t] /\ at = reg[t] /\ tpc[t] = "copy"
         /\ \A m \in 1 .. 3 : e[m] = IF m = k THEN sol[k] ELSE EntryAt(local, at)[m]
         /\ local' = Stored(local, at, e) /\ UNCHANGED <<pc, reg>>
         /\ \/ k < 3 /\ word' = [word EXCEPT ![t] = k + 1] /\ tpc' = tpc
            \/ k = 3 /\ word' = [word EXCEPT ![t] = 1] /\ tpc' = [tpc EXCEPT ![t] = "load"]
  BY CopyIs
<1>at. at \in Nat
  BY <1>3
<1>4. PICK old, new : old \in Seq(Underway) /\ old = local.solutions /\ new = local'.solutions
  BY <1>2
<1>5. PICK N \in Nat, N2 \in Nat :
         /\ N = Len(old) /\ N2 = Len(new) /\ new \in Seq(Underway) /\ N2 >= at + 1 /\ N2 >= N
         /\ new[at + 1] = e
         /\ \A m \in 1 .. N2 : m # at + 1 => new[m] = EntryAt(local, m - 1)
  <2>1. new = Stored(local, at, e).solutions
    BY <1>3, <1>4
  <2>2. /\ new \in Seq(Underway) /\ Len(new) >= at + 1 /\ Len(new) >= Len(old) /\ new[at + 1] = e
        /\ \A m \in 1 .. Len(new) : m # at + 1 => new[m] = EntryAt(local, m - 1)
    <3>1. PICK S, r : /\ S = Underway /\ r = local /\ Roomy(r) /\ r.solutions \in Seq(S)
                      /\ NoEntry \in S /\ e \in S
      BY <1>2, NoEntryUnderway
    <3>2. new = Stored(r, at, e).solutions
      BY <2>1, <3>1
    <3>3. ASSUME NEW a \in Nat, new = Stored(r, a, e).solutions
          PROVE  new \in Seq(S) /\ Len(new) >= a + 1 /\ Len(new) >= Len(r.solutions) /\ new[a + 1] = e
      <4>1. Roomy(r) /\ r.solutions \in Seq(S) /\ NoEntry \in S /\ e \in S
        BY <3>1
      <4>2. new \in Seq(S)
        BY <3>3, <4>1, StoredNew
      <4>3. Len(new) >= a + 1
        BY <3>3, <4>1, StoredNew
      <4>4. Len(new) >= Len(r.solutions)
        BY <3>3, <4>1, StoredNew
      <4>5. new[a + 1] = e
        BY <3>3, <4>1, StoredNew
      <4> QED
        BY <4>2, <4>3, <4>4, <4>5
    <3>4. ASSUME NEW a \in Nat, new = Stored(r, a, e).solutions, NEW m \in DOMAIN new, m # a + 1
          PROVE  new[m] = EntryAt(r, m - 1)
      BY <3>1, <3>4, StoredElse
    <3> QED
      <4>1. new \in Seq(S)
        BY <1>at, <3>2, <3>3
      <4>2. DOMAIN new = 1 .. Len(new)
        BY <4>1
      <4> QED
        BY <1>at, <1>4, <3>1, <3>2, <3>3, <3>4, <4>2
  <2>3. Len(new) \in Nat /\ Len(old) \in Nat
    BY <2>2
  <2> QED
    BY <2>2, <2>3
<1>6. \A m \in 1 .. N2 : EntryAt(local, m - 1) = IF m <= N THEN old[m] ELSE NoEntry
  <2>1. \A m \in 1 .. N2 : (m - 1 < N <=> m <= N) /\ m - 1 + 1 = m
    OBVIOUS
  <2> QED
    BY <1>4, <1>5, <2>1 DEF EntryAt
<1>7. \A m \in 1 .. 3 : sol[m] # Garbage
  BY <1>1, TripletsType
<1>8. ASSUME NEW m \in 1 .. N, NEW b \in 1 .. 3, old[m][b] # Garbage
      PROVE  new[m][b] # Garbage
  <2>1. m \in 1 .. N2 /\ m <= N
    BY <1>5
  <2>2. EntryAt(local, m - 1) = old[m]
    BY <1>6, <2>1
  <2>3. CASE m # at + 1
    BY <1>5, <1>8, <2>1, <2>2, <2>3
  <2>4. CASE m = at + 1
    <3>1. EntryAt(local, at) = old[m] /\ new[m] = e
      BY <1>5, <2>2, <2>4
    <3> QED
      BY <1>3, <1>7, <1>8, <3>1
  <2> QED
    BY <2>3, <2>4
<1>9. \A u \in Joiner : u # t => tpc'[u] = tpc[u] /\ word'[u] = word[u]
  BY <1>2, <1>3
<1>10. tpc'[t] = "copy" => k < 3 /\ word'[t] = k + 1
  BY <1>2, <1>3
<1>11. \A u \in Joiner : tpc[u] = "copy" =>
          \A b \in 1 .. word[u] - 1 : reg[u] < N /\ old[reg[u] + 1][b] # Garbage
  BY <1>2, <1>4, <1>5 DEF Copies, Writing
<1>12. ASSUME NEW u \in Joiner, tpc[u] = "copy", NEW b \in 1 .. word[u] - 1
       PROVE  reg[u] < N2 /\ new[reg[u] + 1][b] # Garbage
  <2>1. reg[u] \in Nat /\ reg[u] < N /\ old[reg[u] + 1][b] # Garbage /\ b \in 1 .. 3
    BY <1>2, <1>11, <1>12
  <2>2. reg[u] + 1 \in 1 .. N
    BY <2>1
  <2> QED
    BY <1>5, <1>8, <2>1, <2>2
<1>13. ASSUME NEW u \in Joiner, tpc'[u] = "copy", NEW b \in 1 .. word'[u] - 1
       PROVE  reg'[u] < Len(new) /\ new[reg'[u] + 1][b] # Garbage
  <2>1. CASE u # t
    BY <1>3, <1>5, <1>9, <1>12, <1>13, <2>1
  <2>2. CASE u = t
    <3>1. b \in 1 .. k
      BY <1>10, <1>13, <2>2
    <3>2. CASE b = k
      BY <1>3, <1>5, <1>7, <2>2, <3>2
    <3>3. CASE b \in 1 .. k - 1
      BY <1>3, <1>5, <1>12, <2>2, <3>3
    <3> QED
      BY <3>1, <3>2, <3>3
  <2> QED
    BY <2>1, <2>2
<1>14. ASSUME NEW m \in 1 .. N2, NEW b \in 1 .. 3, new[m][b] = Garbage, ~Blank(new[m])
       PROVE  \E u \in Joiner : tpc'[u] = "copy" /\ reg'[u] + 1 = m /\ word'[u] \in 2 .. b
  <2>1. CASE m # at + 1
    <3>1. m <= N
      <4>1. Blank(NoEntry)
        BY DEF Blank, NoEntry
      <4> QED
        BY <1>5, <1>6, <1>14, <2>1, <4>1
    <3>2. new[m] = old[m] /\ m \in 1 .. N
      BY <1>5, <1>6, <2>1, <3>1
    <3>3. PICK u \in Joiner : tpc[u] = "copy" /\ reg[u] + 1 = m /\ word[u] \in 2 .. b
      BY <1>2, <1>4, <1>5, <1>14, <3>2 DEF Copies
    <3> QED
      BY <1>3, <1>9, <2>1, <3>3
  <2>2. CASE m = at + 1
    <3>1. b # k
      BY <1>3, <1>5, <1>7, <1>14, <2>2
    <3>2. ~(b \in 1 .. k - 1)
      BY <1>3, <1>12, <1>14, <2>2
    <3>3. k < 3 /\ k + 1 \in 2 .. b
      BY <3>1, <3>2
    <3>4. tpc'[t] = "copy" /\ word'[t] = k + 1
      BY <1>2, <1>3, <3>3
    <3> QED
      BY <1>3, <2>2, <3>3, <3>4
  <2> QED
    BY <2>1, <2>2
<1>15. Copies'
  <2>1. \A u \in Joiner : Writing(u)'
    BY <1>4, <1>13 DEF Writing
  <2>2. \A entry : Blank(entry)' = Blank(entry)
    BY DEF Blank
  <2>3. ASSUME NEW m \in 1 .. Len(local.solutions)', NEW b \in 1 .. 3, (local.solutions[m][b] = Garbage)'
        PROVE  \/ Blank(local.solutions[m])'
               \/ \E u \in Joiner : tpc'[u] = "copy" /\ reg'[u] + 1 = m /\ word'[u] \in 2 .. b
    BY <1>4, <1>5, <1>14, <2>2, <2>3
  <2> QED
    BY <2>1, <2>3 DEF Copies
<1> QED
  BY <1>3, <1>4, <1>5, <1>15

\* ... and every step adds reports.
LEMMA EntryNext ==
  ASSUME JoinTaskInv, CheckInv, CheckInv', WordInv, EntryInv, [Next]_vars
  PROVE  EntryInv'
<1>0. task' = task /\ tsize' = tsize
  BY DEF Next, Gemm, Dispatch, Partitioned, Subjoin, Joined, Look, Store, Copy, Load, Bump, Checked, Lift, EndSlice,
         Stop, vars
<1>1. Fits' = Fits /\ Answered' = Answered
      /\ (nslice' = nslice => Reported' = Reported /\ Underway' = Underway)
  BY <1>0, SameAnswers
<1> SUFFICES ASSUME Fits PROVE EntryInv'
  BY <1>1 DEF EntryInv
<1>2. /\ pc = "checkup" => local.solutions \in Seq(Underway) /\ Copies
      /\ pc = "lift" => local.solutions \in Seq(Reported)
      /\ pc \notin {"checkup", "lift"} => local.solutions = <<>>
      /\ result.solutions \in Seq(Answered)
      /\ pc' # "undefined" /\ Roomy(local) /\ Roomy(result) /\ Fits'
  BY <1>1 DEF EntryInv, CheckInv
<1>3. <<>> \in Seq(Underway')
  OBVIOUS
<1>4. ASSUME UNCHANGED <<local, result>>, pc \notin {"checkup", "lift"}, pc' \notin {"checkup", "lift"}
      PROVE  EntryInv'
  BY <1>1, <1>2, <1>4 DEF EntryInv
<1>5. ASSUME nslice' = nslice, result' = result, pc = "checkup", pc' = "checkup",
             local'.solutions \in Seq(Underway), Copies'
      PROVE  EntryInv'
  BY <1>1, <1>2, <1>5 DEF EntryInv
<1>t. ASSUME NEW t \in Joiner, NEW to, nslice' = nslice, result' = result, pc = "checkup", pc' = "checkup",
             local'.solutions = local.solutions, word' = word,
             tpc[t] # "copy", tpc' = [tpc EXCEPT ![t] = to],
             reg' = reg \/ \E at : reg' = [reg EXCEPT ![t] = at]
      PROVE  EntryInv'
  <2>1. Copies /\ Checks /\ reg \in [Joiner -> Nat]
    BY <1>2, <1>t DEF CheckInv
  <2>2. tpc = [u \in Joiner |-> tpc[u]] /\ reg = [u \in Joiner |-> reg[u]]
    BY <2>1 DEF Checks
  <2>3. word[t] = 1
    BY <1>t DEF WordInv
  <2>4. Copies'
    BY <1>t, <2>1, <2>2, <2>3, CopiesKept
  <2> QED
    BY <1>2, <1>5, <1>t, <2>4
<1>6. CASE Gemm
  BY <1>4, <1>6 DEF Gemm, checkVars
<1>7. ASSUME NEW t \in Parter, Dispatch(t) PROVE EntryInv'
  BY <1>4, <1>7 DEF Dispatch, checkVars
<1>8. CASE Partitioned
  BY <1>4, <1>8 DEF Partitioned, checkVars
<1>9. ASSUME NEW t \in Joiner, Subjoin(t) PROVE EntryInv'
  BY <1>4, <1>9 DEF Subjoin, checkVars
<1>10. CASE Joined
  <2>1. nslice' = nslice /\ UNCHANGED <<local, result>> /\ pc = "subjoin" /\ pc' = "checkup"
        /\ tpc' = [t \in Joiner |-> "look"]
    BY <1>10 DEF Joined
  <2>2. local'.solutions = <<>>
    BY <1>2, <2>1
  <2>3. Copies'
    <3>1. \A t \in Joiner : Writing(t)'
      BY <2>1 DEF Writing
    <3>2. 1 .. Len(local'.solutions) = {}
      BY <2>2
    <3> QED
      BY <3>1, <3>2 DEF Copies
  <2> QED
    BY <1>1, <1>2, <1>3, <2>1, <2>2, <2>3 DEF EntryInv
<1>11. ASSUME NEW t \in Joiner, Look(t) PROVE EntryInv'
  <2>1. /\ nslice' = nslice /\ result' = result /\ pc = "checkup" /\ local' = Grown(local)
        /\ word' = word /\ reg' = reg /\ tpc[t] = "look" /\ tpc' = [tpc EXCEPT ![t] = "store"]
    BY <1>11 DEF Look
  <2>2. local'.solutions = local.solutions
    BY <1>2, <2>1 DEF Grown, Roomy
  <2>3. pc' = "checkup"
    BY <1>2, <1>11, <2>1 DEF Look
  <2> QED
    BY <1>t, <2>1, <2>2, <2>3
<1>12. ASSUME NEW t \in Joiner, Store(t) PROVE EntryInv'
  <2>1. /\ nslice' = nslice /\ result' = result /\ pc = "checkup" /\ pc' = pc /\ local' = local
        /\ word' = word /\ tpc[t] = "store" /\ tpc' = [tpc EXCEPT ![t] = "copy"]
        /\ \E at : reg' = [reg EXCEPT ![t] = at]
    BY <1>12 DEF Store
  <2> QED
    BY <1>t, <2>1
<1>13. ASSUME NEW t \in Joiner, Load(t) PROVE EntryInv'
  <2>1. /\ nslice' = nslice /\ result' = result /\ pc = "checkup" /\ pc' = pc /\ local' = local
        /\ word' = word /\ tpc[t] = "load" /\ tpc' = [tpc EXCEPT ![t] = "bump"]
        /\ \E at : reg' = [reg EXCEPT ![t] = at]
    BY <1>13 DEF Load
  <2> QED
    BY <1>t, <2>1
<1>14. ASSUME NEW t \in Joiner, Bump(t) PROVE EntryInv'
  <2>1. /\ nslice' = nslice /\ result' = result /\ pc = "checkup" /\ pc' = pc
        /\ local' = [local EXCEPT !.size = reg[t] + 1]
        /\ word' = word /\ reg' = reg /\ tpc[t] = "bump" /\ tpc' = [tpc EXCEPT ![t] = "look"]
    BY <1>14 DEF Bump
  <2>2. local'.solutions = local.solutions
    BY <1>2, <2>1 DEF Roomy
  <2> QED
    BY <1>t, <2>1, <2>2
<1>c. ASSUME NEW t \in Joiner, Copy(t) PROVE EntryInv'
  <2>1. nslice' = nslice /\ result' = result /\ pc = "checkup"
    BY <1>c DEF Copy
  <2>2. local'.solutions \in Seq(Underway) /\ Copies' /\ pc' = pc
    BY <1>2, <1>c, CopyStep
  <2> QED
    BY <1>5, <2>1, <2>2
<1>15. CASE Checked
  <2>1. nslice' = nslice /\ UNCHANGED <<local, result>> /\ pc = "checkup" /\ pc' = "lift"
        /\ \A t \in Joiner : tpc[t] = "look"
    BY <1>15 DEF Checked
  <2>2. PICK sols \in Seq(Underway) : sols = local.solutions
    BY <1>2, <2>1
  <2>3. PICK N \in Nat : N = Len(sols) /\ sols \in [1 .. N -> Underway]
    BY <2>2
  <2>4. \A m \in 1 .. N, k \in 1 .. 3 : sols[m][k] = Garbage => Blank(sols[m])
    BY <1>2, <2>1, <2>2, <2>3 DEF Copies
  <2>5. ASSUME NEW m \in 1 .. N PROVE sols[m] \in Reported
    <3>1. PICK e, T : T = Triplets /\ e = sols[m] /\ e \in Mixtures({NoEntry} \cup T)
      BY <2>3 DEF Underway
    <3>2. Blank(e) \/ \A k \in 1 .. 3 : e[k] # Garbage
      BY <2>4, <3>1
    <3>3. e \in {NoEntry} \cup Mixtures(T)
      BY <3>1, <3>2, WholeEntry
    <3> QED
      BY <3>1, <3>3 DEF Reported
  <2>6. sols \in [1 .. N -> Reported]
    BY <2>3, <2>5
  <2>7. local'.solutions \in Seq(Reported)
    BY <2>1, <2>2, <2>6, FunctionSeq
  <2> QED
    BY <1>1, <1>2, <2>1, <2>7 DEF EntryInv
<1>16. CASE Lift
  <2>1. nslice' = nslice /\ pc = "lift" /\ lifted < local.size /\ UNCHANGED local
    BY <1>16 DEF Lift, checkVars
  <2>2. PICK r : r = Grown(result)
    OBVIOUS
  <2>3. Roomy(result) /\ lifted \in Nat /\ local.size \in Nat
    BY <1>2, <2>1 DEF CheckInv, Roomy
  <2>4. pc' = pc /\ result' = [Stored(r, r.size, Lifted(Entries(local)[lifted + 1])) EXCEPT !.size = @ + 1]
    BY <1>2, <1>16, <2>2 DEF Lift
  <2>5. r = result
    <3>1. /\ local.size <= Cardinality(Reports(slice)) /\ lifted < local.size
          /\ result.size <= Cardinality(ReportsUpTo(nslice - 1)) + lifted
      BY <2>1 DEF CheckInv
    <3>2. /\ Cardinality(Reports(slice)) \in Nat /\ Cardinality(ReportsUpTo(nslice - 1)) \in Nat
          /\ Cardinality(ReportsUpTo(nslice - 1)) + Cardinality(Reports(slice)) <= CAPACITY /\ CAPACITY \in Nat
      BY <2>1, SliceReports, JouxAssumption DEF JoinTaskInv, Busy
    <3>3. result.size \in Nat
      BY <2>3 DEF Roomy
    <3>4. result.size < CAPACITY
      BY <2>3, <3>1, <3>2, <3>3
    <3> QED
      BY <2>2, <2>3, <3>4, GrownRoom
  <2>6. Entries(local)[lifted + 1] \in Reported
    <3>1. NoEntry \in Reported /\ local.solutions \in Seq(Reported)
      BY <1>2, <2>1 DEF Reported
    <3>2. Entries(local) \in Seq(Reported) /\ Len(Entries(local)) = local.size
      BY <1>2, <3>1, EntriesType
    <3>3. lifted + 1 \in 1 .. Len(Entries(local))
      BY <2>1, <2>3, <3>2
    <3> QED
      BY <3>2, <3>3
  <2>7. NoEntry \in Answered /\ \A sol \in Reported : Lifted(sol) \in Answered
    <3>1. TypeInv /\ Busy /\ nslice \in 1 .. Len(task.slices)
      BY <2>1, TaskType DEF JoinTaskInv, TypeInv, Busy
    <3>2. slice \in ToSet(task.slices)
      BY <3>1, TaskType DEF TypeInv, slice
    <3>3. ASSUME NEW q1 \in Reports(slice), NEW q2 \in Reports(slice), NEW q3 \in Reports(slice)
          PROVE  Lifted(<<TripleOf[q1][1], TripleOf[q2][2], TripleOf[q3][3]>>) \in Answered
      <4>1. PICK a, b, c, T : /\ a = Triple(task.L[0][q1[1]], task.L[1][q1[2]]) /\ b = Triple(task.L[0][q2[1]], task.L[1][q2[2]])
                              /\ c = Triple(task.L[0][q3[1]], task.L[1][q3[2]]) /\ T = Given(slice)
        OBVIOUS
      <4>2. a \in T /\ b \in T /\ c \in T
        BY <4>1 DEF Given
      <4>3. <<a[1], b[2], c[3]>> \in Mixtures(T)
        BY <4>2, MixtureType
      <4>4. Mixtures(T) \subseteq Answered
        BY <3>2, <4>1 DEF Answered
      <4>5. Lifted(<<TripleOf[q1][1], TripleOf[q2][2], TripleOf[q3][3]>>) = <<a[1], b[2], c[3]>>
        BY <3>1, <4>1, LiftedMixture
      <4> QED
        BY <4>3, <4>4, <4>5
    <3>4. Lifted(NoEntry) = NoEntry /\ NoEntry \in Answered
      BY DEF Lifted, NoEntry, Answered
    <3>5. ASSUME NEW sol \in Mixtures(Triplets) PROVE Lifted(sol) \in Answered
      <4>1. PICK a, b, c \in Triplets : sol = <<a[1], b[2], c[3]>>
        BY DEF Mixtures
      <4>2. PICK q1, q2, q3 \in Reports(slice) : a = TripleOf[q1] /\ b = TripleOf[q2] /\ c = TripleOf[q3]
        BY <4>1 DEF Triplets
      <4> QED
        BY <3>3, <4>1, <4>2
    <3> QED
      BY <3>4, <3>5 DEF Reported
  <2>8. PICK sol \in Answered : result' = [Stored(result, result.size, sol) EXCEPT !.size = @ + 1]
    BY <2>4, <2>5, <2>6, <2>7
  <2>9. PICK r2 : r2 = Stored(result, result.size, sol)
    OBVIOUS
  <2>10. Roomy(r2) /\ r2.solutions \in Seq(Answered)
    <3>1. result.size \in Nat
      BY <2>3 DEF Roomy
    <3> QED
      BY <1>2, <2>3, <2>7, <2>9, <3>1, StoredRoom, StoredEntries
  <2>11. result'.solutions = r2.solutions
    BY <2>8, <2>9, <2>10 DEF Roomy
  <2> QED
    BY <1>1, <1>2, <2>1, <2>4, <2>10, <2>11 DEF EntryInv
<1>17. CASE EndSlice
  <2>1. local' = NewResult /\ result' = result /\ pc' \in {"gemm", "done"}
    BY <1>17 DEF EndSlice
  <2> QED
    BY <1>1, <1>2, <2>1 DEF EntryInv, NewResult
<1>18. CASE UNCHANGED vars
  <2>1. UNCHANGED <<nslice, pc, local, result, tpc, reg, word>>
    BY <1>18 DEF vars, checkVars
  <2>2. Copies' = Copies
    BY <2>1 DEF Copies, Writing, Blank
  <2> QED
    BY <1>1, <1>2, <2>1, <2>2 DEF EntryInv
<1> QED
  BY <1>6, <1>7, <1>8, <1>9, <1>10, <1>11, <1>12, <1>13, <1>14, <1>c, <1>15, <1>16, <1>17, <1>18 DEF Next, Stop

\* So the words of what is reported are those of reports of one slice.
LEMMA Sound ==
  ASSUME CheckInv, EntryInv
  PROVE  SolutionsSound
<1> SUFFICES ASSUME NEW e \in ToSet(Entries(result)) \ {NoEntry}, Fits
             PROVE  \E s \in ToSet(task.slices) : \E q1, q2, q3 \in Reports(s) :
                       e = <<task.L[0][q1[1]], task.L[1][q2[2]], Xor(task.L[0][q3[1]], task.L[1][q3[2]])>>
  BY DEF SolutionsSound
<1>1. Roomy(result) /\ result.solutions \in Seq(Answered) /\ NoEntry \in Answered
  BY DEF CheckInv, EntryInv, Answered
<1>2. Entries(result) \in Seq(Answered)
  BY <1>1, EntriesType
<1>3. e \in Answered
  BY <1>2 DEF ToSet
<1>4. PICK s \in ToSet(task.slices) : e \in Mixtures(Given(s))
  BY <1>3 DEF Answered
<1>5. PICK a, b, c \in Given(s) : e = <<a[1], b[2], c[3]>>
  BY <1>4 DEF Mixtures
<1>6. PICK q1, q2, q3 \in Reports(s) :
         /\ a = Triple(task.L[0][q1[1]], task.L[1][q1[2]])
         /\ b = Triple(task.L[0][q2[1]], task.L[1][q2[2]])
         /\ c = Triple(task.L[0][q3[1]], task.L[1][q3[2]])
  BY <1>5 DEF Given
<1>7. e = <<task.L[0][q1[1]], task.L[1][q2[2]], Xor(task.L[0][q3[1]], task.L[1][q3[2]])>>
  BY <1>5, <1>6 DEF Triple
<1> QED
  BY <1>4, <1>6, <1>7

-----------------------------------------------------------------------------
\* A set of at most one member.
LEMMA AtMostOne ==
  ASSUME NEW S, IsFiniteSet(S), Cardinality(S) <= 1, NEW a \in S, NEW b \in S
  PROVE  a = b
<1>1. IsFiniteSet(S \ {a}) /\ Cardinality(S \ {a}) = Cardinality(S) - 1
  BY FS_RemoveElement
<1>2. Cardinality(S) \in Nat /\ Cardinality(S \ {a}) \in Nat
  BY <1>1, FS_CardinalityType
<1>3. Cardinality(S \ {a}) = 0
  BY <1>1, <1>2
<1>4. S \ {a} = {}
  BY <1>1, <1>3, FS_EmptySet
<1> QED
  BY <1>4

\* In a task of sparse reports a slice has one report, and one thread reports it.
LEMMA OneReport ==
  ASSUME TypeInv, Busy, Sparse
  PROVE  /\ \A q, u \in Reports(slice) : q = u
         /\ Cardinality(Reports(slice)) \in Nat /\ Cardinality(Reports(slice)) <= 1
<1>1. nslice \in 1 .. Len(task.slices)
  BY TaskType DEF TypeInv, Busy
<1>2. slice \in ToSet(task.slices)
  BY <1>1, TaskType DEF TypeInv, slice
<1>3. IsFiniteSet(Reports(slice)) /\ Cardinality(Reports(slice)) \in Nat /\ Cardinality(Reports(slice)) <= 1
  BY <1>2, PairsFinite DEF TypeInv, Sparse
<1> QED
  BY <1>3, AtMostOne

LEMMA OneHit ==
  ASSUME JoinTaskInv, pc = "checkup", Fits, Sparse
  PROVE  \A a, b \in Hits : a = b
<1>1. TypeInv /\ Busy
  BY DEF JoinTaskInv, Busy
<1>2. IsFiniteSet(Hits) /\ Cardinality(Hits) <= Cardinality(Reports(slice)) /\ Cardinality(Hits) \in Nat
  BY <1>1, FitsSlice, HitsBound, FS_CardinalityType
<1>3. Cardinality(Hits) <= 1
  BY <1>1, <1>2, OneReport
<1> QED
  BY <1>2, <1>3, AtMostOne

\* While it does so, no report is over.
LEMMA NoneDone ==
  ASSUME JoinTaskInv, pc = "checkup", Fits, Sparse,
         NEW t \in Joiner, <<t, pos[t]>> \in Hits, tpc[t] # "look", pos[t] \in Nat
  PROVE  Done = {} /\ Cardinality(Done) = 0
<1>1. \A hit \in Hits : hit = <<t, pos[t]>>
  BY OneHit
<1>2. \A hit \in Hits : hit[1] = t /\ hit[2] = pos[t]
  BY <1>1
<1>3. Done = {}
  BY <1>2 DEF Done
<1> QED
  BY <1>3, FS_EmptySet

\* A solution of the slice is found.
LEMMA SolutionHit ==
  ASSUME JoinTaskInv, pc = "checkup", BucketsFit(slice),
         NEW q \in Pairs, Solves(slice, q[1], q[2])
  PROVE  Hits # {}
<1>1. PICK P \in [Joiner -> SUBSET Pairs] : Holding(P)
  BY DEF JoinTaskInv, JoinInv
<1>2. nexti \in Nat /\ nexti >= fan_out /\ fan_out \in Nat
  BY WordsHavePartitions DEF JoinTaskInv, TypeInv
<1>3. q \in JoinedBelow(nexti)
  <2>1. TopValue(Image(slice, 0, q[1]), p) \in Partition
    BY ImageType, WordsHavePartitions
  <2>2. TopValue(Image(slice, 0, q[1]), p) < nexti
    BY <1>2, <2>1 DEF Partition
  <2> QED
    BY <2>2 DEF JoinedBelow, Solves
<1>4. PICK t \in Joiner : q \in P[t] /\ preselected[t] \in Seq(Triples) /\ Enumerates(preselected[t], P[t], TripleOf)
  BY <1>1, <1>3 DEF Holding
<1>5. PICK m \in 1 .. Len(preselected[t]) : preselected[t][m] = TripleOf[q]
  BY <1>4 DEF Enumerates
<1>6. m \in DOMAIN preselected[t] /\ m \in Nat
  BY <1>4
<1>7. Hit(t, m)
  <2>1. nslice \in 1 .. Len(task.slices) /\ q[1] \in 1 .. n(0) /\ q[2] \in 1 .. n(1)
    BY TaskType DEF JoinTaskInv, TypeInv, Busy, Pairs, Side
  <2>2. PICK w \in Word, y \in Word : w = task.L[0][q[1]] /\ y = task.L[1][q[2]]
    BY <2>1, TaskType DEF JoinTaskInv, TypeInv, Side
  <2>3. preselected[t][m][3] = Xor(naive_gemv(w, slice.M), naive_gemv(y, slice.M))
    BY <1>5, <2>2 DEF TripleOf, Triple, Image
  <2>4. preselected[t][m][3] \in slice.CM
    BY <2>2, <2>3, Linear DEF Solves
  <2> QED
    BY <2>4 DEF Hit, Lookup
<1>8. <<t, m>> \in Hits
  BY <1>6, <1>7 DEF Hits
<1> QED
  BY <1>8

\* A slice without solutions adds nothing to what is wanted ...
LEMMA CompleteSkip ==
  ASSUME TypeInv, Busy, NEW list, Complete(list, nslice - 1),
         \A q \in Pairs : ~Solves(slice, q[1], q[2])
  PROVE  Complete(list, nslice)
<1>1. PICK F \in SUBSET ReportsUpTo(nslice - 1) : WantedUpTo(nslice - 1) \subseteq F /\ Enumerates(list, F, Original)
  BY DEF Complete
<1>2. nslice \in Nat /\ \A k \in DOMAIN task.slices : k \in Int
  BY TaskType, JouxAssumption DEF TypeInv
<1>3. F \in SUBSET ReportsUpTo(nslice)
  <2>1. \A k \in DOMAIN task.slices : k <= nslice - 1 => k <= nslice
    BY <1>2
  <2> QED
    BY <2>1 DEF ReportsUpTo
<1>4. WantedUpTo(nslice) \subseteq F
  <2> SUFFICES ASSUME NEW q \in WantedUpTo(nslice) PROVE q \in WantedUpTo(nslice - 1)
    BY <1>1
  <2>1. /\ q \in (DOMAIN task.slices) \X Pairs /\ q[1] <= nslice
        /\ Solves(task.slices[q[1]], q[2][1], q[2][2])
    BY DEF WantedUpTo
  <2>2. q[1] # nslice
    BY <2>1 DEF slice
  <2>3. q[1] <= nslice - 1
    BY <1>2, <2>1, <2>2
  <2> QED
    BY <2>1, <2>3 DEF WantedUpTo
<1> QED
  BY <1>1, <1>3, <1>4 DEF Complete

\* ... and the one report of a slice is all that there is to add.
LEMMA CompleteAdd ==
  ASSUME TypeInv, Busy, Sparse, NEW q \in Reports(slice), NEW S, NEW list \in Seq(S), NEW sol \in S,
         Complete(list, nslice - 1), sol = Triple(task.L[0][q[1]], task.L[1][q[2]])
  PROVE  Complete(Append(list, sol), nslice)
<1>1. PICK F \in SUBSET ReportsUpTo(nslice - 1) : WantedUpTo(nslice - 1) \subseteq F /\ Enumerates(list, F, Original)
  BY DEF Complete
<1>2. nslice \in DOMAIN task.slices /\ nslice \in Nat /\ \A k \in DOMAIN task.slices : k \in Int
  <2>1. DOMAIN task.slices = 1 .. Len(task.slices)
    <3>1. task.slices \in Seq(SliceType)
      BY JouxAssumption DEF TypeInv
    <3> QED
      BY <3>1
  <2>2. nslice \in 1 .. Len(task.slices)
    BY TaskType DEF TypeInv, Busy
  <2> QED
    BY <2>1, <2>2
<1>q. q \in Pairs
  BY DEF Reports
<1>3. PICK z : z = <<nslice, q>> /\ z[1] = nslice /\ z[2] = q /\ z \in (DOMAIN task.slices) \X Pairs
  <2>1. <<nslice, q>> \in (DOMAIN task.slices) \X Pairs
    BY <1>2, <1>q
  <2> QED
    BY <2>1
<1>4. F \cup {z} \in SUBSET ReportsUpTo(nslice)
  <2>1. \A k \in DOMAIN task.slices : k <= nslice - 1 => k <= nslice
    BY <1>2
  <2>2. F \in SUBSET ReportsUpTo(nslice)
    BY <2>1 DEF ReportsUpTo
  <2>3. z \in ReportsUpTo(nslice)
    BY <1>2, <1>3 DEF ReportsUpTo, slice
  <2> QED
    BY <2>2, <2>3
<1>5. F \cap {z} = {}
  <2>1. ~(nslice <= nslice - 1)
    BY <1>2
  <2> QED
    BY <1>3, <2>1 DEF ReportsUpTo
<1>6. WantedUpTo(nslice) \subseteq F \cup {z}
  <2> SUFFICES ASSUME NEW u \in WantedUpTo(nslice), u # z PROVE u \in WantedUpTo(nslice - 1)
    BY <1>1
  <2>1. /\ u \in (DOMAIN task.slices) \X Pairs /\ u[1] <= nslice /\ u = <<u[1], u[2]>>
        /\ Solves(task.slices[u[1]], u[2][1], u[2][2])
    BY DEF WantedUpTo
  <2>2. ASSUME u[1] = nslice PROVE FALSE
    <3>1. u[2] \in Reports(slice)
      BY <2>1, <2>2 DEF Reports, Solves, slice
    <3>2. u[2] = q
      BY <3>1, OneReport
    <3> QED
      BY <1>3, <2>1, <2>2, <3>2
  <2>3. u[1] <= nslice - 1
    BY <1>2, <2>1, <2>2
  <2> QED
    BY <2>1, <2>3 DEF WantedUpTo
<1>7. Original[z] = sol
  BY <1>3 DEF Original
<1>8. Enumerates(<<sol>>, {z}, Original)
  BY <1>7, EnumOne
<1>9. <<sol>> \in Seq(S) /\ Append(list, sol) = list \o <<sol>>
  BY AppendIsConcat
<1>10. Enumerates(list \o <<sol>>, F \cup {z}, Original)
  BY <1>1, <1>5, <1>8, <1>9, EnumConcat
<1> QED
  BY <1>4, <1>6, <1>9, <1>10 DEF Complete

\* A list without gaps is its entries.
LEMMA EntriesFull ==
  ASSUME NEW S, NEW r, Roomy(r), r.solutions \in Seq(S), Len(r.solutions) = r.size
  PROVE  Entries(r) = r.solutions
<1>1. PICK s \in Seq(S) : s = r.solutions
  OBVIOUS
<1>2. PICK N \in Nat : N = Len(s) /\ N = r.size /\ s = [k \in 1 .. N |-> s[k]]
  BY <1>1
<1>3. \A k \in 1 .. N : EntryAt(r, k - 1) = s[k]
  <2>1. \A k \in 1 .. N : k - 1 < N /\ k - 1 + 1 = k
    BY <1>2
  <2> QED
    BY <1>1, <1>2, <2>1 DEF EntryAt
<1>4. Entries(r) = [k \in 1 .. N |-> s[k]]
  BY <1>2, <1>3 DEF Entries
<1> QED
  BY <1>1, <1>2, <1>4

\* What is wanted depends on the task alone.
LEMMA SameComplete ==
  ASSUME task' = task, tsize' = tsize
  PROVE  /\ Fits' = Fits /\ Sparse' = Sparse
         /\ \A list, m : Complete(list, m)' = Complete(list, m)
<1>1. Fits' = Fits /\ (\A s : Reports(s)' = Reports(s)) /\ \A m : ReportsUpTo(m)' = ReportsUpTo(m)
  BY SameFits
<1>2. Sparse' = Sparse
  BY <1>1 DEF Sparse
<1>3. Pairs' = Pairs /\ Original' = Original
  BY DEF Pairs, Original
<1>4. \A s, a, b : Solves(s, a, b)' = Solves(s, a, b)
  BY DEF Solves, Joins
<1>5. \A m : WantedUpTo(m)' = WantedUpTo(m)
  BY <1>3, <1>4 DEF WantedUpTo
<1>6. \A list, m : Complete(list, m)' = Complete(list, m)
  BY <1>1, <1>3, <1>5 DEF Complete
<1> QED
  BY <1>1, <1>2, <1>6

\* Nothing is reported and nothing wanted of the slices before the first.
LEMMA SparseInit ==
  ASSUME Init
  PROVE  SparseInv
<1>1. result = NewResult /\ pc \in {"gemm", "done"} /\ nslice = 1 /\ task \in Tasks
  BY DEF Init
<1>2. result.solutions = <<>> /\ result.size = 0 /\ Len(result.solutions) = result.size
  BY <1>1 DEF NewResult
<1>3. Entries(result) = <<>>
  BY <1>2 DEF Entries
<1>4. Covered = 0
  BY <1>1 DEF Covered
<1>5. WantedUpTo(0) = {}
  <2>1. task.slices \in Seq(SliceType)
    BY <1>1, JouxAssumption
  <2>2. \A k \in DOMAIN task.slices : ~(k <= 0)
    BY <2>1
  <2> QED
    BY <2>2 DEF WantedUpTo
<1>6. Complete(<<>>, 0)
  <2>1. {} \in SUBSET ReportsUpTo(0) /\ WantedUpTo(0) \subseteq {}
    BY <1>5
  <2> QED
    BY <2>1, EnumNothing DEF Complete
<1> QED
  BY <1>1, <1>2, <1>3, <1>4, <1>6 DEF SparseInv

\* The steps of the only report.
LEMMA AloneNext ==
  ASSUME JoinTaskInv, CheckInv, CheckInv', WordInv, EntryInv, Alone, Fits, Fits', Sparse,
         NEW t \in Joiner, Look(t) \/ Store(t) \/ Copy(t) \/ Load(t) \/ Bump(t)
  PROVE  Alone' /\ pc' = pc
<1>1. SameHits /\ pc = "checkup" /\ BucketsFit(slice)
  <2>1. SameHits /\ pc = "checkup"
    BY DEF Look, Store, Copy, Load, Bump, SameHits, Same, joinVars
  <2> QED
    BY <2>1, FitsSlice DEF JoinTaskInv, Busy
<1>2. Hits' = Hits /\ preselected' = preselected
  BY <1>1, HitsKept DEF SameHits
<1>3. pc' = "checkup"
  <2>1. pc' \in {"checkup", "undefined"}
    BY <1>1 DEF Look, Store, Copy, Load, Bump
  <2> QED
    BY <2>1 DEF CheckInv
<1>4. /\ Checks /\ pos \in [Joiner -> Nat] /\ seen \in [Joiner -> Nat] /\ reg \in [Joiner -> Nat] /\ Roomy(local)
      /\ tpc \in [Joiner -> {"look", "store", "copy", "load", "bump"}]
      /\ \A u \in Joiner : tpc[u] # "look" => <<u, pos[u]>> \in Hits
  BY <1>1 DEF CheckInv, Checks
<1>5. /\ tpc' \in [Joiner -> {"look", "store", "copy", "load", "bump"}]
      /\ \A u \in Joiner : tpc'[u] # "look" => <<u, pos'[u]>> \in Hits
  BY <1>2, <1>3 DEF CheckInv, Checks
<1>6. \A u \in Joiner : tpc'[u] # "look" => Done' = {}
  <2> SUFFICES ASSUME NEW u \in Joiner, tpc'[u] # "look" PROVE Done' = {}
    OBVIOUS
  <2>1. \A hit \in Hits : hit = <<u, pos'[u]>>
    BY <1>1, <1>5, OneHit
  <2>2. \A hit \in Hits : hit[1] = u /\ hit[2] = pos'[u]
    BY <2>1
  <2>3. pos'[u] \in Nat
    BY <2>2, <1>5 DEF Hits
  <2> QED
    BY <1>2, <2>2, <2>3 DEF Done
<1>7. \A u \in Joiner : tpc[u] # "look" => Done = {} /\ Cardinality(Done) = 0
  BY <1>1, <1>4, NoneDone
<1>8. \A u, v \in Joiner : tpc[u] # "look" /\ tpc[v] # "look" => u = v
  <2> SUFFICES ASSUME NEW u \in Joiner, NEW v \in Joiner, tpc[u] # "look", tpc[v] # "look" PROVE u = v
    OBVIOUS
  <2>1. <<u, pos[u]>> = <<v, pos[v]>>
    BY <1>1, <1>4, OneHit
  <2> QED
    BY <2>1
<1>w. /\ \A u \in Joiner : tpc[u] \in {"load", "bump"} => First(u, pos[u])
      /\ \A u \in Joiner : tpc[u] = "copy" => Begun(u)
      /\ \A u \in Joiner : tpc[u] # "copy" => word[u] = 1
  BY DEF Alone, WordInv
<1>b. \A u \in Joiner : word'[u] = 1 => Begun(u)'
  BY DEF Begun
<1>9. CASE Look(t)
  <2>1. /\ local' = Grown(local) /\ tpc' = [tpc EXCEPT ![t] = "store"] /\ word' = word /\ tpc[t] = "look"
        /\ \E e : pos' = [pos EXCEPT ![t] = e]
    BY <1>9 DEF Look
  <2>2. local'.solutions = local.solutions
    BY <1>4, <2>1 DEF Grown, Roomy
  <2>3. \A u \in Joiner : tpc'[u] \in {"load", "bump", "copy"} => tpc[u] = tpc'[u] /\ pos'[u] = pos[u]
    BY <1>4, <2>1
  <2>4. tpc'[t] # "look"
    BY <1>4, <2>1
  <2>5. \A u \in Joiner : tpc'[u] \in {"load", "bump"} => First(u, pos[u])'
    BY <1>2, <1>w, <2>2, <2>3 DEF First
  <2>6. \A u \in Joiner : tpc'[u] = "copy" => Begun(u)'
    BY <1>2, <1>w, <2>1, <2>2, <2>3 DEF Begun, EntryAt
  <2> QED
    BY <1>1, <1>3, <1>6, <2>3, <2>4, <2>5, <2>6 DEF Alone, First
<1>10. CASE Store(t)
  <2>1. tpc[t] = "store" /\ pos' = pos /\ local' = local /\ word' = word /\ tpc' = [tpc EXCEPT ![t] = "copy"]
    BY <1>10 DEF Store
  <2>2. \A u \in Joiner : tpc'[u] \in {"load", "bump"} => tpc[u] \in {"load", "bump"}
    BY <1>4, <2>1
  <2>3. tpc'[t] # "look"
    BY <1>4, <2>1
  <2>4. \A u \in Joiner : u # t => tpc[u] = "look"
    BY <1>4, <1>8, <2>1
  <2>5. \A u \in Joiner : word'[u] = 1
    BY <1>w, <2>1, <2>4
  <2> QED
    BY <1>1, <1>2, <1>3, <1>6, <1>w, <1>b, <2>1, <2>2, <2>3, <2>5 DEF Alone, First
<1>c. CASE Copy(t)
  <2>1. PICK e \in Underway, sol \in Triplets, k \in 1 .. 3, at \in Nat :
           /\ sol = preselected[t][pos[t]] /\ k = word[t] /\ at = reg[t] /\ tpc[t] = "copy"
           /\ \A m \in 1 .. 3 : e[m] = IF m = k THEN sol[k] ELSE EntryAt(local, at)[m]
           /\ local' = Stored(local, at, e) /\ UNCHANGED <<pc, pos, reg>>
           /\ \/ k < 3 /\ word' = [word EXCEPT ![t] = k + 1] /\ tpc' = tpc
              \/ k = 3 /\ word' = [word EXCEPT ![t] = 1] /\ tpc' = [tpc EXCEPT ![t] = "load"]
    BY <1>c, CopyIs
  <2>2. at = 0
    <3>1. Cardinality(Done) = 0
      BY <1>7, <2>1
    <3>2. reg[t] \in Nat /\ reg[t] <= 0
      BY <1>4, <2>1, <3>1 DEF Checks
    <3> QED
      BY <2>1, <3>2
  <2>3. PICK new : new = local'.solutions /\ new \in Seq(Underway) /\ Len(new) >= 1 /\ new[1] = e
    <3>1. PICK S, r : /\ S = Underway /\ r = local /\ Roomy(r) /\ r.solutions \in Seq(S)
                      /\ NoEntry \in S /\ e \in S
      BY <1>1, <1>4, NoEntryUnderway DEF EntryInv
    <3>2. PICK new : new = local'.solutions /\ new = Stored(r, 0, e).solutions
      BY <2>1, <2>2, <3>1
    <3>3. 0 \in Nat /\ new \in Seq(S) /\ Len(new) >= 0 + 1 /\ new[0 + 1] = e
      BY <3>1, <3>2, StoredNew
    <3> QED
      BY <3>1, <3>2, <3>3
  <2>4. \A m \in 1 .. k : e[m] = sol[m]
    <3>1. EntryAt(local, 0) = EntryAt(local, at) /\ Begun(t) /\ k \in 1 .. 3
      BY <1>w, <2>1, <2>2
    <3>2. \A m \in 1 .. k - 1 : EntryAt(local, at)[m] = sol[m]
      BY <2>1, <3>1 DEF Begun
    <3>3. \A m \in 1 .. k : m \in 1 .. 3 /\ (m = k \/ m \in 1 .. k - 1)
      BY <3>1
    <3> QED
      BY <2>1, <3>2, <3>3
  <2>5. EntryAt(local, 0)' = e
    <3>1. 0 < Len(new)
      BY <2>3
    <3> QED
      BY <2>3, <3>1 DEF EntryAt
  <2>6. \A u \in Joiner : u # t => tpc[u] = "look" /\ tpc'[u] = "look" /\ word'[u] = 1
    <3>1. \A u \in Joiner : u # t => tpc[u] = "look"
      BY <1>4, <1>8, <2>1
    <3>2. \A u \in Joiner : u # t => tpc'[u] = tpc[u] /\ word'[u] = word[u]
      BY <1>4, <2>1 DEF WordInv
    <3> QED
      BY <1>w, <3>1, <3>2
  <2>7. CASE k < 3 /\ word' = [word EXCEPT ![t] = k + 1] /\ tpc' = tpc
    <3>1. word'[t] = k + 1 /\ k + 1 - 1 = k /\ tpc'[t] = "copy"
      BY <2>1, <2>7 DEF WordInv
    <3>2. Begun(t)'
      BY <1>2, <2>1, <2>4, <2>5, <3>1 DEF Begun
    <3>3. \A u \in Joiner : Begun(u)'
      BY <1>b, <2>6, <3>2
    <3>4. \A u \in Joiner : tpc'[u] \notin {"load", "bump"}
      BY <2>6, <3>1
    <3>5. Done' = {}
      BY <1>6, <3>1
    <3> QED
      BY <3>3, <3>4, <3>5, <1>1, <1>3 DEF Alone
  <2>8. CASE k = 3 /\ word' = [word EXCEPT ![t] = 1] /\ tpc' = [tpc EXCEPT ![t] = "load"]
    <3>1. \A u \in Joiner : word'[u] = 1
      BY <2>6, <2>8 DEF WordInv
    <3>2. tpc'[t] = "load"
      BY <1>4, <2>8
    <3>3. e = sol
      <4>1. sol[1] = e[1] /\ sol[2] = e[2] /\ sol[3] = e[3]
        BY <2>4, <2>8
      <4>2. sol = <<sol[1], sol[2], sol[3]>>
        BY <1>1, TripletsType DEF JoinTaskInv, Busy
      <4>3. PICK a, b, c : e = <<a[1], b[2], c[3]>>
        BY DEF Underway, Mixtures
      <4>4. e = <<e[1], e[2], e[3]>>
        BY <4>3
      <4> QED
        BY <4>1, <4>2, <4>4
    <3>4. First(t, pos[t])'
      BY <1>2, <2>1, <2>3, <3>3 DEF First
    <3>5. \A u \in Joiner : tpc'[u] \in {"load", "bump"} => u = t
      BY <2>6
    <3>6. Done' = {}
      BY <1>6, <3>2
    <3> QED
      BY <1>1, <1>3, <1>b, <2>1, <3>1, <3>4, <3>5, <3>6 DEF Alone, First
  <2> QED
    BY <2>1, <2>7, <2>8
<1>11. CASE Load(t)
  <2>1. tpc[t] = "load" /\ pos' = pos /\ local' = local /\ word' = word /\ tpc' = [tpc EXCEPT ![t] = "bump"]
    BY <1>11 DEF Load
  <2>2. \A u \in Joiner : tpc'[u] \in {"load", "bump"} => tpc[u] \in {"load", "bump"}
    BY <1>4, <2>1
  <2>3. tpc'[t] # "look"
    BY <1>4, <2>1
  <2>4. \A u \in Joiner : u # t => tpc[u] = "look"
    BY <1>4, <1>8, <2>1
  <2>5. \A u \in Joiner : word'[u] = 1
    BY <1>w, <2>1, <2>4
  <2> QED
    BY <1>1, <1>2, <1>3, <1>6, <1>w, <1>b, <2>1, <2>2, <2>3, <2>5 DEF Alone, First
<1>12. CASE Bump(t)
  <2>1. tpc[t] = "bump" /\ pos' = pos /\ local' = [local EXCEPT !.size = reg[t] + 1]
        /\ word' = word /\ tpc' = [tpc EXCEPT ![t] = "look"]
    BY <1>12 DEF Bump
  <2>2. reg[t] = 0
    <3>1. Cardinality(Done) = 0
      BY <1>7, <2>1
    <3>2. reg[t] \in Nat /\ reg[t] <= 0
      BY <1>4, <2>1, <3>1 DEF Checks
    <3> QED
      BY <3>2
  <2>3. local'.size = 1 /\ local'.solutions = local.solutions
    BY <1>4, <2>1, <2>2 DEF Roomy
  <2>4. \A u \in Joiner : tpc'[u] \in {"load", "bump"} => tpc[u] \in {"load", "bump"}
    BY <1>4, <2>1
  <2>5. \A u \in Joiner : tpc[u] \in {"load", "bump"} => First(u, pos[u])'
    BY <1>2, <1>w, <2>1, <2>3 DEF First
  <2>6. PICK hit : hit = <<t, pos[t]>> /\ hit[1] = t /\ hit[2] = pos[t] /\ hit \in Hits
    BY <1>4, <2>1
  <2>7. hit \in Done'
    BY <1>2, <1>4, <2>1, <2>6 DEF Done
  <2>8. First(hit[1], hit[2])'
    BY <2>1, <2>5, <2>6 DEF First
  <2>9. \A u \in Joiner : u # t => tpc[u] = "look"
    BY <1>4, <1>8, <2>1
  <2>10. \A u \in Joiner : word'[u] = 1
    BY <1>w, <2>1, <2>9
  <2> QED
    BY <1>1, <1>3, <1>b, <2>1, <2>3, <2>4, <2>5, <2>7, <2>8, <2>10 DEF Alone, First
<1> QED
  BY <1>9, <1>10, <1>c, <1>11, <1>12

\* The result covers the solutions of as many slices as before, or of those that it
\* has come to cover.
LEMMA CompleteKept ==
  ASSUME task' = task, tsize' = tsize, NEW list, NEW m, Complete(list, m), Entries(result)' = list, Covered' = m
  PROVE  Complete(Entries(result), Covered)'
<1>1. \A s, c : Complete(s, c)' = Complete(s, c)
  BY SameComplete
<1> QED
  BY <1>1

\* What has been brought to the lifting stays.
LEMMA BroughtKept ==
  ASSUME Same, local' = local, Brought
  PROVE  Brought'
<1>1. task' = task /\ tsize' = tsize /\ slice' = slice /\ Pairs' = Pairs /\ TripleOf' = TripleOf
  BY SameTask DEF Same
<1>2. \A s, a, b : Solves(s, a, b)' = Solves(s, a, b)
  BY <1>1 DEF Solves, Joins
<1>3. \A s : Reports(s)' = Reports(s)
  BY <1>1, SameFits
<1>4. PICK s : s = slice
  OBVIOUS
<1>5. Reports(slice)' = Reports(slice)
  BY <1>1, <1>3, <1>4
<1>6. \A a, b : Solves(slice, a, b)' = Solves(slice, a, b)
  BY <1>1, <1>2, <1>4
<1> QED
  BY <1>1, <1>5, <1>6 DEF Brought

\* The end of the checks: all reports are over, and if there is none the slice has
\* no solution.
LEMMA CheckedBrings ==
  ASSUME JoinTaskInv, CheckInv, Alone, Fits, Sparse, Checked
  PROVE  /\ Brought /\ local.size \in {0, 1}
         /\ local.size = 0 => \A q \in Pairs : ~Solves(slice, q[1], q[2])
<1>1. /\ pc = "checkup" /\ BucketsFit(slice)
      /\ \A t \in Joiner : tpc[t] = "look" /\ \A e \in DOMAIN preselected[t] : e > pos[t] => ~Hit(t, e)
  <2>1. pc = "checkup"
    BY DEF Checked
  <2> QED
    BY <2>1, FitsSlice DEF Checked, JoinTaskInv, Busy
<1>2. Checks /\ pos \in [Joiner -> Nat] /\ Roomy(local)
  BY <1>1 DEF CheckInv
<1>3. \A hit \in Hits : hit \in Done
  <2> SUFFICES ASSUME NEW hit \in Hits PROVE hit \in Done
    OBVIOUS
  <2>1. hit[1] \in Joiner /\ hit[2] \in Nat /\ hit[2] \in DOMAIN preselected[hit[1]] /\ Hit(hit[1], hit[2])
    BY DEF Hits
  <2>2. ~(hit[2] > pos[hit[1]]) /\ pos[hit[1]] \in Nat /\ tpc[hit[1]] = "look"
    BY <1>1, <1>2, <2>1
  <2>3. hit[2] < pos[hit[1]] \/ hit[2] = pos[hit[1]]
    BY <2>1, <2>2
  <2> QED
    BY <2>2, <2>3 DEF Done
<1>4. CASE Done = {}
  <2>1. Cardinality(Done) = 0
    BY <1>4, FS_EmptySet
  <2>2. local.size = 0
    BY <1>2, <2>1 DEF Checks, Roomy
  <2>3. \A q \in Pairs : ~Solves(slice, q[1], q[2])
    BY <1>1, <1>3, <1>4, SolutionHit
  <2> QED
    BY <2>2, <2>3 DEF Brought
<1>5. CASE Done # {}
  <2>1. PICK hit \in Done : local.size = 1 /\ First(hit[1], hit[2])
    BY <1>5 DEF Alone
  <2>2. hit[1] \in Joiner /\ <<hit[1], hit[2]>> \in Hits
    BY DEF Done, Hits
  <2>3. PICK q \in Reports(slice) : preselected[hit[1]][hit[2]] = TripleOf[q]
    BY <1>1, <2>2, HitReport
  <2> QED
    BY <2>1, <2>3 DEF Brought, First
<1> QED
  BY <1>4, <1>5

\* A lifting adds the report of the slice to the result.
LEMMA LiftAdds ==
  ASSUME JoinTaskInv, CheckInv, CheckInv', EntryInv, Brought, Fits, Fits', Sparse, Lift,
         Len(result.solutions) = result.size, Complete(Entries(result), nslice - 1)
  PROVE  /\ pc' = pc /\ lifted = 0 /\ local.size = 1
         /\ Len(result'.solutions) = result'.size
         /\ Complete(Entries(result'), nslice)
<1>1. pc = "lift" /\ lifted < local.size /\ TypeInv /\ Busy
  BY DEF Lift, JoinTaskInv, Busy
<1>2. /\ Roomy(local) /\ Roomy(result) /\ Roomy(result') /\ lifted \in Nat /\ pc' # "undefined"
      /\ local.size <= Cardinality(Reports(slice))
      /\ result.size <= Cardinality(ReportsUpTo(nslice - 1)) + lifted
  BY <1>1 DEF CheckInv, Roomy
<1>3. /\ Cardinality(Reports(slice)) \in Nat /\ Cardinality(Reports(slice)) <= 1
      /\ Cardinality(ReportsUpTo(nslice - 1)) \in Nat
      /\ Cardinality(ReportsUpTo(nslice - 1)) + Cardinality(Reports(slice)) <= CAPACITY /\ CAPACITY \in Nat
  BY <1>1, OneReport, SliceReports, JouxAssumption
<1>4. lifted = 0 /\ local.size = 1 /\ result.size < CAPACITY
  <2>1. local.size \in Nat /\ result.size \in Nat
    BY <1>2 DEF Roomy
  <2> QED
    BY <1>1, <1>2, <1>3, <2>1
<1>5. PICK q \in Reports(slice) : local.solutions[1] = TripleOf[q] /\ Len(local.solutions) >= 1
  BY <1>4 DEF Brought
<1>6. Entries(local)[lifted + 1] = TripleOf[q]
  <2>1. Entries(local)[1] = EntryAt(local, 0)
    BY <1>4 DEF Entries
  <2>2. EntryAt(local, 0) = local.solutions[1]
    <3>1. 0 < Len(local.solutions)
      BY <1>5
    <3> QED
      BY <3>1 DEF EntryAt
  <2> QED
    BY <1>4, <1>5, <2>1, <2>2
<1>7. PICK sol : sol = Triple(task.L[0][q[1]], task.L[1][q[2]]) /\ Lifted(TripleOf[q]) = sol /\ sol \in Answered
  <2>1. Lifted(TripleOf[q]) = Triple(task.L[0][q[1]], task.L[1][q[2]])
    BY <1>1, LiftedReport
  <2>2. slice \in ToSet(task.slices)
    <3>1. nslice \in 1 .. Len(task.slices)
      BY <1>1, TaskType DEF TypeInv, Busy
    <3> QED
      BY <1>1, <3>1, TaskType DEF TypeInv, slice
  <2>3. Triple(task.L[0][q[1]], task.L[1][q[2]]) \in Answered
    <3>1. PICK a, T : a = Triple(task.L[0][q[1]], task.L[1][q[2]]) /\ T = Given(slice)
      OBVIOUS
    <3>2. a \in T
      BY <3>1 DEF Given
    <3>3. a = <<a[1], a[2], a[3]>>
      BY <3>1 DEF Triple
    <3>4. a \in Mixtures(T)
      BY <3>2, <3>3, MixtureType
    <3> QED
      BY <2>2, <3>1, <3>4 DEF Answered
  <2> QED
    BY <2>1, <2>3
<1>8. Grown(result) = result
  BY <1>2, <1>4, GrownRoom
<1>9. pc' = pc /\ result' = [Stored(result, result.size, sol) EXCEPT !.size = @ + 1]
  <2>1. PICK r, e : r = Grown(result) /\ e = Entries(local)[lifted + 1]
    OBVIOUS
  <2>2. pc' = pc /\ result' = [Stored(r, r.size, Lifted(e)) EXCEPT !.size = @ + 1]
    BY <1>2, <2>1 DEF Lift
  <2> QED
    BY <1>6, <1>7, <1>8, <2>1, <2>2
<1>10. PICK S : S = Answered /\ result.solutions \in Seq(S) /\ sol \in S /\ NoEntry \in S
  BY <1>7 DEF EntryInv, Answered
<1>11. PICK r : r = Stored(result, result.size, sol)
  OBVIOUS
<1>12. Roomy(r) /\ r.size = result.size /\ r.solutions = Append(result.solutions, sol)
  <2>1. result.size \in Nat
    BY <1>2 DEF Roomy
  <2>2. r.solutions = Append(result.solutions, sol)
    BY <1>2, <1>10, <1>11, StoredLast
  <2> QED
    BY <1>2, <1>11, <2>1, <2>2, StoredRoom
<1>13. result'.solutions = Append(result.solutions, sol) /\ result'.size = result.size + 1
  BY <1>9, <1>11, <1>12 DEF Roomy
<1>14. Append(result.solutions, sol) \in Seq(S) /\ Len(Append(result.solutions, sol)) = result.size + 1
  BY <1>10, AppendProperties
<1>15. Entries(result') = Append(result.solutions, sol)
  BY <1>2, <1>13, <1>14, EntriesFull
<1>16. Entries(result) = result.solutions
  BY <1>2, <1>10, EntriesFull
<1>17. Complete(Append(result.solutions, sol), nslice)
  <2>1. PICK list \in Seq(S) : list = result.solutions
    BY <1>10
  <2>2. Complete(list, nslice - 1)
    BY <1>16, <2>1
  <2>3. Complete(Append(list, sol), nslice)
    BY <1>1, <1>7, <1>10, <2>2, CompleteAdd
  <2> QED
    BY <2>1, <2>3
<1> QED
  BY <1>4, <1>9, <1>13, <1>14, <1>15, <1>17

\* Every step keeps the result complete.
LEMMA SparseNext ==
  ASSUME JoinTaskInv, CheckInv, CheckInv', WordInv, EntryInv, SparseInv, [Next]_vars
  PROVE  SparseInv'
<1>0. task' = task /\ tsize' = tsize
  BY DEF Next, Gemm, Dispatch, Partitioned, Subjoin, Joined, Look, Store, Copy, Load, Bump, Checked, Lift, EndSlice,
         Stop, vars
<1>1. Fits' = Fits /\ Sparse' = Sparse
  BY <1>0, SameComplete
<1> SUFFICES ASSUME Fits, Sparse PROVE SparseInv'
  BY <1>1 DEF SparseInv
<1>2. /\ Len(result.solutions) = result.size
      /\ pc = "checkup" => Alone
      /\ pc = "lift" => Brought
      /\ Complete(Entries(result), Covered)
  BY DEF SparseInv
<1>3. TypeInv /\ nslice \in Nat /\ pc' \notin {"undefined", "hang"} /\ Fits'
  BY <1>1 DEF JoinTaskInv, TypeInv, CheckInv
<1>4. ASSUME result' = result PROVE Entries(result)' = Entries(result) /\ Len(result'.solutions) = result'.size
  BY <1>2, <1>4 DEF Entries
<1>5. ASSUME result' = result, Covered' = Covered PROVE Complete(Entries(result), Covered)'
  <2>1. PICK list, m : list = Entries(result) /\ m = Covered
    OBVIOUS
  <2>2. Complete(list, m) /\ Entries(result)' = list /\ Covered' = m
    BY <1>2, <1>4, <1>5, <2>1
  <2> QED
    BY <1>0, <2>2, CompleteKept
<1>6. ASSUME UNCHANGED <<nslice, result>>, pc # "lift", pc' # "lift", pc' = "checkup" => Alone'
      PROVE  SparseInv'
  <2>1. Covered' = Covered
    BY <1>6 DEF Covered
  <2>2. Complete(Entries(result), Covered)' /\ Len(result'.solutions) = result'.size
    BY <1>4, <1>5, <1>6, <2>1
  <2> QED
    BY <1>6, <2>2 DEF SparseInv
<1>7. CASE Gemm \/ Partitioned \/ \E t \in Parter : Dispatch(t)
  <2>1. UNCHANGED <<nslice, result>> /\ pc \in {"gemm", "partition"}
        /\ pc' \in {"gemm", "partition", "subjoin", "undefined"}
    BY <1>7 DEF Gemm, Partitioned, Dispatch
  <2> QED
    BY <1>6, <2>1
<1>8. ASSUME NEW t \in Joiner, Subjoin(t) PROVE SparseInv'
  <2>1. UNCHANGED <<nslice, result>> /\ pc = "subjoin" /\ pc' \in {"subjoin", "hang", "undefined"}
    BY <1>8 DEF Subjoin
  <2> QED
    BY <1>6, <2>1
<1>9. CASE Joined
  <2>1. /\ SameHits /\ UNCHANGED <<nslice, result>> /\ pc = "subjoin" /\ pc' = "checkup"
        /\ tpc' = [t \in Joiner |-> "look"] /\ pos' = Zeros
    BY <1>9 DEF Joined, SameHits, Same, joinVars
  <2>2. \A t \in Joiner : preselected[t] \in Seq(Triples)
    BY <1>3, <2>1, FitsSlice DEF JoinTaskInv, JoinInv, Holding, Busy
  <2>3. \A hit \in Hits : hit[1] \in Joiner /\ hit[2] \in Nat /\ hit[2] >= 1
    BY <2>2 DEF Hits
  <2>4. Done' = {}
    <3>1. Hits' = Hits
      BY <2>1, HitsKept
    <3>2. \A hit \in Hits : ~(hit[2] < pos'[hit[1]]) /\ hit[2] # pos'[hit[1]]
      BY <2>1, <2>3 DEF Zeros
    <3> QED
      BY <3>1, <3>2 DEF Done
  <2>5. Alone'
    <3>1. \A t \in Joiner : tpc'[t] = "look"
      BY <2>1
    <3> QED
      BY <2>4, <3>1 DEF Alone
  <2> QED
    BY <1>6, <2>1, <2>5
<1>10. ASSUME NEW t \in Joiner, Look(t) \/ Store(t) \/ Copy(t) \/ Load(t) \/ Bump(t) PROVE SparseInv'
  <2>1. UNCHANGED <<nslice, result>> /\ pc = "checkup"
    BY <1>10 DEF Look, Store, Copy, Load, Bump
  <2>2. Alone' /\ pc' = pc
    BY <1>2, <1>3, <1>10, <2>1, AloneNext
  <2> QED
    BY <1>6, <2>1, <2>2
<1>11. CASE Checked
  <2>1. Same /\ pc = "checkup" /\ pc' = "lift" /\ UNCHANGED <<nslice, local, lifted, result>>
    BY <1>11 DEF Checked, Same
  <2>2. lifted = 0 /\ Covered = nslice - 1 /\ Busy
    BY <2>1 DEF CheckInv, Covered, Busy
  <2>3. /\ Brought /\ local.size \in {0, 1}
        /\ local.size = 0 => \A q \in Pairs : ~Solves(slice, q[1], q[2])
    BY <1>2, <1>11, <2>1, CheckedBrings
  <2>4. PICK list, m : list = Entries(result) /\ m = Covered' /\ Complete(list, nslice - 1)
    BY <1>2, <2>2
  <2>5. Complete(list, m)
    <3>1. CASE local.size = 0
      <4>1. m = nslice
        BY <2>1, <2>2, <2>4, <3>1 DEF Covered
      <4>2. Complete(list, nslice)
        BY <1>3, <2>2, <2>3, <2>4, <3>1, CompleteSkip
      <4> QED
        BY <4>1, <4>2
    <3>2. CASE local.size = 1
      <4>1. m = nslice - 1
        BY <2>1, <2>2, <2>4, <3>2 DEF Covered
      <4> QED
        BY <2>4, <4>1
    <3> QED
      BY <2>3, <3>1, <3>2
  <2>6. Complete(Entries(result), Covered)' /\ Len(result'.solutions) = result'.size
    BY <1>0, <1>4, <2>1, <2>4, <2>5, CompleteKept
  <2>7. Brought'
    BY <2>1, <2>3, BroughtKept
  <2> QED
    BY <2>1, <2>6, <2>7 DEF SparseInv
<1>12. CASE Lift
  <2>1. Same /\ pc = "lift" /\ lifted' = lifted + 1 /\ lifted < local.size /\ UNCHANGED <<nslice, local>>
    BY <1>12 DEF Lift, Same, checkVars
  <2>2. lifted # local.size
    BY <2>1 DEF CheckInv, Roomy
  <2>3. Covered = nslice - 1
    BY <2>1, <2>2 DEF Covered
  <2>4. /\ pc' = pc /\ lifted = 0 /\ local.size = 1
        /\ Len(result'.solutions) = result'.size
        /\ Complete(Entries(result'), nslice)
    BY <1>2, <1>3, <1>12, <2>1, <2>3, LiftAdds
  <2>5. Covered' = nslice
    BY <2>1, <2>4 DEF Covered
  <2>6. PICK list, m : list = Entries(result') /\ m = nslice /\ Complete(list, m)
    BY <2>4
  <2>7. Entries(result)' = list
    BY <2>6 DEF Entries
  <2>8. Complete(Entries(result), Covered)'
    BY <1>0, <2>5, <2>6, <2>7, CompleteKept
  <2>9. Brought'
    BY <1>2, <2>1, BroughtKept
  <2> QED
    BY <2>1, <2>4, <2>8, <2>9 DEF SparseInv
<1>13. CASE EndSlice
  <2>1. nslice' = nslice + 1 /\ pc = "lift" /\ lifted = local.size /\ pc' \in {"gemm", "done"} /\ result' = result
    BY <1>13 DEF EndSlice, NextSlice
  <2>2. Covered' = nslice' - 1 /\ Covered = nslice
    BY <2>1 DEF Covered
  <2>3. Covered' = Covered
    BY <1>3, <2>1, <2>2
  <2>4. Complete(Entries(result), Covered)' /\ Len(result'.solutions) = result'.size
    BY <1>4, <1>5, <2>1, <2>3
  <2> QED
    BY <2>1, <2>4 DEF SparseInv
<1>14. CASE UNCHANGED vars
  <2>1. SameHits /\ UNCHANGED <<nslice, pc, local, tpc, pos, word, preselected, lifted, result>>
    BY <1>14 DEF vars, SameHits, Same, joinVars, checkVars
  <2>2. Same /\ Covered' = Covered
    BY <2>1 DEF SameHits, Covered
  <2>3. Done' = Done
    BY <2>1, HitsKept DEF Done
  <2>4. Alone' = Alone
    BY <2>1, <2>3 DEF Alone, First, Begun, EntryAt
  <2>5. Brought => Brought'
    BY <2>1, <2>2, BroughtKept
  <2>6. Complete(Entries(result), Covered)' /\ Len(result'.solutions) = result'.size
    BY <1>4, <1>5, <2>1, <2>2
  <2> QED
    BY <1>2, <2>1, <2>4, <2>5, <2>6 DEF SparseInv
<1> QED
  BY <1>7, <1>8, <1>9, <1>10, <1>11, <1>12, <1>13, <1>14 DEF Next, Stop

-----------------------------------------------------------------------------
\* Two families with the same members under two indexings have the same bag.
LEMMA SameBags ==
  ASSUME NEW A, IsFiniteSet(A), NEW X, NEW s, NEW f, DOMAIN s = A, DOMAIN f = X, NEW g,
         \A m \in A : g[m] \in X /\ s[m] = f[g[m]],
         \A m, k \in A : g[m] = g[k] => m = k,
         \A q \in X : \E m \in A : g[m] = q
  PROVE  ToBag(s) = ToBag(f)
<1>1. Range(s) = Range(f)
  BY DEF Range
<1>2. ASSUME NEW w
      PROVE  Cardinality({m \in DOMAIN s : s[m] = w}) = Cardinality({q \in DOMAIN f : f[q] = w})
  <2> DEFINE C == {m \in DOMAIN s : s[m] = w}
             B == {q \in DOMAIN f : f[q] = w}
             b == [m \in C |-> g[m]]
  <2>1. IsFiniteSet(C)
    BY FS_Subset
  <2>2. \A m \in C : m \in A /\ b[m] = g[m] /\ g[m] \in B
    OBVIOUS
  <2>3. \A q \in B : \E m \in C : b[m] = q
    OBVIOUS
  <2>4. b \in Bijection(C, B)
    BY <2>2, <2>3 DEF Bijection, Injection, Surjection, IsInjective
  <2>5. ExistsBijection(C, B)
    BY <2>4 DEF ExistsBijection
  <2> QED
    BY <2>1, <2>5, FS_Bijection
<1> QED
  BY <1>1, <1>2 DEF ToBag

\* A report is told from a pair of equal words by its xor.
LEMMA SolutionEntry ==
  ASSUME TypeInv, NEW m, NEW q \in ReportsUpTo(m)
  PROVE  Original[q][3] # Zero <=> Solves(task.slices[q[1]], q[2][1], q[2][2])
<1>1. /\ q \in (DOMAIN task.slices) \X Pairs /\ q[2] \in Pairs
      /\ \/ Solves(task.slices[q[1]], q[2][1], q[2][2])
         \/ task.L[0][q[2][1]] = task.L[1][q[2][2]]
  BY DEF ReportsUpTo, Reports
<1>2. q[2][1] \in 1 .. n(0) /\ q[2][2] \in 1 .. n(1)
  BY <1>1, TaskType DEF TypeInv, Pairs, Side
<1>3. PICK w \in Word, y \in Word : w = task.L[0][q[2][1]] /\ y = task.L[1][q[2][2]]
  BY <1>2, TaskType DEF TypeInv, Side
<1>4. Original[q] = <<w, y, Xor(w, y)>>
  BY <1>1, <1>3 DEF Original, Triple
<1>6. Xor(w, y) # Zero <=> w # y
  BY DEF Xor, SymDiff, Zero
<1>7. Solves(task.slices[q[1]], q[2][1], q[2][2]) => w # y
  BY <1>3 DEF Solves
<1> QED
  BY <1>1, <1>3, <1>4, <1>6, <1>7

\* A complete list is the answer wanted.
LEMMA AnswerWanted ==
  ASSUME TypeInv, Roomy(result), Complete(Entries(result), Len(task.slices))
  PROVE  Answer = Wanted
<1> DEFINE X == {q \in (DOMAIN task.slices) \X Pairs : Solves(task.slices[q[1]], q[2][1], q[2][2])}
           f == [q \in X |-> Triple(task.L[0][q[2][1]], task.L[1][q[2][2]])]
<1>0. PICK s, S : s = Entries(result) /\ S = {s[m] : m \in DOMAIN s}
  OBVIOUS
<1>1. PICK N \in Nat : DOMAIN s = 1 .. N /\ N = Len(s)
  <2>1. result.size \in Nat /\ s = [m \in 1 .. result.size |-> s[m]]
    BY <1>0 DEF Entries, Roomy
  <2>2. s \in [1 .. result.size -> S]
    BY <1>0, <2>1
  <2>3. s \in Seq(S) /\ Len(s) = result.size
    BY <2>1, <2>2, FunctionSeq
  <2> QED
    BY <2>1, <2>3
<1>2. PICK F \in SUBSET ReportsUpTo(Len(task.slices)) :
         WantedUpTo(Len(task.slices)) \subseteq F /\ Enumerates(s, F, Original)
  BY <1>0 DEF Complete
<1>3. PICK g \in [1 .. N -> F] :
        /\ \A q \in F : \E m \in 1 .. N : g[m] = q
        /\ \A m, k \in 1 .. N : g[m] = g[k] => m = k
        /\ \A m \in 1 .. N : s[m] = Original[g[m]]
  BY <1>1, <1>2 DEF Enumerates
<1>4. X \subseteq F
  <2>1. DOMAIN task.slices = 1 .. Len(task.slices)
    <3>1. task.slices \in Seq(SliceType)
      BY JouxAssumption DEF TypeInv
    <3> QED
      BY <3>1
  <2>2. \A q \in X : q[1] <= Len(task.slices)
    BY <2>1, TaskType DEF TypeInv
  <2> QED
    BY <1>2, <2>2 DEF WantedUpTo
<1>5. \A m \in 1 .. N : s[m][3] # Zero <=> g[m] \in X
  <2> SUFFICES ASSUME NEW m \in 1 .. N
               PROVE  s[m][3] # Zero <=> g[m] \in X
    OBVIOUS
  <2>1. PICK q : q = g[m] /\ q \in F /\ s[m] = Original[q]
    BY <1>3
  <2>2. q \in ReportsUpTo(Len(task.slices)) /\ q \in (DOMAIN task.slices) \X Pairs
    BY <1>2, <2>1 DEF ReportsUpTo
  <2>3. (s[m][3] # Zero <=> Solves(task.slices[q[1]], q[2][1], q[2][2]))
    BY <2>1, <2>2, SolutionEntry
  <2> QED
    BY <2>1, <2>2, <2>3
<1>6. \A q \in F : q \in X => f[q] = Original[q]
  BY DEF Original
<1> HIDE DEF X
<1>7. PICK A : A = {m \in 1 .. N : s[m][3] # Zero}
  OBVIOUS
<1>8. PICK a : a = [m \in A |-> s[m]]
  OBVIOUS
<1>9. IsFiniteSet(A)
  <2>1. A \subseteq 1 .. N /\ IsFiniteSet(1 .. N)
    BY <1>7, FS_Interval
  <2> QED
    BY <2>1, FS_Subset
<1>10. \A m \in A : g[m] \in X /\ a[m] = f[g[m]]
  BY <1>3, <1>5, <1>6, <1>7, <1>8
<1>11. \A m, k \in A : g[m] = g[k] => m = k
  BY <1>3, <1>7
<1>12. \A q \in X : \E m \in A : g[m] = q
  BY <1>3, <1>4, <1>5, <1>7
<1>13. DOMAIN a = A /\ DOMAIN f = X
  BY <1>8
<1> HIDE DEF f
<1>14. ToBag(a) = ToBag(f)
  BY ONLY <1>9, <1>10, <1>11, <1>12, <1>13, SameBags
<1>15. Answer = ToBag(a)
  BY <1>0, <1>1, <1>7, <1>8 DEF Answer
<1>16. Wanted = ToBag(f)
  BY DEF Wanted, f, X
<1> QED
  BY <1>14, <1>15, <1>16

\* So the task has answered when it is done.
LEMMA Exact ==
  ASSUME JoinTaskInv, CheckInv, RangeInv, SparseInv
  PROVE  SparseExact
<1> SUFFICES ASSUME pc = "done", Fits, Sparse PROVE Answer = Wanted
  BY DEF SparseExact, TaskExact, Sparse
<1>1. TypeInv /\ Roomy(result) /\ nslice = Len(task.slices) + 1 /\ Len(task.slices) \in Nat
  BY TaskType DEF JoinTaskInv, TypeInv, CheckInv, RangeInv
<1>2. Covered = Len(task.slices)
  BY <1>1 DEF Covered
<1>3. Complete(Entries(result), Len(task.slices))
  BY <1>2 DEF SparseInv
<1> QED
  BY <1>1, <1>3, AnswerWanted

\* However the threads copy their solutions over each other, the words of what a task
\* reports are those of reports of one slice, each in its place: an entry may mix
\* several of them, or be missing, but has nothing else in it.  And where each slice
\* has at most one to report the task reports its solutions, each once, and nothing
\* else but pairs of equal words: for every number of threads and slices, and every
\* interleaving of them, word by word.
THEOREM ReportsExactHolds == Spec => []ReportsExact
<1> DEFINE ReportInv == JoinTaskInv /\ CheckInv /\ Written /\ RangeInv /\ WordInv /\ EntryInv /\ SparseInv
<1>1. Init => ReportInv
  BY InvInit, CheckInit, WrittenInit, RangeInit, WordInit, EntryInit, SparseInit
<1>2. ReportInv /\ [Next]_vars => ReportInv'
  <2> SUFFICES ASSUME ReportInv, [Next]_vars PROVE ReportInv'
    OBVIOUS
  <2>1. JoinTaskInv' /\ CheckInv'
    BY InvNext, CheckNext
  <2>2. Written'
    BY WrittenNext DEF JoinTaskInv
  <2>3. RangeInv'
    BY <2>1, RangeNext DEF JoinTaskInv
  <2>4. WordInv' /\ EntryInv' /\ SparseInv'
    BY <2>1, WordNext, EntryNext, SparseNext
  <2> QED
    BY <2>1, <2>2, <2>3, <2>4
<1>3. ReportInv => ReportsExact
  <2> SUFFICES ASSUME ReportInv PROVE ReportsExact
    OBVIOUS
  <2>1. TypeOK
    BY InRange DEF JoinTaskInv
  <2> QED
    BY <2>1, Exact, Sound DEF ReportsExact
<1> QED
  BY <1>1, <1>2, <1>3, PTL DEF Spec

(***************************************************************************)
(* The product by tables                                                   *)
(***************************************************************************)
\* The recursions of ffs and Gray, and that of the ones of a number.
FirstBy(f, a) == IF a = 0 THEN 0 ELSE IF a % 2 = 1 THEN 1 ELSE 1 + f[a \div 2]
CodeBy(f, a) == IF a = 0 THEN 0 ELSE ((a + a \div 2) % 2) + 2 * f[a \div 2]
OnesBy(f, a) == IF a = 0 THEN {} ELSE (IF a % 2 = 1 THEN {0} ELSE {}) \cup {k + 1 : k \in f[a \div 2]}
IsFirst(c, f) == f = [a \in 0 .. c |-> FirstBy(f, a)]
IsCode(c, f) == f = [a \in 0 .. c |-> CodeBy(f, a)]
IsOnes(c, f) == f = [a \in 0 .. c |-> OnesBy(f, a)]

\* The positions of the ones of a number.
Ones(a) == (CHOOSE f : IsOnes(TwoTo(BYTE) - 1, f))[a]

LEMMA FirstExists == \A c \in Nat : \E f : IsFirst(c, f)
<1> DEFINE X == {c \in Nat : ~ \E f : IsFirst(c, f)}
<1> SUFFICES ASSUME X # {} PROVE FALSE
  OBVIOUS
<1>1. PICK c \in X : \A l \in X : c <= l
  <2>1. X \in SUBSET Nat
    OBVIOUS
  <2> HIDE DEF X
  <2> QED
    BY <2>1, Least
<1>2. CASE c = 0
  <2>1. IsFirst(0, [a \in 0 .. 0 |-> 0])
    BY DEF IsFirst, FirstBy
  <2> QED
    BY <1>1, <1>2, <2>1
<1>3. CASE c # 0
  <2>1. c - 1 \in Nat /\ ~(c <= c - 1)
    BY <1>1, <1>3
  <2>2. PICK g : IsFirst(c - 1, g)
    BY <1>1, <2>1
  <2> DEFINE f == [a \in 0 .. c |-> FirstBy(g, a)]
  <2>3. ASSUME NEW a \in 0 .. c PROVE FirstBy(f, a) = FirstBy(g, a)
    <3>1. ASSUME a # 0 PROVE f[a \div 2] = g[a \div 2]
      <4>1. a \div 2 \in 0 .. c - 1 /\ a \div 2 \in 0 .. c
        BY <1>1, <3>1
      <4> QED
        BY <2>2, <4>1 DEF IsFirst
    <3> HIDE DEF f
    <3> QED
      BY <3>1 DEF FirstBy
  <2>4. IsFirst(c, f)
    BY <2>3 DEF IsFirst
  <2> QED
    BY <1>1, <2>4
<1> QED
  BY <1>2, <1>3

LEMMA CodeExists == \A c \in Nat : \E f : IsCode(c, f)
<1> DEFINE X == {c \in Nat : ~ \E f : IsCode(c, f)}
<1> SUFFICES ASSUME X # {} PROVE FALSE
  OBVIOUS
<1>1. PICK c \in X : \A l \in X : c <= l
  <2>1. X \in SUBSET Nat
    OBVIOUS
  <2> HIDE DEF X
  <2> QED
    BY <2>1, Least
<1>2. CASE c = 0
  <2>1. IsCode(0, [a \in 0 .. 0 |-> 0])
    BY DEF IsCode, CodeBy
  <2> QED
    BY <1>1, <1>2, <2>1
<1>3. CASE c # 0
  <2>1. c - 1 \in Nat /\ ~(c <= c - 1)
    BY <1>1, <1>3
  <2>2. PICK g : IsCode(c - 1, g)
    BY <1>1, <2>1
  <2> DEFINE f == [a \in 0 .. c |-> CodeBy(g, a)]
  <2>3. ASSUME NEW a \in 0 .. c PROVE CodeBy(f, a) = CodeBy(g, a)
    <3>1. ASSUME a # 0 PROVE f[a \div 2] = g[a \div 2]
      <4>1. a \div 2 \in 0 .. c - 1 /\ a \div 2 \in 0 .. c
        BY <1>1, <3>1
      <4> QED
        BY <2>2, <4>1 DEF IsCode
    <3> HIDE DEF f
    <3> QED
      BY <3>1 DEF CodeBy
  <2>4. IsCode(c, f)
    BY <2>3 DEF IsCode
  <2> QED
    BY <1>1, <2>4
<1> QED
  BY <1>2, <1>3

LEMMA OnesExists == \A c \in Nat : \E f : IsOnes(c, f)
<1> DEFINE X == {c \in Nat : ~ \E f : IsOnes(c, f)}
<1> SUFFICES ASSUME X # {} PROVE FALSE
  OBVIOUS
<1>1. PICK c \in X : \A l \in X : c <= l
  <2>1. X \in SUBSET Nat
    OBVIOUS
  <2> HIDE DEF X
  <2> QED
    BY <2>1, Least
<1>2. CASE c = 0
  <2>1. IsOnes(0, [a \in 0 .. 0 |-> {}])
    BY DEF IsOnes, OnesBy
  <2> QED
    BY <1>1, <1>2, <2>1
<1>3. CASE c # 0
  <2>1. c - 1 \in Nat /\ ~(c <= c - 1)
    BY <1>1, <1>3
  <2>2. PICK g : IsOnes(c - 1, g)
    BY <1>1, <2>1
  <2> DEFINE f == [a \in 0 .. c |-> OnesBy(g, a)]
  <2>3. ASSUME NEW a \in 0 .. c PROVE OnesBy(f, a) = OnesBy(g, a)
    <3>1. ASSUME a # 0 PROVE f[a \div 2] = g[a \div 2]
      <4>1. a \div 2 \in 0 .. c - 1 /\ a \div 2 \in 0 .. c
        BY <1>1, <3>1
      <4> QED
        BY <2>2, <4>1 DEF IsOnes
    <3> HIDE DEF f
    <3> QED
      BY <3>1 DEF OnesBy
  <2>4. IsOnes(c, f)
    BY <2>3 DEF IsOnes
  <2> QED
    BY <1>1, <2>4
<1> QED
  BY <1>2, <1>3

\* The entries of a table, and the halves of their numbers.
LEMMA Slots ==
  /\ BYTE \in Nat \ {0} /\ TwoTo(BYTE) \in Nat \ {0}
  /\ TwoTo(BYTE) - 1 \in Nat /\ Slot = 0 .. TwoTo(BYTE) - 1 /\ 0 \in Slot
  /\ \A a \in Slot : /\ a \in Nat /\ a \div 2 \in Slot /\ a \div 2 <= a /\ (a # 0 => a \div 2 < a /\ a - 1 \in Slot)
                     /\ (a % 2 = 1 => a = 2 * (a \div 2) + 1)
                     /\ (a % 2 # 1 => a = 2 * (a \div 2) /\ a % 2 = 0)
<1>1. BYTE \in Nat \ {0}
  BY MatmulAssumption
<1>2. TwoTo(BYTE) \in Nat \ {0}
  BY <1>1, ValueBelow
<1>3. PICK c \in Nat \ {0} : c = TwoTo(BYTE)
  BY <1>2
<1> QED
  BY <1>1, <1>3 DEF Slot

LEMMA GrayIs ==
  /\ Gray(0) = 0
  /\ \A a \in Slot : Gray(a) = ((a + a \div 2) % 2) + 2 * Gray(a \div 2)
<1> DEFINE c == TwoTo(BYTE) - 1
           f == CHOOSE g : IsCode(c, g)
<1>0. c \in Nat /\ Slot = 0 .. c
  BY Slots
<1>1. IsCode(c, f)
  BY <1>0, CodeExists, Zenon
<1>2. \A a : Gray(a) = f[a]
  BY <1>0 DEF Gray, IsCode, CodeBy
<1> HIDE DEF f, c
<1>3. \A a \in Slot : Gray(a) = CodeBy(f, a)
  BY <1>0, <1>1, <1>2 DEF IsCode
<1>4. Gray(0) = 0
  BY <1>3, Slots DEF CodeBy
<1>5. ASSUME NEW a \in Slot PROVE Gray(a) = ((a + a \div 2) % 2) + 2 * Gray(a \div 2)
  <2>1. CASE a = 0
    <3>1. (0 + 0 \div 2) % 2 = 0 /\ 0 \div 2 = 0
      OBVIOUS
    <3> QED
      BY <1>4, <2>1, <3>1
  <2>2. CASE a # 0
    BY <1>2, <1>3, <2>2 DEF CodeBy
  <2> QED
    BY <2>1, <2>2
<1> QED
  BY <1>4, <1>5

LEMMA FfsIs ==
  \A a \in Slot \ {0} : ffs(a) = IF a % 2 = 1 THEN 1 ELSE 1 + ffs(a \div 2)
<1> DEFINE c == TwoTo(BYTE) - 1
           f == CHOOSE g : IsFirst(c, g)
<1>0. c \in Nat /\ Slot = 0 .. c
  BY Slots
<1>1. IsFirst(c, f)
  BY <1>0, FirstExists, Zenon
<1>2. \A a : ffs(a) = f[a]
  BY <1>0 DEF ffs, IsFirst, FirstBy
<1> HIDE DEF f, c
<1>3. \A a \in Slot : ffs(a) = FirstBy(f, a)
  BY <1>0, <1>1, <1>2 DEF IsFirst
<1> QED
  BY <1>2, <1>3 DEF FirstBy

LEMMA OnesIs ==
  /\ Ones(0) = {}
  /\ \A a \in Slot : Ones(a) = (IF a % 2 = 1 THEN {0} ELSE {}) \cup {k + 1 : k \in Ones(a \div 2)}
<1> DEFINE c == TwoTo(BYTE) - 1
           f == CHOOSE g : IsOnes(c, g)
<1>0. c \in Nat /\ Slot = 0 .. c
  BY Slots
<1>1. IsOnes(c, f)
  BY <1>0, OnesExists, Zenon
<1>2. \A a : Ones(a) = f[a]
  BY DEF Ones
<1> HIDE DEF f, c
<1>3. \A a \in Slot : Ones(a) = OnesBy(f, a)
  BY <1>0, <1>1, <1>2 DEF IsOnes
<1>4. Ones(0) = {}
  BY <1>3, Slots DEF OnesBy
<1>5. ASSUME NEW a \in Slot
      PROVE  Ones(a) = (IF a % 2 = 1 THEN {0} ELSE {}) \cup {k + 1 : k \in Ones(a \div 2)}
  <2>1. CASE a = 0
    <3>1. 0 % 2 = 0 /\ 0 \div 2 = 0
      OBVIOUS
    <3> QED
      BY <1>4, <2>1, <3>1
  <2>2. CASE a # 0
    BY <1>2, <1>3, <2>2 DEF OnesBy
  <2> QED
    BY <2>1, <2>2
<1> QED
  BY <1>4, <1>5

\* The ones of a number whose last bit is r, and whose others spell v.
LEMMA OnesTwice ==
  ASSUME NEW v \in Nat, NEW r \in 0 .. 1, r + 2 * v \in Slot
  PROVE  /\ v \in Slot
         /\ Ones(r + 2 * v) = (IF r = 1 THEN {0} ELSE {}) \cup {k + 1 : k \in Ones(v)}
<1>1. (r + 2 * v) \div 2 = v /\ (r + 2 * v) % 2 = r
  OBVIOUS
<1> QED
  BY <1>1, OnesIs, Slots

\* What the numbers below a power of two have in common, and where ones are.
LEMMA BelowPower ==
  ASSUME NEW g, IsPower(BYTE, g), TwoTo(BYTE) = g[BYTE]
  PROVE  /\ \A k \in 0 .. BYTE : g[k] \in Nat \ {0} /\ \A a \in 0 .. g[k] - 1 : a \in Slot
         /\ \A k \in 0 .. BYTE - 1 : k + 1 \in 0 .. BYTE /\ g[k + 1] = 2 * g[k]
         /\ g[0] = 1
<1>0. BYTE \in Nat \ {0}
  BY Slots
<1>1. \A k \in 0 .. BYTE - 1 : k + 1 \in 0 .. BYTE /\ g[k + 1] = 2 * g[k]
  <2> SUFFICES ASSUME NEW k \in 0 .. BYTE - 1 PROVE k + 1 \in 0 .. BYTE /\ g[k + 1] = 2 * g[k]
    OBVIOUS
  <2>1. k + 1 \in 0 .. BYTE /\ k + 1 # 0 /\ (k + 1) - 1 = k
    BY <1>0
  <2>2. g[k + 1] = PowerBy(g, k + 1)
    BY <2>1 DEF IsPower
  <2> QED
    BY <2>1, <2>2 DEF PowerBy
<1>2. g[0] = 1
  <2>1. 0 \in 0 .. BYTE
    BY <1>0
  <2>2. g[0] = PowerBy(g, 0)
    BY <2>1 DEF IsPower
  <2> QED
    BY <2>2 DEF PowerBy
<1> DEFINE X == {k \in 0 .. BYTE : g[k] \notin Nat \ {0}}
           Y == {k \in 0 .. BYTE : ~(g[BYTE - k] <= g[BYTE])}
<1>3. X = {}
  <2> SUFFICES ASSUME X # {} PROVE FALSE
    OBVIOUS
  <2>1. PICK k \in X : \A l \in X : k <= l
    <3>1. X \in SUBSET Nat
      BY <1>0
    <3> HIDE DEF X
    <3> QED
      BY <3>1, Least
  <2>2. k # 0
    BY <1>2, <2>1
  <2>3. k - 1 \in 0 .. BYTE - 1 /\ k - 1 \in 0 .. BYTE /\ ~(k <= k - 1) /\ (k - 1) + 1 = k
    BY <1>0, <2>1, <2>2
  <2>4. g[k - 1] \in Nat \ {0}
    BY <2>1, <2>3
  <2>5. g[k] = 2 * g[k - 1]
    BY <1>1, <2>3
  <2> QED
    BY <2>1, <2>4, <2>5
<1>4. Y = {}
  <2> SUFFICES ASSUME Y # {} PROVE FALSE
    OBVIOUS
  <2>1. PICK k \in Y : \A l \in Y : k <= l
    <3>1. Y \in SUBSET Nat
      BY <1>0
    <3> HIDE DEF Y
    <3> QED
      BY <3>1, Least
  <2>2. k # 0
    <3>1. BYTE - 0 = BYTE /\ BYTE \in 0 .. BYTE
      BY <1>0
    <3>2. g[BYTE] \in Nat
      BY <1>3, <3>1
    <3> QED
      BY <2>1, <3>1, <3>2
  <2>3. PICK l \in 0 .. BYTE - 1 : l = BYTE - k
    BY <1>0, <2>1, <2>2
  <2>4. k - 1 \in 0 .. BYTE /\ ~(k <= k - 1) /\ BYTE - (k - 1) = l + 1
    BY <1>0, <2>1, <2>2, <2>3
  <2>5. g[l + 1] <= g[BYTE]
    BY <2>1, <2>4
  <2>6. g[l + 1] = 2 * g[l]
    BY <1>1
  <2>7. l \in 0 .. BYTE /\ BYTE \in 0 .. BYTE
    BY <1>0
  <2>8. PICK a \in Nat, b \in Nat : a = g[l] /\ b = g[BYTE]
    BY <1>3, <2>7
  <2>9. a <= b
    BY <2>5, <2>6, <2>8
  <2> QED
    BY <2>1, <2>3, <2>8, <2>9
<1>5. ASSUME NEW k \in 0 .. BYTE, NEW a \in 0 .. g[k] - 1 PROVE a \in Slot
  <2>1. PICK l \in 0 .. BYTE : l = BYTE - k /\ k = BYTE - l
    BY <1>0
  <2>2. g[k] <= g[BYTE]
    BY <1>4, <2>1
  <2>3. BYTE \in 0 .. BYTE
    BY <1>0
  <2>4. PICK b \in Nat, c \in Nat : b = g[k] /\ c = g[BYTE]
    BY <1>3, <2>3
  <2> QED
    BY <2>2, <2>4, Slots
<1> QED
  BY <1>1, <1>2, <1>3, <1>5

\* Below 2^k are the numbers of k bits: their ones are below k, the first one too, and their codes
\* are numbers of k bits.
LEMMA KBits ==
  ASSUME NEW g, IsPower(BYTE, g), TwoTo(BYTE) = g[BYTE]
  PROVE  \A k \in 0 .. BYTE : \A a \in 0 .. g[k] - 1 :
            /\ Gray(a) \in 0 .. g[k] - 1
            /\ Ones(a) \subseteq 0 .. k - 1
            /\ a # 0 => ffs(a) \in 1 .. k
<1> DEFINE Good(k, a) == /\ Gray(a) \in 0 .. g[k] - 1
                         /\ Ones(a) \subseteq 0 .. k - 1
                         /\ a # 0 => ffs(a) \in 1 .. k
           X == {k \in 0 .. BYTE : \E a \in 0 .. g[k] - 1 : ~Good(k, a)}
<1>1. X = {}
  <2> SUFFICES ASSUME X # {} PROVE FALSE
    OBVIOUS
  <2>1. PICK k \in X : \A l \in X : k <= l
    <3>1. X \in SUBSET Nat
      BY Slots
    <3> HIDE DEF X
    <3> QED
      BY <3>1, Least
  <2>2. PICK a \in 0 .. g[k] - 1 : ~Good(k, a)
    BY <2>1
  <2>3. k # 0
    <3> SUFFICES ASSUME k = 0 PROVE FALSE
      OBVIOUS
    <3>1. g[k] = 1
      BY BelowPower
    <3>2. a = 0
      BY <3>1
    <3> QED
      BY <2>2, <3>1, <3>2, GrayIs, OnesIs
  <2>4. PICK l \in 0 .. BYTE - 1 : k = l + 1 /\ l \in 0 .. BYTE /\ ~(k <= l)
    <3>1. k \in 0 .. BYTE /\ k # 0
      BY <2>1, <2>3
    <3>2. k - 1 \in 0 .. BYTE - 1 /\ k = (k - 1) + 1 /\ k - 1 \in 0 .. BYTE /\ ~(k <= k - 1)
      BY <3>1, Slots
    <3> QED
      BY <3>2
  <2>5. PICK d \in Nat \ {0} : d = g[l] /\ g[k] = 2 * d
    BY <2>4, BelowPower
  <2>6. a \in 0 .. 2 * d - 1 /\ a \in Slot
    BY <2>1, <2>2, <2>5, BelowPower
  <2>7. PICK u \in 0 .. d - 1 : u = a \div 2
    BY <2>6
  <2>8. PICK r \in 0 .. 1 : r = (a + u) % 2
    BY <2>6, <2>7
  <2>9. Good(l, u)
    BY <2>1, <2>4, <2>5, <2>7
  <2> HIDE DEF X
  <2>10. PICK c \in 0 .. d - 1 : c = Gray(u)
    BY <2>5, <2>9
  <2>11. Gray(a) \in 0 .. g[k] - 1
    <3>1. Gray(a) = r + 2 * c
      BY <2>6, <2>7, <2>8, <2>10, GrayIs
    <3>2. r + 2 * c \in 0 .. 2 * d - 1
      OBVIOUS
    <3> QED
      BY <2>5, <3>1, <3>2
  <2>12. Ones(a) \subseteq 0 .. k - 1
    <3>1. Ones(a) = (IF a % 2 = 1 THEN {0} ELSE {}) \cup {e + 1 : e \in Ones(u)}
      BY <2>6, <2>7, OnesIs
    <3>2. \A e \in Ones(u) : e + 1 \in 0 .. k - 1
      BY <2>4, <2>9
    <3>3. 0 \in 0 .. k - 1
      BY <2>4
    <3> QED
      BY <3>1, <3>2, <3>3
  <2>13. ASSUME a # 0 PROVE ffs(a) \in 1 .. k
    <3>1. ffs(a) = IF a % 2 = 1 THEN 1 ELSE 1 + ffs(u)
      BY <2>6, <2>7, <2>13, FfsIs
    <3>2. CASE a % 2 = 1
      BY <2>4, <3>1, <3>2
    <3>3. CASE a % 2 # 1
      <4>1. u # 0
        BY <2>6, <2>7, <2>13, <3>3, Slots
      <4>2. ffs(u) \in 1 .. l
        BY <2>9, <4>1
      <4> QED
        BY <2>4, <3>1, <3>3, <4>2
    <3> QED
      BY <3>2, <3>3
  <2> QED
    BY <2>2, <2>11, <2>12, <2>13
<1> QED
  BY <1>1

LEMMA SlotBits ==
  \A a \in Slot : /\ Gray(a) \in Slot
                  /\ Ones(a) \subseteq 0 .. BYTE - 1
                  /\ a # 0 => ffs(a) \in 1 .. BYTE
<1>1. PICK g : IsPower(BYTE, g) /\ TwoTo(BYTE) = g[BYTE]
  BY Slots, TwoToIs
<1>2. BYTE \in 0 .. BYTE
  BY Slots
<1> QED
  BY <1>1, <1>2, KBits, Slots

\* Every number is the code of one.
LEMMA GrayOnto == \A c \in Slot : \E a \in Slot : Gray(a) = c
<1>1. PICK g : IsPower(BYTE, g) /\ TwoTo(BYTE) = g[BYTE]
  BY Slots, TwoToIs
<1> DEFINE X == {k \in 0 .. BYTE : ~ \A c \in 0 .. g[k] - 1 : \E a \in 0 .. g[k] - 1 : Gray(a) = c}
<1>2. X = {}
  <2> SUFFICES ASSUME X # {} PROVE FALSE
    OBVIOUS
  <2>1. PICK k \in X : \A l \in X : k <= l
    <3>1. X \in SUBSET Nat
      BY Slots
    <3> HIDE DEF X
    <3> QED
      BY <3>1, Least
  <2>2. PICK c \in 0 .. g[k] - 1 : \A a \in 0 .. g[k] - 1 : Gray(a) # c
    BY <2>1
  <2>3. k # 0
    <3> SUFFICES ASSUME k = 0 PROVE FALSE
      OBVIOUS
    <3>1. g[k] = 1
      BY <1>1, BelowPower
    <3>2. c = 0 /\ 0 \in 0 .. g[k] - 1
      BY <3>1
    <3> QED
      BY <2>2, <3>2, GrayIs
  <2>4. PICK l \in 0 .. BYTE - 1 : k = l + 1 /\ l \in 0 .. BYTE /\ ~(k <= l)
    <3>1. k \in 0 .. BYTE /\ k # 0
      BY <2>1, <2>3
    <3>2. k - 1 \in 0 .. BYTE - 1 /\ k = (k - 1) + 1 /\ k - 1 \in 0 .. BYTE /\ ~(k <= k - 1)
      BY <3>1, Slots
    <3> QED
      BY <3>2
  <2>5. PICK d \in Nat \ {0} : d = g[l] /\ g[k] = 2 * d
    BY <1>1, <2>4, BelowPower
  <2>6. c \in 0 .. 2 * d - 1
    BY <2>5
  <2>7. PICK v \in 0 .. d - 1, r \in 0 .. 1 : c = r + 2 * v
    <3>1. c \div 2 \in 0 .. d - 1 /\ c % 2 \in 0 .. 1 /\ c = (c % 2) + 2 * (c \div 2)
      BY <2>6
    <3> QED
      BY <3>1
  <2>8. PICK u \in 0 .. d - 1 : Gray(u) = v
    <3>1. \A e \in 0 .. g[l] - 1 : \E a \in 0 .. g[l] - 1 : Gray(a) = e
      BY <2>1, <2>4
    <3> QED
      BY <2>5, <3>1
  <2> HIDE DEF X
  <2>9. PICK a \in 0 .. 2 * d - 1 : a \div 2 = u /\ (a + u) % 2 = r
    <3>1. \E e \in 0 .. 1 : (u + r + e) % 2 = 0
      OBVIOUS
    <3>2. PICK e \in 0 .. 1 : (u + r + e) % 2 = 0
      BY <3>1
    <3>3. 2 * u + e \in 0 .. 2 * d - 1 /\ (2 * u + e) \div 2 = u
      OBVIOUS
    <3>4. ((2 * u + e) + u) % 2 = r
      BY <3>2
    <3> QED
      BY <3>3, <3>4
  <2>10. a \in 0 .. g[k] - 1 /\ a \in Slot
    BY <1>1, <2>1, <2>5, BelowPower
  <2>11. Gray(a) = c
    BY <2>7, <2>8, <2>9, <2>10, GrayIs
  <2> QED
    BY <2>2, <2>10, <2>11
<1>3. BYTE \in 0 .. BYTE
  BY Slots
<1> QED
  BY <1>1, <1>2, <1>3, Slots

\* A code differs from the one before in the first one of its number.
LEMMA GrayStep ==
  \A a \in Slot \ {0} : Ones(Gray(a)) = SymDiff(Ones(Gray(a - 1)), {ffs(a) - 1})
<1> DEFINE Good(a) == Ones(Gray(a)) = SymDiff(Ones(Gray(a - 1)), {ffs(a) - 1})
           X == {a \in Slot \ {0} : ~Good(a)}
<1>1. X = {}
  <2> SUFFICES ASSUME X # {} PROVE FALSE
    OBVIOUS
  <2>1. PICK a \in X : \A l \in X : a <= l
    <3>1. X \in SUBSET Nat
      BY Slots
    <3> HIDE DEF X
    <3> QED
      BY <3>1, Least
  <2>2. a \in Slot /\ a # 0 /\ ~Good(a)
    BY <2>1
  <2>3. PICK u \in Slot : u = a \div 2 /\ u < a /\ u \in Nat
    BY <2>2, Slots
  <2>4. PICK v \in Nat : v = Gray(u) /\ v \in Slot
    BY SlotBits, Slots
  <2>5. a - 1 \in Slot /\ a \in Nat
    BY <2>2, Slots
  <2>6. CASE a % 2 = 1
    <3>1. a = 2 * u + 1
      BY <2>2, <2>3, <2>6, Slots
    <3>2. (a - 1) \div 2 = u
      BY <2>3, <3>1
    <3>3. PICK r \in 0 .. 1, q \in 0 .. 1 : r = (a + u) % 2 /\ q = (a - 1 + u) % 2
      BY <2>3, <2>5
    <3>4. r # q
      BY <2>3, <2>5, <3>3
    <3>5. Gray(a) = r + 2 * v /\ Gray(a - 1) = q + 2 * v
      BY <2>2, <2>3, <2>4, <2>5, <3>2, <3>3, GrayIs
    <3>6. r + 2 * v \in Slot /\ q + 2 * v \in Slot
      BY <2>2, <2>5, <3>5, SlotBits
    <3>7. /\ Ones(Gray(a)) = (IF r = 1 THEN {0} ELSE {}) \cup {k + 1 : k \in Ones(v)}
          /\ Ones(Gray(a - 1)) = (IF q = 1 THEN {0} ELSE {}) \cup {k + 1 : k \in Ones(v)}
      BY <3>5, <3>6, OnesTwice
    <3>8. ffs(a) - 1 = 0
      BY <2>2, <2>6, FfsIs
    <3>9. \A k \in Ones(v) : k + 1 # 0
      BY <2>4, SlotBits
    <3>10. (r = 1 /\ q = 0) \/ (r = 0 /\ q = 1)
      BY <3>4
    <3> QED
      BY <2>2, <3>7, <3>8, <3>9, <3>10 DEF SymDiff
  <2>7. CASE a % 2 # 1
    <3>1. a = 2 * u
      BY <2>2, <2>3, <2>7, Slots
    <3>2. u # 0
      BY <2>2, <3>1
    <3>3. u - 1 \in Slot /\ (a - 1) \div 2 = u - 1
      BY <2>3, <3>1, <3>2, Slots
    <3>4. PICK c \in Nat : c = Gray(u - 1) /\ c \in Slot
      BY <3>3, SlotBits, Slots
    <3>5. PICK r \in 0 .. 1 : r = (a + u) % 2 /\ r = (a - 1 + (u - 1)) % 2
      <4>1. PICK r \in 0 .. 1 : r = (a + u) % 2
        BY <2>3, <2>5
      <4>2. r = (a - 1 + (u - 1)) % 2
        BY <2>3, <3>1, <3>2, <4>1
      <4> QED
        BY <4>1, <4>2
    <3>6. Gray(a) = r + 2 * v /\ Gray(a - 1) = r + 2 * c
      BY <2>2, <2>3, <2>4, <2>5, <3>3, <3>4, <3>5, GrayIs
    <3>7. r + 2 * v \in Slot /\ r + 2 * c \in Slot
      BY <2>2, <2>5, <3>6, SlotBits
    <3>8. /\ Ones(Gray(a)) = (IF r = 1 THEN {0} ELSE {}) \cup {k + 1 : k \in Ones(v)}
          /\ Ones(Gray(a - 1)) = (IF r = 1 THEN {0} ELSE {}) \cup {k + 1 : k \in Ones(c)}
      BY <3>4, <3>6, <3>7, OnesTwice
    <3>9. ffs(a) = 1 + ffs(u)
      BY <2>2, <2>3, <2>7, FfsIs
    <3>10. PICK e \in 0 .. BYTE - 1 : e = ffs(u) - 1 /\ ffs(a) - 1 = e + 1
      <4>1. PICK d \in 1 .. BYTE : d = ffs(u)
        BY <3>2, SlotBits
      <4>2. d - 1 \in 0 .. BYTE - 1 /\ (1 + d) - 1 = (d - 1) + 1
        BY Slots
      <4> QED
        BY <3>9, <4>1, <4>2
    <3>11. Ones(v) = SymDiff(Ones(c), {e})
      <4>1. Good(u)
        BY <2>1, <2>3, <2>5, <3>2
      <4> QED
        BY <2>4, <3>4, <3>10, <4>1
    <3>12. /\ \A k \in Ones(v) : k \in Int /\ k + 1 # 0
           /\ \A k \in Ones(c) : k \in Int /\ k + 1 # 0
      BY <2>4, <3>4, SlotBits
    <3>13. {k + 1 : k \in Ones(v)} = SymDiff({k + 1 : k \in Ones(c)}, {e + 1})
      BY <3>11, <3>12 DEF SymDiff
    <3>14. 0 # e + 1
      OBVIOUS
    <3> QED
      BY <2>2, <3>8, <3>10, <3>12, <3>13, <3>14 DEF SymDiff
  <2> QED
    BY <2>6, <2>7
<1> QED
  BY <1>1

\* The rows of group g that a number selects, and the bits of a word that select in it.
Rows(g, a) == {g * BYTE + k : k \in Ones(a)}
Part(w, g) == w \cap g * BYTE .. (g + 1) * BYTE - 1

\* The groups cut the word.
LEMMA Groups ==
  /\ W \div BYTE \in Nat /\ W = (W \div BYTE) * BYTE /\ Bit = 0 .. (W \div BYTE) * BYTE - 1
  /\ Group = 0 .. W \div BYTE - 1
  /\ \A g \in Group : /\ g \in Nat /\ g * BYTE \in Nat /\ (g + 1) * BYTE = g * BYTE + BYTE
                      /\ \A k \in 0 .. BYTE - 1 : g * BYTE + k \in Bit
<1>1. PICK q \in Nat : q = W \div BYTE
  BY MatmulAssumption
<1>2. W = q * BYTE
  <2>1. W = (W \div BYTE) * BYTE + (W % BYTE)
    BY MatmulAssumption
  <2>2. W % BYTE = 0
    BY MatmulAssumption
  <2>3. q * BYTE \in Nat
    BY Slots
  <2> QED
    BY <1>1, <2>1, <2>2, <2>3
<1>3. Bit = 0 .. q * BYTE - 1
  BY <1>2 DEF Bit
<1>4. Group = 0 .. q - 1
  BY <1>1 DEF Group
<1>5. ASSUME NEW g \in Group
      PROVE  /\ g \in Nat /\ g * BYTE \in Nat /\ (g + 1) * BYTE = g * BYTE + BYTE
             /\ \A k \in 0 .. BYTE - 1 : g * BYTE + k \in Bit
  <2>1. g \in Nat /\ g + 1 <= q
    BY <1>4
  <2>2. PICK a \in Nat : a = g * BYTE
    BY <2>1, Slots
  <2>3. (g + 1) * BYTE = a + BYTE
    BY <2>1, <2>2, Slots
  <2>4. (g + 1) * BYTE <= q * BYTE
    BY <2>1, Slots
  <2>5. PICK c \in Nat : c = q * BYTE
    BY Slots
  <2>6. \A k \in 0 .. BYTE - 1 : a + k \in 0 .. c - 1
    BY <2>3, <2>4, <2>5, Slots
  <2> QED
    BY <1>3, <2>1, <2>2, <2>3, <2>5, <2>6
<1> QED
  BY <1>1, <1>2, <1>3, <1>4, <1>5

LEMMA RowsType ==
  \A g \in Group, a \in Slot : Rows(g, a) \in Word
BY SlotBits, Groups DEF Rows, Word

\* What the product by the g-th group of bits of a word looks up: the entry for the rows that
\* these bits select.
LEMMA ByteRows ==
  ASSUME NEW w \in Word, NEW g \in Group
  PROVE  ByteOf(w, g) \in Slot /\ Rows(g, ByteOf(w, g)) = Part(w, g)
<1>0. PICK t \in Nat : t = (g + 1) * BYTE /\ t = g * BYTE + BYTE
  BY Groups, Slots
<1>1. PICK f : IsValue(w, t, BYTE, f) /\ ByteOf(w, g) = f[BYTE]
  <2>1. ByteOf(w, g) = NumberOf(w, t, BYTE)
    BY <1>0, Zenon DEF ByteOf
  <2>2. BYTE \in Nat
    BY Slots
  <2> QED
    BY <2>1, <2>2, NumberIs
<1>2. PICK e : IsPower(BYTE, e) /\ TwoTo(BYTE) = e[BYTE]
  BY Slots, TwoToIs
<1>3. \A m \in 0 .. BYTE : f[m] \in Slot
  <2>1. \A m \in 0 .. BYTE : f[m] \in 0 .. e[m] - 1
    BY <1>1, <1>2, Slots, ValuesBelow
  <2> QED
    BY <1>2, <2>1, BelowPower
<1> DEFINE Shown(m) == {k \in 0 .. m - 1 : (t - m) + k \in w}
           X == {m \in 0 .. BYTE : Ones(f[m]) # Shown(m)}
<1>4. X = {}
  <2> SUFFICES ASSUME X # {} PROVE FALSE
    OBVIOUS
  <2>1. PICK m \in X : \A l \in X : m <= l
    <3>1. X \in SUBSET Nat
      BY Slots
    <3> HIDE DEF X
    <3> QED
      BY <3>1, Least
  <2>2. m \in 0 .. BYTE /\ Ones(f[m]) # Shown(m)
    BY <2>1
  <2>3. f[m] = ValueBy(w, t, f, m)
    BY <1>1, <2>2 DEF IsValue
  <2>4. m # 0
    <3> SUFFICES ASSUME m = 0 PROVE FALSE
      OBVIOUS
    <3>1. f[m] = 0
      BY <2>3 DEF ValueBy
    <3>2. Shown(m) = {}
      OBVIOUS
    <3> QED
      BY <2>2, <3>1, <3>2, OnesIs
  <2>5. m - 1 \in 0 .. BYTE /\ ~(m <= m - 1)
    BY <2>2, <2>4, Slots
  <2>6. Ones(f[m - 1]) = Shown(m - 1)
    BY <2>1, <2>5
  <2>7. PICK v \in Nat : v = f[m - 1]
    BY <1>3, <2>5, Slots
  <2>8. PICK r \in 0 .. 1 : r = (IF t - m \in w THEN 1 ELSE 0)
    OBVIOUS
  <2>9. f[m] = r + 2 * v
    <3>1. f[m] = 2 * f[m - 1] + (IF t - m \in w THEN 1 ELSE 0)
      BY <2>3, <2>4 DEF ValueBy
    <3> QED
      BY <2>7, <2>8, <3>1
  <2>10. Ones(f[m]) = (IF r = 1 THEN {0} ELSE {}) \cup {k + 1 : k \in Ones(v)}
    <3>1. r + 2 * v \in Slot
      BY <1>3, <2>2, <2>9
    <3>2. Ones(r + 2 * v) = (IF r = 1 THEN {0} ELSE {}) \cup {k + 1 : k \in Ones(v)}
      BY <3>1, OnesTwice
    <3> QED
      BY <2>9, <3>2
  <2>11. \A k : k \in Ones(f[m]) <=> k \in Shown(m)
    <3>1. ASSUME NEW k \in Shown(m) PROVE k \in Ones(f[m])
      <4>1. k \in 0 .. m - 1 /\ (t - m) + k \in w
        OBVIOUS
      <4>2. CASE k = 0
        <5>1. t - m \in w
          BY <2>2, <4>1, <4>2
        <5> QED
          BY <2>8, <2>10, <4>2, <5>1
      <4>3. CASE k # 0
        <5>1. k - 1 \in 0 .. (m - 1) - 1 /\ (t - (m - 1)) + (k - 1) = (t - m) + k /\ k = (k - 1) + 1
          BY <2>2, <4>1, <4>3
        <5>2. k - 1 \in Shown(m - 1)
          BY <4>1, <5>1
        <5> QED
          BY <2>6, <2>7, <2>10, <5>1, <5>2
      <4> QED
        BY <4>2, <4>3
    <3>2. ASSUME NEW k \in Ones(f[m]) PROVE k \in Shown(m)
      <4>1. CASE r = 1 /\ k = 0
        <5>1. t - m \in w /\ (t - m) + 0 = t - m /\ 0 \in 0 .. m - 1
          BY <2>2, <2>4, <2>8, <4>1
        <5> QED
          BY <4>1, <5>1
      <4>2. CASE \E l \in Ones(v) : k = l + 1
        <5>1. PICK l \in Shown(m - 1) : k = l + 1
          BY <2>6, <2>7, <4>2
        <5>2. l \in 0 .. (m - 1) - 1 /\ (t - (m - 1)) + l \in w
          OBVIOUS
        <5>3. k \in 0 .. m - 1 /\ (t - (m - 1)) + l = (t - m) + k
          BY <2>2, <5>1, <5>2
        <5> QED
          BY <5>2, <5>3
      <4> QED
        BY <2>10, <4>1, <4>2
    <3> QED
      BY <3>1, <3>2
  <2> QED
    BY <2>2, <2>11
<1>5. BYTE \in 0 .. BYTE
  BY Slots
<1>6. ByteOf(w, g) \in Slot
  BY <1>1, <1>3, <1>5
<1>7. Ones(ByteOf(w, g)) = Shown(BYTE)
  BY <1>1, <1>4, <1>5
<1>8. PICK a \in Nat : a = g * BYTE /\ t - BYTE = a /\ t = a + BYTE
  BY <1>0, Groups, Slots
<1>9. Rows(g, ByteOf(w, g)) = {a + k : k \in {c \in 0 .. BYTE - 1 : a + c \in w}}
  <2>1. Ones(ByteOf(w, g)) = {c \in 0 .. BYTE - 1 : a + c \in w}
    BY <1>7, <1>8, Zenon
  <2>2. Rows(g, ByteOf(w, g)) = {a + k : k \in Ones(ByteOf(w, g))}
    BY <1>8, Zenon DEF Rows
  <2> QED
    BY <2>1, <2>2
<1>10. Part(w, g) = w \cap a .. a + BYTE - 1
  <2>1. t - 1 = a + BYTE - 1
    BY <1>8, Slots
  <2> QED
    BY <1>0, <1>8, <2>1, Zenon DEF Part
<1>11. ASSUME NEW b \in w \cap a .. a + BYTE - 1
       PROVE  b \in {a + k : k \in {c \in 0 .. BYTE - 1 : a + c \in w}}
  <2>1. b - a \in 0 .. BYTE - 1 /\ a + (b - a) = b
    BY Slots
  <2> QED
    BY <2>1
<1>12. \A k \in 0 .. BYTE - 1 : a + k \in a .. a + BYTE - 1
  BY Slots
<1> QED
  BY <1>6, <1>9, <1>10, <1>11, <1>12

\* The product of one bit is a row, and that of none is 0.
LEMMA OneRow ==
  ASSUME NEW N \in Matrix
  PROVE  naive_gemv({}, N) = {} /\ \A r \in Bit : naive_gemv({r}, N) = N[r]
<1>1. naive_gemv({}, N) = {}
  <2>1. \A b : {e \in {} : b \in N[e]} = {}
    OBVIOUS
  <2>2. Cardinality({}) = 0
    BY FS_EmptySet
  <2> QED
    BY <2>1, <2>2 DEF naive_gemv
<1>2. ASSUME NEW r \in Bit PROVE naive_gemv({r}, N) = N[r]
  <2>1. N[r] \subseteq Bit
    BY DEF Matrix, Word
  <2>2. \A b : {e \in {r} : b \in N[e]} = IF b \in N[r] THEN {r} ELSE {}
    OBVIOUS
  <2>3. Cardinality({}) = 0 /\ Cardinality({r}) = 1
    BY FS_EmptySet, FS_Singleton
  <2>4. \A b : (Cardinality({e \in {r} : b \in N[e]}) % 2 = 1) <=> b \in N[r]
    <3> TAKE b
    <3>1. CASE b \in N[r]
      <4>1. Cardinality({e \in {r} : b \in N[e]}) = 1
        BY <2>2, <2>3, <3>1
      <4> QED
        BY <3>1, <4>1
    <3>2. CASE b \notin N[r]
      <4>1. Cardinality({e \in {r} : b \in N[e]}) = 0
        BY <2>2, <2>3, <3>2
      <4> QED
        BY <3>2, <4>1
    <3> QED
      BY <3>1, <3>2
  <2> QED
    BY <2>1, <2>4 DEF naive_gemv
<1> QED
  BY <1>1, <1>2

\* A word is the xor of its parts, and so is its product: a bit is set in an odd number of the
\* products of its parts or not, as it is in the product.
LEMMA PartsOfProduct ==
  ASSUME NEW w \in Word, NEW N
  PROVE  naive_gemv(w, N) =
           {b \in Bit : Cardinality({g \in Group : b \in naive_gemv(Part(w, g), N)}) % 2 = 1}
<1> DEFINE q == W \div BYTE
           In(b, c) == {g \in 0 .. c - 1 : b \in naive_gemv(Part(w, g), N)}
           Low(c) == w \cap 0 .. c * BYTE - 1
           X == {c \in 0 .. q : \E b \in Bit : ~(IsOdd(Cardinality(In(b, c))) <=> b \in naive_gemv(Low(c), N))}
<1>0. q \in Nat /\ Group = 0 .. q - 1 /\ Bit = 0 .. q * BYTE - 1
  BY Groups
<1> HIDE DEF q
<1>1. X = {}
  <2> SUFFICES ASSUME X # {} PROVE FALSE
    OBVIOUS
  <2>1. PICK c \in X : \A l \in X : c <= l
    <3>1. X \in SUBSET Nat
      BY <1>0
    <3> HIDE DEF X
    <3> QED
      BY <3>1, Least
  <2>2. PICK b \in Bit : ~(IsOdd(Cardinality(In(b, c))) <=> b \in naive_gemv(Low(c), N))
    BY <2>1
  <2>3. c # 0
    <3> SUFFICES ASSUME c = 0 PROVE FALSE
      OBVIOUS
    <3>1. 0 * BYTE = 0
      BY Slots
    <3>2. In(b, c) = {} /\ Low(c) = {}
      BY <3>1
    <3>3. Cardinality({}) = 0 /\ {e \in {} : b \in N[e]} = {}
      BY FS_EmptySet
    <3>4. ~IsOdd(Cardinality({})) /\ b \notin naive_gemv({}, N)
      BY <3>3 DEF IsOdd, naive_gemv
    <3> QED
      BY <2>2, <3>2, <3>4
  <2>4. PICK g \in Group : c = g + 1 /\ g \in 0 .. q /\ ~(c <= g)
    <3>1. c \in 0 .. q
      BY <2>1
    <3>2. c - 1 \in 0 .. q - 1 /\ c = (c - 1) + 1 /\ c - 1 \in 0 .. q /\ ~(c <= c - 1)
      BY <1>0, <2>3, <3>1
    <3> QED
      BY <1>0, <3>2
  <2>5. IsOdd(Cardinality(In(b, g))) <=> b \in naive_gemv(Low(g), N)
    BY <2>1, <2>4
  <2> HIDE DEF X
  <2>6. PICK a \in Nat : a = g * BYTE /\ (g + 1) * BYTE = a + BYTE
    BY Groups
  <2>7. Low(g) \in Word /\ Part(w, g) \in Word
    BY DEF Word, Part
  <2>8. Low(c) = Xor(Low(g), Part(w, g))
    <3>0. c * BYTE = a + BYTE
      BY <2>4, <2>6, Zenon
    <3>1. Low(c) = w \cap 0 .. (a + BYTE) - 1
      BY <3>0, Zenon
    <3>2. Low(g) = w \cap 0 .. a - 1 /\ Part(w, g) = w \cap a .. (a + BYTE) - 1
      BY <2>6, Zenon DEF Part
    <3>3. \A e : e \in 0 .. (a + BYTE) - 1 <=> e \in 0 .. a - 1 \/ e \in a .. (a + BYTE) - 1
      BY Slots
    <3>4. \A e : ~(e \in 0 .. a - 1 /\ e \in a .. (a + BYTE) - 1)
      BY Slots
    <3> HIDE DEF Low
    <3> QED
      BY <3>1, <3>2, <3>3, <3>4 DEF Xor, SymDiff
  <2>9. naive_gemv(Low(c), N) = Xor(naive_gemv(Low(g), N), naive_gemv(Part(w, g), N))
    <3> HIDE DEF Low
    <3> QED
      BY <2>7, <2>8, Linear
  <2> DEFINE new == IF b \in naive_gemv(Part(w, g), N) THEN {g} ELSE {}
  <2>10. In(b, c) = SymDiff(In(b, g), new)
    <3>1. g \in Nat
      BY Groups
    <3>2. \A e : e \in 0 .. c - 1 <=> e \in 0 .. g - 1 \/ e = g
      BY <2>4, <3>1
    <3>3. g \notin 0 .. g - 1
      BY <3>1
    <3> QED
      BY <3>2, <3>3 DEF SymDiff
  <2>11. IsFiniteSet(In(b, g)) /\ IsFiniteSet(new)
    <3>1. g \in Nat
      BY Groups
    <3>2. IsFiniteSet(0 .. g - 1) /\ IsFiniteSet({g}) /\ IsFiniteSet({})
      <4>1. 0 \in Int /\ g - 1 \in Int
        BY <3>1
      <4>2. IsFiniteSet(0 .. g - 1)
        BY <4>1, FS_Interval
      <4>3. IsFiniteSet({g}) /\ IsFiniteSet({})
        BY FS_Singleton, FS_EmptySet
      <4> QED
        BY <4>2, <4>3
    <3>3. In(b, g) \subseteq 0 .. g - 1
      OBVIOUS
    <3>4. IsFiniteSet(In(b, g))
      BY <3>2, <3>3, FS_Subset
    <3> QED
      BY <3>2, <3>4
  <2>12. IsOdd(Cardinality(new)) <=> b \in naive_gemv(Part(w, g), N)
    <3>1. Cardinality({}) = 0 /\ Cardinality({g}) = 1
      BY FS_EmptySet, FS_Singleton
    <3>2. CASE b \in naive_gemv(Part(w, g), N)
      <4>1. Cardinality(new) = 1
        BY <3>1, <3>2
      <4> QED
        BY <3>2, <4>1 DEF IsOdd
    <3>3. CASE b \notin naive_gemv(Part(w, g), N)
      <4>1. Cardinality(new) = 0
        BY <3>1, <3>3
      <4> QED
        BY <3>3, <4>1 DEF IsOdd
    <3> QED
      BY <3>2, <3>3
  <2> HIDE DEF new, In, Low
  <2>13. IsOdd(Cardinality(In(b, c))) <=>
           \/ IsOdd(Cardinality(In(b, g))) /\ ~IsOdd(Cardinality(new))
           \/ ~IsOdd(Cardinality(In(b, g))) /\ IsOdd(Cardinality(new))
    BY <2>10, <2>11, XorSize
  <2>14. b \in naive_gemv(Low(c), N) <=>
           \/ b \in naive_gemv(Low(g), N) /\ b \notin naive_gemv(Part(w, g), N)
           \/ b \notin naive_gemv(Low(g), N) /\ b \in naive_gemv(Part(w, g), N)
    BY <2>9 DEF Xor, SymDiff
  <2> QED
    BY <2>2, <2>5, <2>12, <2>13, <2>14
<1>2. q \in 0 .. q
  BY <1>0
<1>3. Low(q) = w
  BY <1>0 DEF Word
<1>4. \A b \in Bit : IsOdd(Cardinality(In(b, q))) <=> b \in naive_gemv(w, N)
  BY <1>1, <1>2, <1>3
<1>5. \A b : In(b, q) = {g \in Group : b \in naive_gemv(Part(w, g), N)}
  BY <1>0
<1>6. naive_gemv(w, N) \subseteq Bit
  BY DEF naive_gemv
<1> HIDE DEF In, Low
<1> QED
  BY <1>4, <1>5, <1>6 DEF IsOdd

\* The loop over a group: tmp is the xor of the rows that the last code selects, and the entries
\* for the codes so far are the xors of the rows that these select.
GroupInv(g) ==
    /\ j[g] \in 1 .. TwoTo(BYTE)
    /\ tmp[g] = naive_gemv(Rows(g, Gray(j[g] - 1)), M)
    /\ \A a \in 0 .. j[g] - 1 : tables[g][Gray(a)] = naive_gemv(Rows(g, Gray(a)), M)

ProductInv ==
    /\ M \in Matrix
    /\ DOMAIN tables = Group /\ \A g \in Group : DOMAIN tables[g] = Slot
    /\ j = [g \in Group |-> j[g]] /\ tmp = [g \in Group |-> tmp[g]]
    /\ \A g \in Group : GroupInv(g)

LEMMA ProductStarts == ProductInit => ProductInv
<1> SUFFICES ASSUME ProductInit PROVE ProductInv
  OBVIOUS
<1>1. M \in Matrix
  BY MatmulAssumption DEF ProductInit
<1>2. \A g : Rows(g, 0) = {}
  BY OnesIs DEF Rows
<1>3. naive_gemv({}, M) = {} /\ Gray(0) = 0
  BY <1>1, OneRow, GrayIs
<1>4. ASSUME NEW g \in Group PROVE GroupInv(g)
  <2>1. j[g] = 1 /\ tmp[g] = {} /\ tables[g] = [s \in Slot |-> IF s = 0 THEN {} ELSE Unset]
    BY DEF ProductInit, Zero
  <2>2. tables[g][0] = {}
    BY <2>1, Slots
  <2>3. 1 \in 1 .. TwoTo(BYTE) /\ 1 - 1 = 0 /\ \A a \in 0 .. 1 - 1 : a = 0
    BY Slots
  <2> QED
    BY <1>2, <1>3, <2>1, <2>2, <2>3 DEF GroupInv
<1> QED
  BY <1>1, <1>4 DEF ProductInv, ProductInit

LEMMA ProductGoesOn ==
  ASSUME ProductInv, [ProductStep]_productVars
  PROVE  ProductInv'
<1>1. ASSUME NEW g \in Group, Fill(g) PROVE ProductInv'
  <2>1. PICK c \in Nat : c = j[g] /\ c \in 1 .. TwoTo(BYTE) - 1 /\ c \in Slot \ {0} /\ c - 1 \in Slot
    <3>1. j[g] \in 1 .. TwoTo(BYTE) /\ j[g] < TwoTo(BYTE)
      BY <1>1 DEF ProductInv, GroupInv, Fill
    <3>2. PICK d \in Nat \ {0} : d = TwoTo(BYTE)
      BY Slots
    <3>3. j[g] \in Nat /\ j[g] \in 1 .. d - 1 /\ j[g] \in 0 .. d - 1 /\ j[g] # 0 /\ j[g] - 1 \in 0 .. d - 1
      BY <3>1, <3>2
    <3> QED
      BY <3>2, <3>3, Slots
  <2> DEFINE t == Xor(tmp[g], M[g * BYTE + ffs(j[g]) - 1])
  <2>2. PICK k \in 0 .. BYTE - 1 : k = ffs(c) - 1 /\ g * BYTE + ffs(c) - 1 = g * BYTE + k
    <3>1. PICK d \in 1 .. BYTE : d = ffs(c)
      BY <2>1, SlotBits
    <3>2. PICK a \in Nat : a = g * BYTE
      BY Groups
    <3>3. d - 1 \in 0 .. BYTE - 1 /\ a + d - 1 = a + (d - 1)
      BY Slots
    <3> QED
      BY <3>1, <3>2, <3>3
  <2>3. Rows(g, Gray(c)) = Xor(Rows(g, Gray(c - 1)), {g * BYTE + k})
    <3>1. Ones(Gray(c)) = SymDiff(Ones(Gray(c - 1)), {k})
      BY <2>1, <2>2, GrayStep
    <3>2. PICK a \in Nat : a = g * BYTE
      BY Groups
    <3>3. Gray(c - 1) \in Slot
      BY <2>1, SlotBits
    <3>4. Ones(Gray(c - 1)) \subseteq 0 .. BYTE - 1
      BY <3>3, SlotBits
    <3>5. \A d, e \in 0 .. BYTE - 1 : a + d = a + e => d = e
      OBVIOUS
    <3>6. {a + d : d \in Ones(Gray(c))} = SymDiff({a + d : d \in Ones(Gray(c - 1))}, {a + k})
      BY <3>1, <3>4, <3>5 DEF SymDiff
    <3> QED
      BY <3>2, <3>6 DEF Rows, Xor
  <2>4. t = naive_gemv(Rows(g, Gray(c)), M)
    <3>1. g * BYTE + k \in Bit /\ {g * BYTE + k} \in Word
      BY Groups DEF Word
    <3>2. Rows(g, Gray(c - 1)) \in Word
      BY <2>1, SlotBits, RowsType
    <3>3. naive_gemv({g * BYTE + k}, M) = M[g * BYTE + k]
      BY <3>1, OneRow DEF ProductInv
    <3>4. naive_gemv(Rows(g, Gray(c)), M) = Xor(naive_gemv(Rows(g, Gray(c - 1)), M), naive_gemv({g * BYTE + k}, M))
      BY <2>3, <3>1, <3>2, Linear
    <3>5. tmp[g] = naive_gemv(Rows(g, Gray(c - 1)), M)
      BY <2>1 DEF ProductInv, GroupInv
    <3> QED
      BY <2>1, <2>2, <3>3, <3>4, <3>5
  <2>5. /\ tmp' = [tmp EXCEPT ![g] = t] /\ tables' = [tables EXCEPT ![g][Gray(c)] = t]
        /\ j' = [j EXCEPT ![g] = @ + 1] /\ M' = M
    BY <1>1, <2>1 DEF Fill
  <2> HIDE DEF t
  <2>6. /\ tmp'[g] = t /\ j'[g] = c + 1
        /\ \A d \in Group : d # g => tmp'[d] = tmp[d] /\ j'[d] = j[d] /\ tables'[d] = tables[d]
    BY <2>1, <2>5 DEF ProductInv
  <2>7. Gray(c) \in Slot
    BY <2>1, SlotBits
  <2>8. tables'[g][Gray(c)] = t /\ \A s \in Slot : s # Gray(c) => tables'[g][s] = tables[g][s]
    BY <2>5, <2>7 DEF ProductInv
  <2>9. GroupInv(g)'
    <3>1. c + 1 \in 1 .. TwoTo(BYTE) /\ (c + 1) - 1 = c
      <4>1. PICK d \in Nat \ {0} : d = TwoTo(BYTE)
        BY Slots
      <4>2. c \in 1 .. d - 1
        BY <2>1, <4>1
      <4>3. c + 1 \in 1 .. d /\ (c + 1) - 1 = c
        BY <4>2
      <4> QED
        BY <4>1, <4>3
    <3>2. ASSUME NEW a \in 0 .. c PROVE tables'[g][Gray(a)] = naive_gemv(Rows(g, Gray(a)), M)
      <4>1. CASE Gray(a) = Gray(c)
        BY <2>4, <2>8, <4>1
      <4>2. CASE Gray(a) # Gray(c)
        <5>1. a # c /\ a \in 0 .. c - 1
          BY <2>1, <4>2
        <5>2. a \in Slot
          BY <2>1, <5>1, Slots
        <5>3. tables[g][Gray(a)] = naive_gemv(Rows(g, Gray(a)), M)
          BY <2>1, <5>1 DEF ProductInv, GroupInv
        <5> QED
          BY <2>8, <4>2, <5>2, <5>3, SlotBits
      <4> QED
        BY <4>1, <4>2
    <3> QED
      BY <2>4, <2>5, <2>6, <3>1, <3>2 DEF GroupInv
  <2>10. ASSUME NEW d \in Group, d # g PROVE GroupInv(d)'
    <3>1. GroupInv(d)
      BY DEF ProductInv
    <3> QED
      BY <2>5, <2>6, <2>10, <3>1 DEF GroupInv
  <2>11. /\ DOMAIN tables' = Group /\ \A d \in Group : DOMAIN tables'[d] = Slot
         /\ j' = [d \in Group |-> j'[d]] /\ tmp' = [d \in Group |-> tmp'[d]]
    BY <2>5 DEF ProductInv
  <2>12. M' \in Matrix
    BY <2>5 DEF ProductInv
  <2>13. \A d \in Group : GroupInv(d)'
    BY <2>9, <2>10
  <2> QED
    BY <2>11, <2>12, <2>13 DEF ProductInv
<1>2. CASE UNCHANGED productVars
  BY <1>2 DEF ProductInv, GroupInv, productVars
<1> QED
  BY <1>1, <1>2 DEF ProductStep, Ready

\* Whatever matrix matmul_init is given, for any width of the words and of the groups and any
\* interleaving of the groups, it leaves tables by which gemv computes the product that naive_gemv
\* computes bit by bit.
THEOREM TableProductHolds == ProductSpec => []TableProduct
<1>1. ProductInv => TableProduct
  <2> SUFFICES ASSUME ProductInv, AllFilled, NEW w \in Word PROVE gemv(w) = naive_gemv(w, M)
    BY DEF TableProduct
  <2>1. ASSUME NEW g \in Group PROVE tables[g][ByteOf(w, g)] = naive_gemv(Part(w, g), M)
    <3>1. ByteOf(w, g) \in Slot /\ Rows(g, ByteOf(w, g)) = Part(w, g)
      BY ByteRows
    <3>2. PICK a \in Slot : Gray(a) = ByteOf(w, g)
      BY <3>1, GrayOnto
    <3>3. j[g] = TwoTo(BYTE)
      BY DEF AllFilled
    <3>4. a \in 0 .. j[g] - 1
      BY <3>2, <3>3, Slots
    <3> QED
      BY <3>1, <3>2, <3>4 DEF ProductInv, GroupInv
  <2>2. \A b : {g \in Group : b \in tables[g][ByteOf(w, g)]} = {g \in Group : b \in naive_gemv(Part(w, g), M)}
    BY <2>1
  <2> QED
    BY <2>2, PartsOfProduct DEF gemv
<1> QED
  BY <1>1, ProductStarts, ProductGoesOn, PTL DEF ProductSpec
=============================================================================
