-------------------------- MODULE TaskGroupProofs --------------------------
(* Proofs about TaskGroup, for any grid, any number of ranks, jobs and        *)
(* crashes.  What the tasks of a rank find is left as it is (Part): nothing   *)
(* about control depends on it.                                               *)
EXTENDS TaskGroup, FiniteSetTheorems, SequenceTheorems, NaturalsInduction, WellFoundedInduction, TLAPS

-----------------------------------------------------------------------------
(* The grid. *)

(* The numbers of ranks, groups and jobs are natural, and there is a rank 0. *)
LEMMA Sizes ==
  /\ task_grid_size \in Nat \ {0} /\ cpu_grid_size \in Nat \ {0}
  /\ per_core_grid_size \in Nat \ {0} /\ tg_per_job \in Nat \ {0}
  /\ tg_grid_size \in Nat /\ njobs \in Nat
  /\ Rank \subseteq Nat /\ 0 \in Rank
<1>1. /\ task_grid_size \in Nat \ {0} /\ cpu_grid_size \in Nat \ {0}
      /\ per_core_grid_size \in Nat \ {0} /\ tg_per_job \in Nat \ {0}
  BY GridAssumption DEF PowerOfTwo
<1>2. \A n \in Nat, d \in Nat \ {0} : n \div d \in Nat
  OBVIOUS
<1>3. \A a, b \in Nat : a * b \in Nat
  OBVIOUS
<1>4. tg_grid_size \in Nat
  BY <1>1, <1>2 DEF tg_grid_size
<1>5. njobs \in Nat
  BY <1>1, <1>2, <1>3, <1>4 DEF njobs
<1>6. cpu_grid_size * cpu_grid_size \in Nat /\ cpu_grid_size * cpu_grid_size > 0
  BY <1>1
<1>7. Rank \subseteq Nat /\ 0 \in Rank
  BY <1>6 DEF Rank
<1>. QED BY <1>1, <1>4, <1>5, <1>7

(* The quotient is the only one. *)
LEMMA DivIs ==
  ASSUME NEW d \in Nat \ {0}, NEW q \in Nat, NEW e \in 0 .. d - 1
  PROVE  (q * d + e) \div d = q /\ (q * d + e) % d = e
<1> DEFINE n == q * d + e
           a == n \div d
           b == n % d
<1>1. n \in Nat
  OBVIOUS
<1>2. a \in Nat /\ b \in 0 .. d - 1 /\ n = a * d + b
  BY <1>1
<1>3. (a - q) * d = e - b
  BY <1>2
<1> HIDE DEF a, b
<1>4. CASE a > q
  <2>1. (a - q) * d >= d
    BY <1>2, <1>4
  <2>. QED BY <1>2, <1>3, <2>1
<1>5. CASE a < q
  <2>1. (q - a) * d >= d
    BY <1>2, <1>5
  <2>2. (a - q) * d = 0 - (q - a) * d
    BY <1>2
  <2>. QED BY <1>2, <1>3, <2>1, <2>2
<1>6. a = q /\ b = e
  BY <1>2, <1>3, <1>4, <1>5
<1>. QED BY <1>6 DEF a, b

(* Induction over numbers is by a least counterexample. *)
LEMMA Least ==
  ASSUME NEW X \in SUBSET Nat, X # {}
  PROVE  \E m \in X : \A n \in X : m <= n
<1> DEFINE R == {ss \in Nat \X Nat : ss[1] < ss[2]}
<1>1. IsWellFoundedOn(R, Nat)
  BY NatLessThanWellFounded DEF OpToRel
<1>2. \A x, y \in Nat : x < y => <<x, y>> \in R
  OBVIOUS
<1> HIDE DEF R
<1>3. PICK m \in X : \A n \in X : ~(<<n, m>> \in R)
  BY <1>1, WFMin
<1>4. ASSUME NEW n \in X PROVE m <= n
  <2>1. n \in Nat /\ m \in Nat
    OBVIOUS
  <2>2. ~(n < m)
    BY <1>2, <1>3, <2>1
  <2> QED
    BY <2>1, <2>2
<1> QED
  BY <1>4

(* Quotient and remainder. *)
LEMMA DivMod ==
  ASSUME NEW m \in Nat, NEW d \in Nat \ {0}
  PROVE  m \div d \in Nat /\ m % d \in 0 .. d - 1 /\ m = (m \div d) * d + (m % d)
  OBVIOUS

LEMMA Divided ==
  ASSUME NEW m \in Nat, NEW d \in Nat \ {0}, m % d = 0
  PROVE  \E q \in Nat : q = m \div d /\ m = q * d
<1>1. PICK q \in Nat : q = m \div d
  BY DivMod
<1>2. m = (m \div d) * d + (m % d)
  BY DivMod
<1>3. m = q * d + 0
  BY <1>1, <1>2
<1>4. q * d \in Nat
  BY <1>1
<1>. QED BY <1>1, <1>3, <1>4

(* A power of two is 1 or twice another, and twice one is another. *)
LEMMA OneIsPower == PowerOfTwo(1)
BY DEF PowerOfTwo

LEMMA HalfIsPower ==
  ASSUME NEW n, PowerOfTwo(n), n # 1
  PROVE  \E m \in Nat \ {0} : n = 2 * m /\ m < n /\ PowerOfTwo(m)
<1>1. n \in Nat \ {0} /\ n >= 2 /\ n % n = 0
  <2>1. n \in Nat \ {0} /\ n >= 2
    BY DEF PowerOfTwo
  <2>2. (1 * n + 0) % n = 0
    BY <2>1, DivIs
  <2>. QED BY <2>1, <2>2
<1>2. n % 2 = 0
  BY <1>1 DEF PowerOfTwo
<1>3. PICK m \in Nat \ {0} : n = 2 * m
  BY <1>1, <1>2
<1>4. ASSUME NEW d \in 1 .. m, m % d = 0
      PROVE  d = 1 \/ d % 2 = 0
  <2>1. m \in Nat /\ d \in Nat \ {0}
    OBVIOUS
  <2>2. PICK q \in Nat : m = q * d
    BY <1>4, <2>1, Divided
  <2>4. n = (2 * q) * d + 0 /\ 2 * q \in Nat /\ 0 \in 0 .. d - 1
    <3>1. PICK e \in Nat : e = q * d
      BY <2>1
    <3>2. (2 * q) * d = 2 * e
      BY <2>1, <3>1
    <3>. QED BY <1>3, <2>1, <2>2, <3>1, <3>2
  <2>5. n % d = 0
    BY <2>1, <2>4, DivIs
  <2>6. d \in 1 .. n
    BY <1>3
  <2>. QED BY <2>5, <2>6 DEF PowerOfTwo
<1>5. PowerOfTwo(m)
  BY <1>4 DEF PowerOfTwo
<1>. QED BY <1>3, <1>5

LEMMA OddTimes ==
  ASSUME NEW q \in Nat, NEW d \in Nat, d % 2 = 1, (q * d) % 2 = 0
  PROVE  q % 2 = 0
<1> SUFFICES ASSUME q % 2 = 1 PROVE FALSE
  OBVIOUS
<1>1. PICK a \in Nat : q = 2 * a + 1
  OBVIOUS
<1>2. PICK b \in Nat : d = 2 * b + 1
  OBVIOUS
<1>3. PICK e \in Nat : e = a * d
  OBVIOUS
<1>4. q * d = 2 * e + d
  BY <1>1, <1>3
<1>5. q * d = 2 * (e + b) + 1 /\ e + b \in Nat
  BY <1>2, <1>4
<1>. QED BY <1>5

LEMMA TwiceIsPower ==
  ASSUME NEW m, PowerOfTwo(m)
  PROVE  PowerOfTwo(2 * m)
<1>1. m \in Nat \ {0} /\ 2 * m \in Nat \ {0}
  BY DEF PowerOfTwo
<1>2. ASSUME NEW d \in 1 .. 2 * m, (2 * m) % d = 0, d % 2 # 0
      PROVE  d = 1
  <2>1. 2 * m \in Nat /\ d \in Nat \ {0} /\ d % 2 = 1
    BY <1>1, <1>2
  <2>2. PICK q \in Nat : 2 * m = q * d
    BY <1>2, <2>1, Divided
  <2>3. 2 * m = q * d
    BY <2>2
  <2>4. (q * d) % 2 = 0
    BY <1>1, <2>3
  <2>5. q % 2 = 0
    BY <2>1, <2>4, OddTimes
  <2>6. PICK a \in Nat : q = 2 * a
    BY <2>5
  <2>7. PICK e \in Nat : e = a * d
    BY <2>1
  <2>8. q * d = 2 * e
    BY <2>1, <2>6, <2>7
  <2>9. m = a * d
    BY <1>1, <2>3, <2>7, <2>8
  <2>10. m % d = 0
    <3>1. (a * d + 0) % d = 0
      BY <2>1, DivIs
    <3>. QED BY <1>1, <2>7, <2>9, <3>1
  <2>11. a # 0
    BY <1>1, <2>1, <2>9
  <2>12. d <= a * d
    BY <2>1, <2>11
  <2>13. d \in 1 .. m
    BY <1>1, <2>1, <2>9, <2>12
  <2>. QED BY <2>1, <2>10, <2>13 DEF PowerOfTwo
<1>. QED BY <1>1, <1>2 DEF PowerOfTwo

(* Hence what holds of 1, and of twice what it holds of, holds of the powers of two: by *)
(* a least counterexample.  The smaller of two powers divides the other.                *)
LEMMA QuotientOfPowers ==
  ASSUME NEW t, PowerOfTwo(t), NEW d, PowerOfTwo(d), d <= t
  PROVE  PowerOfTwo(t \div d) /\ t % d = 0
<1> DEFINE Good(n) == \A e \in Nat : PowerOfTwo(n) /\ PowerOfTwo(e) /\ e <= n
                                        => PowerOfTwo(n \div e) /\ n % e = 0
           X == {n \in Nat : ~Good(n)}
<1>1. X = {}
  <2> SUFFICES ASSUME X # {} PROVE FALSE
    OBVIOUS
  <2>1. PICK n \in X : \A l \in X : n <= l
    <3>1. X \in SUBSET Nat
      OBVIOUS
    <3> HIDE DEF X
    <3>. QED BY <3>1, Least
  <2>2. PICK e \in Nat : PowerOfTwo(n) /\ PowerOfTwo(e) /\ e <= n /\ ~(PowerOfTwo(n \div e) /\ n % e = 0)
    BY <2>1
  <2>3. n \in Nat \ {0} /\ e \in Nat \ {0}
    BY <2>2 DEF PowerOfTwo
  <2>4. e # 1
    <3> SUFFICES ASSUME e = 1 PROVE FALSE
      OBVIOUS
    <3>1. n \div 1 = n /\ n % 1 = 0
      BY <2>3
    <3>. QED BY <2>2, <3>1
  <2>5. n # 1
    BY <2>2, <2>3, <2>4
  <2>6. PICK m \in Nat \ {0} : n = 2 * m /\ m < n /\ PowerOfTwo(m)
    BY <2>2, <2>5, HalfIsPower
  <2>7. PICK f \in Nat \ {0} : e = 2 * f /\ f < e /\ PowerOfTwo(f)
    BY <2>2, <2>4, HalfIsPower
  <2>8. Good(m)
    BY <2>1, <2>6
  <2>9. PowerOfTwo(m \div f) /\ m % f = 0
    BY <2>2, <2>6, <2>7, <2>8
  <2>10. PICK q \in Nat : q = m \div f /\ m = q * f
    BY <2>9, Divided
  <2>11. q * e = n
    <3>1. PICK h \in Nat : h = q * f
      OBVIOUS
    <3>2. q * e = 2 * h
      BY <2>7, <3>1
    <3>3. q * f = h /\ h \in Nat
      BY <3>1
    <3>4. m = h
      BY <2>10, <3>3
    <3>5. n = 2 * h
      BY <2>6, <3>4
    <3>6. q * e = n /\ n \in Nat
      BY <3>2, <3>3, <3>5
    <3>. QED BY <3>6
  <2>12. n \div e = q /\ n % e = 0
    <3>1. (q * e + 0) \div e = q /\ (q * e + 0) % e = 0
      <4>1. 0 \in 0 .. e - 1
        BY <2>3
      <4>. QED BY <2>3, <4>1, DivIs
    <3>2. q * e + 0 = n
      BY <2>3, <2>11
    <3>. QED BY <3>1, <3>2
  <2>. QED BY <2>2, <2>9, <2>10, <2>12
<1>2. t \in Nat /\ d \in Nat
  BY DEF PowerOfTwo
<1>. QED BY <1>1, <1>2

(* A product of powers is one. *)
LEMMA ProductOfPowers ==
  ASSUME NEW c, PowerOfTwo(c), NEW d, PowerOfTwo(d)
  PROVE  PowerOfTwo(c * d)
<1> DEFINE X == {n \in Nat : PowerOfTwo(n) /\ ~PowerOfTwo(n * d)}
<1>1. X = {}
  <2> SUFFICES ASSUME X # {} PROVE FALSE
    OBVIOUS
  <2>1. PICK n \in X : \A l \in X : n <= l
    <3>1. X \in SUBSET Nat
      OBVIOUS
    <3> HIDE DEF X
    <3>. QED BY <3>1, Least
  <2>2. d \in Nat \ {0} /\ 1 * d = d
    BY DEF PowerOfTwo
  <2>3. n # 1
    BY <2>1, <2>2
  <2>4. PICK m \in Nat \ {0} : n = 2 * m /\ m < n /\ PowerOfTwo(m)
    BY <2>1, <2>3, HalfIsPower
  <2>5. PowerOfTwo(m * d)
    BY <2>1, <2>4
  <2>6. n * d = 2 * (m * d)
    BY <2>2, <2>4
  <2>. QED BY <2>1, <2>5, <2>6, TwiceIsPower
<1>2. c \in Nat
  BY DEF PowerOfTwo
<1>. QED BY <1>1, <1>2

(* There is a job. *)
LEMMA SomeJob == njobs > 0 /\ tg_grid_size > 0
<1> DEFINE cp == cpu_grid_size * per_core_grid_size
           s == task_grid_size \div cpu_grid_size
<1>1. s \in Nat /\ s >= per_core_grid_size
  <2>1. cpu_grid_size * per_core_grid_size <= task_grid_size
    BY GridAssumption
  <2>2. s \in Nat /\ task_grid_size < (s + 1) * cpu_grid_size
    BY Sizes
  <2>3. CASE s < per_core_grid_size
    <3>1. (s + 1) * cpu_grid_size <= per_core_grid_size * cpu_grid_size
      BY <2>2, <2>3, Sizes
    <3>. QED BY <2>1, <2>2, <3>1, Sizes
  <2>. QED BY <2>2, <2>3, Sizes
<1>2. tg_grid_size > 0
  <2>1. s \div per_core_grid_size > 0
    BY <1>1, Sizes
  <2>. QED BY <2>1 DEF tg_grid_size
<1>3. njobs > 0
  <2>1. tg_grid_size * tg_grid_size > 0 /\ tg_grid_size * tg_grid_size \in Nat
    BY <1>2, Sizes
  <2>2. tg_grid_size * tg_grid_size = njobs * tg_per_job
    BY <2>1, Sizes, GridAssumption DEF njobs
  <2>. QED BY <2>1, <2>2, Sizes
<1>. QED BY <1>2, <1>3

(* The groups of a job are groups, and the next job goes on where it ends. *)
LEMMA JobGroups ==
  ASSUME NEW j \in 0 .. njobs - 1
  PROVE  /\ tg_from(j) \in Nat /\ tg_to(j) \in Nat /\ tg_from(j) < tg_to(j)
         /\ tg_from(j) .. tg_to(j) - 1 \subseteq Group
         /\ tg_from(j + 1) = tg_to(j)
         /\ tg_from(0) = 0
<1>1. j \in Nat /\ j + 1 <= njobs
  BY Sizes
<1>2. tg_from(j) \in Nat /\ tg_to(j) = tg_from(j) + tg_per_job
  BY <1>1, Sizes DEF tg_from, tg_to
<1>3. (j + 1) * tg_per_job <= njobs * tg_per_job
  BY <1>1, Sizes
<1>4. njobs * tg_per_job \in Nat
  BY Sizes
<1>. QED BY <1>1, <1>2, <1>3, <1>4, Sizes DEF Group, tg_from, tg_to

(* Every group is one of the last job or of one before it. *)
LEMMA LastJob == tg_to(njobs - 1) = njobs * tg_per_job
  BY Sizes, SomeJob DEF tg_to

-----------------------------------------------------------------------------
(* The inductive invariant. *)

(* What rank r finds of group g, what all ranks find of it, and what there is to find. *)
Part(g, r) == tg_task_work(g, r, load_tg_data(g, r))
Result(g) == UNION {Part(g, r) : r \in Rank}
Found == UNION {Result(g) : g \in Group}

Label == {"check", "load", "work", "barrier", "gather", "open", "write", "close", "done"}
InGroup == Label \ {"check", "done"}
Late == {"gather", "open", "write", "close"}

(* Ranges, and the places a rank can be at. *)
TypeInv ==
    /\ job \in 0 .. njobs - 1
    /\ disk \in [Group -> SUBSET SUBSET Found]
    /\ pc \in [Rank -> Label]
    /\ k \in [Rank -> tg_from(job) .. tg_to(job)]
    /\ calls \in [Rank -> Nat]
    /\ all_tasks \in [Rank -> SUBSET {load_tg_data(g, r) : g \in Group, r \in Rank}]
    /\ all_solutions \in [Rank -> SUBSET Found]
    /\ sent \in [Rank -> SUBSET SUBSET Found]
    /\ solutions_recv \in SUBSET Found
    /\ skipped \in SUBSET Group
    /\ crashes \in 0 .. MaxCrash

PlaceInv ==
    \A r \in Rank :
        /\ pc[r] \in {"open", "write", "close"} => r = 0
        /\ pc[r] = "done" => k[r] = tg_to(job)
        /\ pc[r] \in InGroup => k[r] < tg_to(job) /\ k[r] \notin skipped

(* The groups rank r has been through in this run, with three collective calls for *)
(* each, and how many it has made for the one it is at.                            *)
Joined(r) == (tg_from(job) .. k[r] - 1) \ skipped
Phase(l) ==
    IF l \in {"check", "done"} THEN 0 ELSE IF l \in {"load", "work"} THEN 1
    ELSE IF l = "barrier" THEN 2 ELSE 3
CallInv == \A r \in Rank : calls[r] = 3 * Cardinality(Joined(r)) + Phase(pc[r])

(* Rank r has called the barrier of group g; it is out of it; rank 0 has gathered g. *)
Called(r, g) == k[r] > g \/ (k[r] = g /\ pc[r] \in Late \cup {"barrier"})
Out(r, g) == k[r] > g \/ (k[r] = g /\ pc[r] \in Late)
Gathered(g) == k[0] > g \/ (k[0] = g /\ pc[0] \in {"open", "write", "close"})

(* Nobody is out of a barrier before all are in, nor rank 0 out of a gather before *)
(* all are out of the barrier, in the groups of this job that nobody skipped.      *)
Ours == (tg_from(job) .. tg_to(job) - 1) \ skipped
OrderInv ==
    \A g \in Ours :
        /\ \A r, q \in Rank : Out(r, g) => Called(q, g)
        /\ Gathered(g) => \A r \in Rank : Out(r, g)

(* There is no file of a group that is worked on, until rank 0 opens it; and there *)
(* is one of a group that was skipped.                                             *)
FileInv ==
    /\ \A r \in Rank : pc[r] \in {"load", "work", "barrier"} => disk[k[r]] = NoFile
    /\ pc[0] \in {"gather", "open"} => disk[k[0]] = NoFile
    /\ \A g \in skipped : disk[g] # NoFile

(* What ranks hold is of the group they are at, and what is under way to rank 0 is *)
(* of the group rank 0 is at.                                                      *)
DataInv ==
    /\ \A r \in Rank : pc[r] = "work" => all_tasks[r] = {load_tg_data(k[r], r)}
    /\ \A r \in Rank : pc[r] = "barrier" => all_solutions[r] = Part(k[r], r)
    /\ \A r \in Rank : sent[r] # {} =>
          /\ sent[r] = {Part(k[0], r)}
          /\ pc[0] \in {"barrier", "gather"}
          /\ Out(r, k[0])
    /\ pc[0] \in {"open", "write", "close"} => solutions_recv = Result(k[0])

(* Files hold some of the solutions of their group, and all of them once rank 0 *)
(* has left the group behind.                                                   *)
DiskInv ==
    /\ \A g \in Group : disk[g] = NoFile \/ \E part \in SUBSET Result(g) : disk[g] = FileOf(part)
    /\ \A g \in Group : g < k[0] /\ g \notin skipped => disk[g] = FileOf(Result(g))

(* As long as nothing crashes, there are files only of groups that are gathered, so *)
(* that none is skipped.                                                            *)
FirstRunInv ==
    crashes = 0 =>
        /\ skipped = {}
        /\ \A g \in Group : disk[g] # NoFile => Gathered(g)

ControlInv == PlaceInv /\ CallInv /\ OrderInv /\ FileInv
IInv == TypeInv /\ ControlInv /\ DataInv /\ DiskInv /\ FirstRunInv

(* The parts are found in the whole. *)
LEMMA Parts ==
  ASSUME NEW g \in Group, NEW r \in Rank
  PROVE  Part(g, r) \subseteq Result(g) /\ Result(g) \subseteq Found
  BY DEF Result, Found

(* A job that starts, with any files on disk, satisfies the invariant. *)
LEMMA Fresh ==
  ASSUME NEW jb \in 0 .. njobs - 1,
         job = jb, pc = [r \in Rank |-> "check"], k = [r \in Rank |-> tg_from(jb)],
         calls = [r \in Rank |-> 0], all_tasks = [r \in Rank |-> {}],
         all_solutions = [r \in Rank |-> {}], sent = [r \in Rank |-> {}], solutions_recv = {},
         skipped \in SUBSET Group, \A g \in skipped : disk[g] # NoFile
  PROVE  ControlInv /\ DataInv
<1>1. tg_from(jb) \in Nat /\ tg_to(jb) \in Nat /\ tg_from(jb) < tg_to(jb)
  BY JobGroups
<1>2. PlaceInv
  BY DEF PlaceInv, InGroup, Label
<1>3. CallInv
  <2>1. \A r \in Rank : Joined(r) = {}
    BY <1>1 DEF Joined
  <2>2. Cardinality({}) = 0
    BY FS_EmptySet
  <2>3. Phase("check") = 0
    BY DEF Phase
  <2>. QED BY <2>1, <2>2, <2>3 DEF CallInv
<1>4. OrderInv
  <2>1. \A g \in Ours : \A r \in Rank : ~Out(r, g)
    BY <1>1 DEF Ours, Out, Late
  <2>2. \A g \in Ours : ~Gathered(g)
    BY <1>1, Sizes DEF Ours, Gathered
  <2>. QED BY <2>1, <2>2 DEF OrderInv
<1>5. FileInv /\ DataInv
  BY Sizes DEF FileInv, DataInv
<1>. QED BY <1>2, <1>3, <1>4, <1>5 DEF ControlInv

(* Initially. *)
LEMMA InitInv == Init => IInv
<1> SUFFICES ASSUME Init PROVE IInv
  OBVIOUS
<1>1. 0 \in 0 .. njobs - 1
  BY SomeJob, Sizes
<1>2. tg_from(0) = 0 /\ 0 < tg_to(0) /\ tg_to(0) \in Nat
  BY <1>1, JobGroups
<1>3. TypeInv
  BY <1>1, <1>2, TaskGroupAssumption DEF Init, TypeInv, Label, NoFile
<1>4. ControlInv /\ DataInv
  <2>1. skipped \in SUBSET Group /\ \A g \in skipped : disk[g] # NoFile
    BY DEF Init
  <2>. QED BY <1>1, <2>1, Fresh DEF Init
<1>5. DiskInv
  BY <1>2, Sizes DEF Init, DiskInv, Group
<1>6. FirstRunInv
  BY DEF Init, FirstRunInv
<1>. QED BY <1>3, <1>4, <1>5, <1>6 DEF IInv

-----------------------------------------------------------------------------
(* The invariant is kept. *)

(* The groups a rank has been through are finitely many; groups of a job are groups. *)
LEMMA JoinedFinite ==
  ASSUME TypeInv, NEW r \in Rank
  PROVE  /\ IsFiniteSet(Joined(r)) /\ Cardinality(Joined(r)) \in Nat
         /\ k[r] \in Nat
         /\ k[r] < tg_to(job) => k[r] \in Group
<1>1. tg_from(job) \in Nat /\ tg_to(job) \in Nat /\ tg_from(job) .. tg_to(job) - 1 \subseteq Group
  BY JobGroups DEF TypeInv
<1>2. k[r] \in tg_from(job) .. tg_to(job)
  BY DEF TypeInv
<1>3. IsFiniteSet(tg_from(job) .. k[r] - 1)
  <2>1. tg_from(job) \in Int /\ k[r] - 1 \in Int
    BY <1>1, <1>2
  <2>. QED BY <2>1, FS_Interval
<1>4. IsFiniteSet(Joined(r))
  BY <1>3, FS_Difference DEF Joined
<1>. QED BY <1>1, <1>2, <1>4, FS_CardinalityType

(* A rank that is a group further on has made at least the calls of one more group. *)
LEMMA Behind ==
  ASSUME IInv, NEW r \in Rank, NEW q \in Rank, k[q] < k[r]
  PROVE  calls[q] <= 3 * Cardinality(Joined(r))
<1>1. /\ IsFiniteSet(Joined(r)) /\ Cardinality(Joined(r)) \in Nat
      /\ IsFiniteSet(Joined(q)) /\ Cardinality(Joined(q)) \in Nat
      /\ k[q] \in Nat /\ k[r] \in Nat /\ k[q] \in tg_from(job) .. tg_to(job)
      /\ tg_from(job) \in Nat
  BY JoinedFinite, JobGroups DEF IInv, TypeInv
<1>2. Joined(q) \subseteq Joined(r)
  BY <1>1 DEF Joined
<1>3. Cardinality(Joined(q)) <= Cardinality(Joined(r))
  BY <1>1, <1>2, FS_Subset
<1>4. calls[q] = 3 * Cardinality(Joined(q)) + Phase(pc[q])
  BY DEF IInv, ControlInv, CallInv
<1>5. CASE k[q] \in skipped
  <2>1. pc[q] \in {"check", "done"}
    BY <1>5 DEF IInv, ControlInv, PlaceInv, TypeInv, InGroup
  <2>2. Phase(pc[q]) = 0
    BY <2>1 DEF Phase
  <2>. QED BY <1>1, <1>3, <1>4, <2>2
<1>6. CASE k[q] \notin skipped
  <2>1. Joined(q) \cup {k[q]} \subseteq Joined(r) /\ k[q] \notin Joined(q)
    BY <1>1, <1>6 DEF Joined
  <2>2. /\ Cardinality(Joined(q) \cup {k[q]}) = Cardinality(Joined(q)) + 1
        /\ IsFiniteSet(Joined(q) \cup {k[q]})
    BY <1>1, <2>1, FS_AddElement
  <2>3. Cardinality(Joined(q)) + 1 <= Cardinality(Joined(r))
    BY <1>1, <2>1, <2>2, FS_Subset
  <2>4. Phase(pc[q]) \in 0 .. 3
    BY DEF Phase
  <2>. QED BY <1>1, <1>4, <2>3, <2>4
<1>. QED BY <1>5, <1>6

(* Hence all are in a barrier that lets a rank go. *)
LEMMA AllCalled ==
  ASSUME IInv, NEW r \in Rank, pc[r] = "barrier", EveryoneCalled(r), NEW q \in Rank
  PROVE  Called(q, k[r])
<1>1. /\ k[r] \in Nat /\ k[q] \in Nat /\ tg_to(job) \in Nat
      /\ Cardinality(Joined(r)) \in Nat /\ pc[q] \in Label
  BY JoinedFinite, JobGroups DEF IInv, TypeInv
<1>2. k[r] < tg_to(job) /\ (pc[q] = "done" => k[q] = tg_to(job))
  BY DEF IInv, ControlInv, PlaceInv, InGroup, Label
<1>3. /\ calls[r] = 3 * Cardinality(Joined(r)) + Phase(pc[r])
      /\ calls[q] = 3 * Cardinality(Joined(q)) + Phase(pc[q])
      /\ calls[q] >= calls[r]
  BY DEF IInv, ControlInv, CallInv, EveryoneCalled
<1>4. Phase(pc[r]) = 2
  BY DEF Phase
<1>5. ~(k[q] < k[r])
  <2> SUFFICES ASSUME k[q] < k[r] PROVE FALSE
    OBVIOUS
  <2>1. calls[q] <= 3 * Cardinality(Joined(r))
    BY Behind
  <2>. QED BY <1>1, <1>3, <1>4, <2>1 DEF IInv, TypeInv
<1>6. CASE k[q] = k[r]
  <2>1. Joined(q) = Joined(r)
    BY <1>6 DEF Joined
  <2>2. Phase(pc[q]) >= 2
    <3>1. Phase(pc[q]) \in 0 .. 3
      BY DEF Phase
    <3>. QED BY <1>1, <1>3, <1>4, <2>1, <3>1
  <2>3. pc[q] \notin {"check", "done", "load", "work"}
    BY <2>2 DEF Phase
  <2>. QED BY <1>1, <1>6, <2>3 DEF Called, Late, Label
<1>7. CASE k[q] > k[r]
  BY <1>7 DEF Called
<1>. QED BY <1>1, <1>5, <1>6, <1>7

(* Two ranks inside the same collective call are in the same operation of the *)
(* same group.                                                                *)
LEMMA SameCall == IInv => CollectivesMatch
<1> SUFFICES ASSUME IInv, NEW r \in Rank, NEW q \in Rank,
                    pc[r] \in {"load", "barrier", "gather"},
                    pc[q] \in {"load", "barrier", "gather"}, calls[r] = calls[q]
             PROVE  pc[r] = pc[q] /\ k[r] = k[q]
  BY DEF CollectivesMatch
<1>1. /\ k[r] \in Nat /\ k[q] \in Nat
      /\ Cardinality(Joined(r)) \in Nat /\ Cardinality(Joined(q)) \in Nat
  BY JoinedFinite DEF IInv
<1>2. /\ calls[r] = 3 * Cardinality(Joined(r)) + Phase(pc[r])
      /\ calls[q] = 3 * Cardinality(Joined(q)) + Phase(pc[q])
      /\ calls[r] \in Nat /\ calls[q] \in Nat
  BY DEF IInv, TypeInv, ControlInv, CallInv
<1>9. 3 * Cardinality(Joined(r)) + Phase(pc[r]) = 3 * Cardinality(Joined(q)) + Phase(pc[q])
  BY <1>2
<1>3. Phase(pc[r]) \in 1 .. 3 /\ Phase(pc[q]) \in 1 .. 3
  BY DEF Phase
<1>4. ~(k[q] < k[r])
  <2> SUFFICES ASSUME k[q] < k[r] PROVE FALSE
    OBVIOUS
  <2>1. calls[q] <= 3 * Cardinality(Joined(r))
    BY Behind
  <2>. QED BY <1>1, <1>2, <1>3, <2>1
<1>5. ~(k[r] < k[q])
  <2> SUFFICES ASSUME k[r] < k[q] PROVE FALSE
    OBVIOUS
  <2>1. calls[r] <= 3 * Cardinality(Joined(q))
    BY Behind
  <2>2. 3 * Cardinality(Joined(r)) + Phase(pc[r]) <= 3 * Cardinality(Joined(q))
    BY <1>2, <2>1
  <2>. QED BY <1>1, <1>3, <1>9, <2>2
<1>6. k[r] = k[q]
  BY <1>1, <1>4, <1>5
<1>7. Phase(pc[r]) = Phase(pc[q])
  <2>1. Joined(r) = Joined(q)
    BY <1>6 DEF Joined
  <2>. QED BY <1>1, <1>3, <1>9, <2>1
<1>8. pc[r] = pc[q]
  BY <1>7 DEF Phase
<1>. QED BY <1>6, <1>8


(* Whatever moves within a job only: what is said of the groups of the job. *)
LEMMA OursAre ==
  ASSUME TypeInv, NEW g \in Ours
  PROVE  g \in Nat /\ g < tg_to(job) /\ g \in Group /\ g \notin skipped
  BY JobGroups DEF TypeInv, Ours

(* The loop of do_job ends. *)
LEMMA JobDoneInv ==
  ASSUME IInv, NEW r \in Rank, JobDone(r)
  PROVE  IInv'
<1> USE DEF JobDone, Goto
<1>1. TypeInv'
  BY DEF IInv, TypeInv, Label
<1>2. PlaceInv'
  BY DEF IInv, TypeInv, ControlInv, PlaceInv, InGroup
<1>3. CallInv'
  <2>1. \A q \in Rank : Joined(q)' = Joined(q)
    BY DEF Joined
  <2>2. \A q \in Rank : Phase(pc'[q]) = Phase(pc[q])
    BY DEF IInv, TypeInv, Phase
  <2>. QED BY <2>1, <2>2 DEF IInv, ControlInv, CallInv
<1>4. OrderInv'
  <2>1. Ours' = Ours
    BY DEF Ours
  <2>2. ASSUME NEW g \in Ours, NEW q \in Rank
        PROVE  Called(q, g)' = Called(q, g) /\ Out(q, g)' = Out(q, g) /\ Gathered(g)' = Gathered(g)
    BY DEF IInv, TypeInv, Called, Out, Gathered, Late
  <2>. QED BY <2>1, <2>2, Sizes DEF IInv, ControlInv, OrderInv
<1>5. FileInv'
  BY DEF IInv, TypeInv, ControlInv, FileInv
<1>6. DataInv'
  <2>1. \A q, p \in Rank : Out(q, k[p])' = Out(q, k[p])
    BY DEF IInv, TypeInv, Out, Late
  <2>. QED BY <2>1, Sizes DEF IInv, TypeInv, DataInv
<1>7. DiskInv' /\ FirstRunInv'
  BY DEF IInv, TypeInv, DiskInv, FirstRunInv, Gathered
<1>. QED BY <1>1, <1>2, <1>3, <1>4, <1>5, <1>6, <1>7 DEF IInv, ControlInv

(* A rank that looks for the file of a group that somebody works on, or that rank *)
(* 0 is past, would have had to join in first.                                    *)
LEMMA NotJoined ==
  ASSUME IInv, NEW r \in Rank, pc[r] = "check", k[r] < tg_to(job), k[r] \notin skipped
  PROVE  /\ k[r] \in Ours
         /\ ~Called(r, k[r]) /\ \A q \in Rank : ~Out(q, k[r])
         /\ ~Gathered(k[r])
<1>1. k[r] \in Ours
  BY JobGroups DEF IInv, TypeInv, Ours
<1>2. ~Called(r, k[r])
  BY JoinedFinite DEF IInv, Called, Late
<1>3. \A q \in Rank : ~Out(q, k[r])
  BY <1>1, <1>2 DEF IInv, ControlInv, OrderInv
<1>4. ~Gathered(k[r])
  BY <1>1, <1>3 DEF IInv, ControlInv, OrderInv
<1>. QED BY <1>1, <1>2, <1>3, <1>4

(* A group is skipped: nobody is at work on it, and nobody has been through it. *)
LEMMA SkipGroupInv ==
  ASSUME IInv, NEW r \in Rank, SkipGroup(r)
  PROVE  IInv'
<1> USE DEF SkipGroup
<1>1. /\ k[r] \in Nat /\ k[r] \in Group /\ k[r] + 1 <= tg_to(job)
      /\ tg_from(job) \in Nat /\ tg_to(job) \in Nat /\ k[r] >= tg_from(job)
      /\ \A q \in Rank : k[q] \in tg_from(job) .. tg_to(job)
  BY JoinedFinite, JobGroups DEF IInv, TypeInv
<1>2. k' = [k EXCEPT ![r] = k[r] + 1] /\ disk[k[r]] # NoFile
  BY DEF Following, Checkpointed
<1>3. TypeInv'
  BY <1>1, <1>2 DEF IInv, TypeInv
<1>4. ASSUME NEW q \in Rank, pc[q] \in InGroup PROVE k[q] # k[r]
  <2> SUFFICES ASSUME k[q] = k[r] PROVE FALSE
    OBVIOUS
  <2>1. pc[q] \notin {"load", "work", "barrier"}
    BY <1>2 DEF IInv, ControlInv, FileInv
  <2>2. Out(q, k[r])
    BY <1>4, <2>1 DEF InGroup, Label, Out, Late
  <2>3. k[r] \notin skipped
    BY <1>4 DEF IInv, ControlInv, PlaceInv
  <2>. QED BY <2>2, <2>3, NotJoined
<1>5. PlaceInv'
  <2>1. \A q \in Rank : pc[q] \in InGroup => k'[q] = k[q] /\ k[q] \notin skipped'
    BY <1>2, <1>4 DEF IInv, TypeInv, ControlInv, PlaceInv, InGroup, Label
  <2>2. \A q \in Rank : pc[q] = "done" => k'[q] = k[q]
    BY <1>2 DEF IInv, TypeInv
  <2>. QED BY <2>1, <2>2 DEF IInv, ControlInv, PlaceInv
<1>6. \A q \in Rank : Joined(q)' = Joined(q)
  <2> SUFFICES ASSUME NEW q \in Rank PROVE Joined(q)' = Joined(q)
    OBVIOUS
  <2>1. CASE q = r
    BY <1>1, <1>2, <2>1 DEF Joined, IInv, TypeInv
  <2>2. CASE q # r
    <3>1. k[r] \notin Joined(q)
      <4> SUFFICES ASSUME k[r] \in Joined(q) PROVE FALSE
        OBVIOUS
      <4>1. k[r] \notin skipped /\ k[q] > k[r]
        BY <1>1 DEF Joined
      <4>. QED BY <4>1, NotJoined DEF Out
    <3>. QED BY <1>2, <2>2, <3>1 DEF Joined, IInv, TypeInv
  <2>. QED BY <2>1, <2>2
<1>7. CallInv'
  BY <1>6 DEF IInv, ControlInv, CallInv
<1>8. OrderInv'
  <2>1. Ours' = Ours \ {k[r]}
    BY DEF Ours
  <2>2. ASSUME NEW g \in Ours', NEW q \in Rank
        PROVE  Called(q, g)' = Called(q, g) /\ Out(q, g)' = Out(q, g)
    <3>1. g \in Nat /\ g # k[r]
      BY <2>1, OursAre DEF IInv
    <3>2. CASE q = r
      BY <1>1, <1>2, <3>1, <3>2 DEF IInv, TypeInv, Called, Out, Late
    <3>3. CASE q # r
      BY <1>2, <3>3 DEF IInv, TypeInv, Called, Out
    <3>. QED BY <3>2, <3>3
  <2>3. ASSUME NEW g \in Ours' PROVE Gathered(g)' = Gathered(g)
    <3>1. g \in Nat /\ g # k[r]
      BY <2>1, OursAre DEF IInv
    <3>2. CASE r = 0
      BY <1>1, <1>2, <3>1, <3>2 DEF IInv, TypeInv, Gathered
    <3>3. CASE r # 0
      BY <1>2, <3>3, Sizes DEF IInv, TypeInv, Gathered
    <3>. QED BY <3>2, <3>3
  <2>4. \A g \in Ours' : g \in Ours
    BY <2>1
  <2>. QED BY <2>2, <2>3, <2>4 DEF IInv, ControlInv, OrderInv
<1>9. \A q \in Rank : pc[q] \in InGroup => k'[q] = k[q]
  BY <1>2 DEF IInv, TypeInv, InGroup
<1>10. FileInv'
  <2>1. \A q \in Rank : pc[q] \in {"load", "work", "barrier"} => disk[k'[q]] = NoFile
    BY <1>9 DEF IInv, ControlInv, FileInv, InGroup, Label
  <2>2. pc[0] \in {"gather", "open"} => disk[k'[0]] = NoFile
    BY <1>9, Sizes DEF IInv, ControlInv, FileInv, InGroup, Label
  <2>3. \A g \in skipped' : disk[g] # NoFile
    BY <1>2 DEF IInv, ControlInv, FileInv
  <2>. QED BY <2>1, <2>2, <2>3 DEF FileInv
<1>11. DataInv'
  <2>1. \A q \in Rank : pc[q] \in {"work", "barrier"} => k'[q] = k[q]
    BY <1>9 DEF InGroup, Label
  <2>2. pc[0] \in {"barrier", "gather", "open", "write", "close"} => k'[0] = k[0]
    BY <1>9, Sizes DEF InGroup, Label
  <2>3. ASSUME NEW q \in Rank, sent[q] # {} PROVE Out(q, k[0])' /\ k'[0] = k[0]
    <3>1. Out(q, k[0]) /\ k'[0] = k[0]
      BY <2>2, <2>3 DEF IInv, DataInv
    <3>2. CASE q = r
      BY <1>1, <1>2, <3>1, <3>2, Sizes, JoinedFinite DEF IInv, TypeInv, Out
    <3>3. CASE q # r
      BY <1>2, <3>1, <3>3 DEF IInv, TypeInv, Out
    <3>. QED BY <3>1, <3>2, <3>3
  <2>. QED BY <2>1, <2>2, <2>3 DEF IInv, DataInv
<1>12. DiskInv'
  <2>1. ASSUME NEW g \in Group, g < k'[0], g \notin skipped' PROVE g < k[0]
    <3>1. g \in Nat /\ g # k[r]
      BY <2>1, Sizes DEF Group
    <3>. QED BY <1>1, <1>2, <2>1, <3>1, Sizes DEF IInv, TypeInv
  <2>. QED BY <2>1 DEF IInv, DiskInv
<1>13. FirstRunInv'
  <2> SUFFICES ASSUME crashes = 0 PROVE FALSE
    BY DEF FirstRunInv
  <2>1. k[r] \notin skipped /\ Gathered(k[r])
    BY <1>1, <1>2 DEF IInv, FirstRunInv
  <2>. QED BY <2>1, NotJoined
<1>. QED BY <1>3, <1>5, <1>7, <1>8, <1>10, <1>11, <1>12, <1>13 DEF IInv, ControlInv


(* A rank that moves on within its group leaves the counts of groups alone. *)
LEMMA SameJoined ==
  ASSUME job' = job, k' = k, skipped' = skipped
  PROVE  Ours' = Ours /\ \A q \in Rank : Joined(q)' = Joined(q)
  BY DEF Ours, Joined

(* One rank, and one more call, into the next phase. *)
LEMMA CallCounted ==
  ASSUME IInv, NEW r \in Rank, NEW l \in Label, job' = job, k' = k, skipped' = skipped,
         Goto(r, l),
         \/ Call(r) /\ Phase(l) = Phase(pc[r]) + 1
         \/ calls' = calls /\ Phase(l) = Phase(pc[r])
  PROVE  CallInv'
<1>1. \A q \in Rank : Joined(q)' = Joined(q) /\ Cardinality(Joined(q)) \in Nat
  BY SameJoined, JoinedFinite DEF IInv
<1>2. \A q \in Rank : calls[q] \in Nat /\ calls[q] = 3 * Cardinality(Joined(q)) + Phase(pc[q])
  BY DEF IInv, TypeInv, ControlInv, CallInv
<1>3. pc'[r] = l /\ \A q \in Rank : q # r => pc'[q] = pc[q]
  BY DEF Goto, IInv, TypeInv
<1>4. CASE Call(r) /\ Phase(l) = Phase(pc[r]) + 1
  <2>1. calls'[r] = calls[r] + 1 /\ \A q \in Rank : q # r => calls'[q] = calls[q]
    BY <1>4 DEF Call, IInv, TypeInv
  <2>2. calls'[r] = 3 * Cardinality(Joined(r)) + Phase(pc'[r])
    <3>1. Phase(pc[r]) \in 0 .. 3
      BY DEF Phase
    <3>. QED BY <1>1, <1>2, <1>3, <1>4, <2>1, <3>1
  <2>. QED BY <1>1, <1>2, <1>3, <2>1, <2>2 DEF CallInv
<1>5. CASE calls' = calls /\ Phase(l) = Phase(pc[r])
  BY <1>1, <1>2, <1>3, <1>5 DEF CallInv
<1>. QED BY <1>4, <1>5

(* No file: the group is entered, and every rank will have to enter it. *)
LEMMA EnterLoadInv ==
  ASSUME IInv, NEW r \in Rank, EnterLoad(r)
  PROVE  IInv'
<1> USE DEF EnterLoad
<1>1. /\ pc' = [pc EXCEPT ![r] = "load"] /\ calls' = [calls EXCEPT ![r] = calls[r] + 1]
      /\ disk' = disk /\ disk[k[r]] = NoFile
  BY DEF Goto, Call, AfterCheck, Checkpointed
<1>2. TypeInv'
  BY <1>1 DEF IInv, TypeInv, Label
<1>3. k[r] \notin skipped
  BY <1>1 DEF IInv, ControlInv, FileInv
<1>4. PlaceInv'
  BY <1>1, <1>3 DEF IInv, TypeInv, ControlInv, PlaceInv, InGroup, Label
<1>5. CallInv'
  BY CallCounted DEF Label, Phase
<1>6. \A g \in Ours, q \in Rank : Called(q, g)' = Called(q, g) /\ Out(q, g)' = Out(q, g)
  BY <1>1 DEF IInv, TypeInv, Called, Out, Late
<1>7. \A g : Gathered(g)' = Gathered(g)
  BY <1>1, Sizes DEF IInv, TypeInv, Gathered
<1>8. OrderInv'
  BY <1>6, <1>7, SameJoined DEF IInv, ControlInv, OrderInv
<1>9. FileInv'
  BY <1>1, Sizes DEF IInv, TypeInv, ControlInv, FileInv
<1>10. DataInv'
  <2>1. \A q \in Rank : Out(q, k[0])' = Out(q, k[0])
    BY <1>1 DEF IInv, TypeInv, Out, Late
  <2>. QED BY <1>1, <2>1, Sizes DEF IInv, TypeInv, DataInv
<1>11. DiskInv' /\ FirstRunInv'
  BY <1>1, <1>7 DEF IInv, DiskInv, FirstRunInv
<1>. QED BY <1>2, <1>4, <1>5, <1>8, <1>9, <1>10, <1>11 DEF IInv, ControlInv

(* The lists of the group the rank is at are loaded. *)
LEMMA LeaveLoadInv ==
  ASSUME IInv, NEW r \in Rank, LeaveLoad(r)
  PROVE  IInv'
<1> USE DEF LeaveLoad
<1>1. /\ pc' = [pc EXCEPT ![r] = "work"]
      /\ all_tasks' = [all_tasks EXCEPT ![r] = {load_tg_data(k[r], r)}]
  BY DEF Goto
<1>2. TypeInv'
  <2>1. k[r] \in Group
    BY JoinedFinite DEF IInv, ControlInv, PlaceInv, InGroup, Label
  <2>2. {load_tg_data(k[r], r)} \in SUBSET {load_tg_data(g, q) : g \in Group, q \in Rank}
    BY <2>1
  <2>3. all_tasks' \in [Rank -> SUBSET {load_tg_data(g, q) : g \in Group, q \in Rank}]
    BY <1>1, <2>2 DEF IInv, TypeInv
  <2>4. pc' \in [Rank -> Label]
    BY <1>1 DEF IInv, TypeInv, Label
  <2>. QED BY <2>3, <2>4 DEF IInv, TypeInv
<1>3. PlaceInv'
  BY <1>1 DEF IInv, TypeInv, ControlInv, PlaceInv, InGroup, Label
<1>4. CallInv'
  BY CallCounted DEF Label, Phase
<1>5. \A g \in Ours, q \in Rank : Called(q, g)' = Called(q, g) /\ Out(q, g)' = Out(q, g)
  BY <1>1 DEF IInv, TypeInv, Called, Out, Late
<1>6. \A g : Gathered(g)' = Gathered(g)
  BY <1>1, Sizes DEF IInv, TypeInv, Gathered
<1>7. OrderInv'
  BY <1>5, <1>6, SameJoined DEF IInv, ControlInv, OrderInv
<1>8. FileInv'
  BY <1>1, Sizes DEF IInv, TypeInv, ControlInv, FileInv
<1>9. DataInv'
  <2>1. \A q \in Rank : Out(q, k[0])' = Out(q, k[0])
    BY <1>1 DEF IInv, TypeInv, Out, Late
  <2>2. \A q \in Rank : pc'[q] = "work" => all_tasks'[q] = {load_tg_data(k[q], q)}
    BY <1>1 DEF IInv, TypeInv, DataInv
  <2>3. /\ \A q \in Rank : pc'[q] = "barrier" => pc[q] = "barrier"
        /\ pc'[0] \in {"barrier", "gather", "open", "write", "close"} <=>
               pc[0] \in {"barrier", "gather", "open", "write", "close"}
        /\ pc'[0] \in {"barrier", "gather", "open", "write", "close"} => pc'[0] = pc[0]
    BY <1>1, Sizes DEF IInv, TypeInv
  <2>. QED BY <2>1, <2>2, <2>3 DEF IInv, DataInv
<1>10. DiskInv' /\ FirstRunInv'
  BY <1>6 DEF IInv, DiskInv, FirstRunInv
<1>. QED BY <1>2, <1>3, <1>4, <1>7, <1>8, <1>9, <1>10 DEF IInv, ControlInv

(* The tasks of the rank are done, and it calls the barrier. *)
LEMMA WorkInv ==
  ASSUME IInv, NEW r \in Rank, Work(r)
  PROVE  IInv'
<1> USE DEF Work
<1>1. /\ pc' = [pc EXCEPT ![r] = "barrier"] /\ calls' = [calls EXCEPT ![r] = calls[r] + 1]
      /\ all_solutions' = [all_solutions EXCEPT ![r] = Part(k[r], r)]
  <2>1. all_tasks[r] = {load_tg_data(k[r], r)}
    BY DEF IInv, DataInv
  <2>. QED BY <2>1 DEF Goto, Call, Part
<1>2. k[r] \in Group
  BY JoinedFinite DEF IInv, ControlInv, PlaceInv, InGroup, Label
<1>3. TypeInv'
  <2>1. Part(k[r], r) \subseteq Found
    BY <1>2, Parts
  <2>. QED BY <1>1, <2>1 DEF IInv, TypeInv, Label
<1>4. PlaceInv'
  BY <1>1 DEF IInv, TypeInv, ControlInv, PlaceInv, InGroup, Label
<1>5. CallInv'
  BY CallCounted DEF Label, Phase
<1>6. \A g \in Ours, q \in Rank : (Called(q, g) => Called(q, g)') /\ Out(q, g)' = Out(q, g)
  BY <1>1 DEF IInv, TypeInv, Called, Out, Late
<1>7. \A g : Gathered(g)' = Gathered(g)
  BY <1>1, Sizes DEF IInv, TypeInv, Gathered
<1>8. OrderInv'
  BY <1>6, <1>7, SameJoined DEF IInv, ControlInv, OrderInv
<1>9. FileInv'
  BY <1>1, Sizes DEF IInv, TypeInv, ControlInv, FileInv
<1>10. DataInv'
  <2>1. \A q \in Rank : Out(q, k[0])' = Out(q, k[0])
    BY <1>1 DEF IInv, TypeInv, Out, Late
  <2>2. \A q \in Rank : pc'[q] = "barrier" => all_solutions'[q] = Part(k[q], q)
    BY <1>1 DEF IInv, TypeInv, DataInv
  <2>3. /\ \A q \in Rank : pc'[q] = "work" => pc[q] = "work"
        /\ pc[0] \in {"barrier", "gather"} => pc'[0] \in {"barrier", "gather"}
        /\ pc'[0] \in {"open", "write", "close"} => pc'[0] = pc[0]
    BY <1>1, Sizes DEF IInv, TypeInv
  <2>. QED BY <2>1, <2>2, <2>3 DEF IInv, DataInv
<1>11. DiskInv' /\ FirstRunInv'
  BY <1>7 DEF IInv, DiskInv, FirstRunInv
<1>. QED BY <1>3, <1>4, <1>5, <1>8, <1>9, <1>10, <1>11 DEF IInv, ControlInv


(* Out of the barrier: all have called it, rank 0 is in or behind it. *)
LEMMA LeaveBarrierInv ==
  ASSUME IInv, NEW r \in Rank, LeaveBarrier(r)
  PROVE  IInv'
<1> USE DEF LeaveBarrier
<1>1. /\ pc' = [pc EXCEPT ![r] = "gather"] /\ calls' = [calls EXCEPT ![r] = calls[r] + 1]
      /\ sent' = [sent EXCEPT ![r] = {Part(k[r], r)}]
  <2>1. all_solutions[r] = Part(k[r], r)
    BY DEF IInv, DataInv
  <2>. QED BY <2>1 DEF Goto, Call
<1>2. k[r] \in Group /\ k[r] \in Nat
  BY JoinedFinite DEF IInv, ControlInv, PlaceInv, InGroup, Label
<1>3. TypeInv'
  <2>1. Part(k[r], r) \subseteq Found
    BY <1>2, Parts
  <2>. QED BY <1>1, <2>1 DEF IInv, TypeInv, Label
<1>4. PlaceInv'
  BY <1>1 DEF IInv, TypeInv, ControlInv, PlaceInv, InGroup, Label
<1>5. CallInv'
  BY CallCounted DEF Label, Phase
<1>6. \A q \in Rank : Called(q, k[r])
  BY AllCalled
<1>7. \A g \in Nat, q \in Rank : (Called(q, g) => Called(q, g)') /\ (Out(q, g) => Out(q, g)')
  BY <1>1 DEF IInv, TypeInv, Called, Out, Late
<1>8. ASSUME NEW g \in Nat, NEW q \in Rank, Out(q, g)' PROVE Out(q, g) \/ (q = r /\ g = k[r])
  <2>1. CASE q = r
    BY <1>1, <1>8, <2>1 DEF IInv, TypeInv, Out, Late
  <2>2. CASE q # r
    BY <1>1, <1>8, <2>2 DEF IInv, TypeInv, Out, Late
  <2>. QED BY <2>1, <2>2
<1>9. \A g : Gathered(g)' = Gathered(g)
  BY <1>1, Sizes DEF IInv, TypeInv, Gathered
<1>10. OrderInv'
  <2>1. ASSUME NEW g \in Ours, NEW q \in Rank, NEW p \in Rank, Out(q, g)' PROVE Called(p, g)'
    <3>1. g \in Nat
      BY OursAre DEF IInv
    <3>2. CASE Out(q, g)
      <4>1. Called(p, g)
        BY <3>2 DEF IInv, ControlInv, OrderInv
      <4>. QED BY <1>7, <3>1, <4>1
    <3>3. CASE q = r /\ g = k[r]
      BY <1>6, <1>7, <3>1, <3>3
    <3>. QED BY <1>8, <2>1, <3>1, <3>2, <3>3
  <2>2. ASSUME NEW g \in Ours, Gathered(g)', NEW q \in Rank PROVE Out(q, g)'
    <3>1. g \in Nat
      BY OursAre DEF IInv
    <3>2. Out(q, g)
      BY <1>9, <2>2 DEF IInv, ControlInv, OrderInv
    <3>. QED BY <1>7, <3>1, <3>2
  <2>. QED BY <2>1, <2>2, SameJoined DEF OrderInv
<1>11. FileInv'
  BY <1>1, Sizes DEF IInv, TypeInv, ControlInv, FileInv
<1>12. k[0] = k[r] /\ pc[0] \in {"barrier", "gather"}
  <2>1. k[r] \in Ours
    BY JobGroups, <1>2 DEF IInv, TypeInv, ControlInv, PlaceInv, InGroup, Label, Ours
  <2>2. ~Out(r, k[r])
    BY <1>2 DEF Out, Late
  <2>3. ~Gathered(k[r])
    BY <2>1, <2>2 DEF IInv, ControlInv, OrderInv
  <2>4. Called(0, k[r])
    BY <1>6, Sizes
  <2>. QED BY <2>3, <2>4 DEF Called, Gathered, Late
<1>13. DataInv'
  <2>1. pc'[0] \in {"barrier", "gather"}
    BY <1>1, <1>12, Sizes DEF IInv, TypeInv
  <2>2. ASSUME NEW q \in Rank, sent'[q] # {} PROVE sent'[q] = {Part(k[0], q)} /\ Out(q, k[0])'
    <3>1. CASE q = r
      <4>1. pc'[r] = "gather"
        BY <1>1 DEF IInv, TypeInv
      <4>2. DOMAIN sent = Rank
        BY DEF IInv, TypeInv
      <4>3. sent'[r] = {Part(k[r], r)}
        BY ONLY <1>1, <4>2, r \in Rank
      <4>. QED BY <1>12, <3>1, <4>1, <4>3 DEF Out, Late
    <3>2. CASE q # r
      <4>1. sent'[q] = sent[q]
        BY <1>1, <3>2 DEF IInv, TypeInv
      <4>2. sent[q] = {Part(k[0], q)} /\ Out(q, k[0])
        BY <2>2, <4>1 DEF IInv, DataInv
      <4>. QED BY <1>2, <1>7, <1>12, <4>1, <4>2
    <3>. QED BY <3>1, <3>2
  <2>3. \A q \in Rank : pc'[q] \in {"work", "barrier"} => pc'[q] = pc[q]
    BY <1>1 DEF IInv, TypeInv
  <2>. QED BY <2>1, <2>2, <2>3 DEF IInv, DataInv
<1>14. DiskInv' /\ FirstRunInv'
  BY <1>9 DEF IInv, DiskInv, FirstRunInv
<1>. QED BY <1>3, <1>4, <1>5, <1>10, <1>11, <1>13, <1>14 DEF IInv, ControlInv

(* A rank that is through with a group has made its three calls, and is as far as *)
(* it was.                                                                        *)
LEMMA NextGroupInv ==
  ASSUME IInv, NEW r \in Rank, NextGroup(r), r = 0 => pc[r] = "close",
         r # 0 => pc[r] = "gather", UNCHANGED <<job, calls, skipped>>
  PROVE  /\ k' \in [Rank -> tg_from(job) .. tg_to(job)]
         /\ all_tasks' \in [Rank -> SUBSET {load_tg_data(g, q) : g \in Group, q \in Rank}]
         /\ all_solutions' \in [Rank -> SUBSET Found]
         /\ pc' \in [Rank -> Label]
         /\ PlaceInv' /\ CallInv' /\ OrderInv'
         /\ \A g \in Nat, q \in Rank : Out(q, g)' = Out(q, g)
         /\ \A g \in Nat : Gathered(g)' = Gathered(g)
         /\ \A q \in Rank : pc'[q] # "check" => pc'[q] = pc[q] /\ k'[q] = k[q]
                 /\ all_tasks'[q] = all_tasks[q] /\ all_solutions'[q] = all_solutions[q]
<1>1. /\ k' = [k EXCEPT ![r] = k[r] + 1] /\ pc' = [pc EXCEPT ![r] = "check"]
      /\ all_solutions' = [all_solutions EXCEPT ![r] = {}]
      /\ all_tasks' = [all_tasks EXCEPT ![r] = {}]
  BY DEF NextGroup, Following, Goto
<1>2. /\ k[r] \in Nat /\ k[r] >= tg_from(job) /\ k[r] + 1 <= tg_to(job) /\ k[r] \notin skipped
      /\ tg_from(job) \in Nat /\ tg_to(job) \in Nat
      /\ \A q \in Rank : k[q] \in Nat
  BY JoinedFinite, JobGroups DEF IInv, TypeInv, ControlInv, PlaceInv, InGroup, Label
<1>3. k' \in [Rank -> tg_from(job) .. tg_to(job)] /\ pc' \in [Rank -> Label]
  BY <1>1, <1>2 DEF IInv, TypeInv, Label
<1>4. /\ all_tasks' \in [Rank -> SUBSET {load_tg_data(g, q) : g \in Group, q \in Rank}]
      /\ all_solutions' \in [Rank -> SUBSET Found]
  BY <1>1 DEF IInv, TypeInv
<1>5. PlaceInv'
  BY <1>1 DEF IInv, TypeInv, ControlInv, PlaceInv, InGroup, Label
<1>6. CallInv'
  <2>1. \A q \in Rank : q # r => Joined(q)' = Joined(q) /\ pc'[q] = pc[q]
    BY <1>1 DEF Joined, IInv, TypeInv
  <2>2. Joined(r)' = Joined(r) \cup {k[r]} /\ k[r] \notin Joined(r)
    BY <1>1, <1>2 DEF Joined, IInv, TypeInv
  <2>3. Cardinality(Joined(r)') = Cardinality(Joined(r)) + 1 /\ Cardinality(Joined(r)) \in Nat
    BY <2>2, FS_AddElement, JoinedFinite DEF IInv
  <2>4. Phase(pc[r]) = 3 /\ Phase(pc'[r]) = 0
    <3>1. pc'[r] = "check"
      BY <1>1 DEF IInv, TypeInv
    <3>2. Phase("check") = 0 /\ Phase("close") = 3 /\ Phase("gather") = 3
      BY DEF Phase
    <3>. QED BY <3>1, <3>2
  <2>5. calls'[r] = 3 * Cardinality(Joined(r)') + Phase(pc'[r])
    <3>1. calls'[r] = 3 * Cardinality(Joined(r)) + Phase(pc[r])
      BY DEF IInv, ControlInv, CallInv
    <3>. QED BY <2>3, <2>4, <3>1
  <2>6. \A q \in Rank : q # r => calls'[q] = 3 * Cardinality(Joined(q)') + Phase(pc'[q])
    BY <2>1 DEF IInv, ControlInv, CallInv
  <2>. QED BY <2>5, <2>6 DEF CallInv
<1>7. ASSUME NEW g \in Nat, NEW q \in Rank
      PROVE  Out(q, g)' = Out(q, g) /\ (Called(q, g) => Called(q, g)')
  <2>1. CASE q = r
    <3>1. k'[q] = k[q] + 1 /\ pc'[q] = "check" /\ pc[q] \in Late
      BY <1>1, <2>1 DEF IInv, TypeInv, Late
    <3>. QED BY <1>2, <2>1, <3>1 DEF Out, Called, Late
  <2>2. CASE q # r
    BY <1>1, <2>2 DEF IInv, TypeInv, Out, Called
  <2>. QED BY <2>1, <2>2
<1>8. ASSUME NEW g \in Nat PROVE Gathered(g)' = Gathered(g)
  <2>1. CASE r = 0
    <3>1. k'[0] = k[0] + 1 /\ pc'[0] = "check" /\ pc[0] = "close"
      BY <1>1, <2>1 DEF IInv, TypeInv
    <3>. QED BY <1>2, <2>1, <3>1 DEF Gathered
  <2>2. CASE r # 0
    BY <1>1, <2>2, Sizes DEF IInv, TypeInv, Gathered
  <2>. QED BY <2>1, <2>2
<1>9. OrderInv'
  <2>1. Ours' = Ours /\ \A g \in Ours : g \in Nat
    BY OursAre DEF Ours, IInv
  <2>. QED BY <1>7, <1>8, <2>1 DEF IInv, ControlInv, OrderInv
<1>10. \A q \in Rank : pc'[q] # "check" => pc'[q] = pc[q] /\ k'[q] = k[q]
               /\ all_tasks'[q] = all_tasks[q] /\ all_solutions'[q] = all_solutions[q]
  BY <1>1 DEF IInv, TypeInv
<1>. QED BY <1>3, <1>4, <1>5, <1>6, <1>7, <1>8, <1>9, <1>10

(* A rank other than 0 goes on to the next group. *)
LEMMA LeaveGatherInv ==
  ASSUME IInv, NEW r \in Rank, LeaveGather(r)
  PROVE  IInv'
<1> USE DEF LeaveGather
<1>1. /\ k' \in [Rank -> tg_from(job) .. tg_to(job)]
      /\ all_tasks' \in [Rank -> SUBSET {load_tg_data(g, q) : g \in Group, q \in Rank}]
      /\ all_solutions' \in [Rank -> SUBSET Found]
      /\ pc' \in [Rank -> Label]
      /\ PlaceInv' /\ CallInv' /\ OrderInv'
      /\ \A g \in Nat, q \in Rank : Out(q, g)' = Out(q, g)
      /\ \A g \in Nat : Gathered(g)' = Gathered(g)
      /\ \A q \in Rank : pc'[q] # "check" => pc'[q] = pc[q] /\ k'[q] = k[q]
              /\ all_tasks'[q] = all_tasks[q] /\ all_solutions'[q] = all_solutions[q]
  <2> HIDE DEF LeaveGather
  <2>1. /\ NextGroup(r) /\ r # 0 /\ pc[r] = "gather"
        /\ UNCHANGED <<job, calls, skipped>>
    BY DEF LeaveGather
  <2>2. r = 0 => pc[r] = "close"
    BY <2>1
  <2>3. r # 0 => pc[r] = "gather"
    BY <2>1
  <2>. QED BY <2>1, <2>2, <2>3, NextGroupInv
<1>2. pc'[0] = pc[0] /\ k'[0] = k[0] /\ k[0] \in Nat
  <2>1. k[0] \in Nat
    BY JoinedFinite, Sizes DEF IInv
  <2>2. pc'[0] = pc[0] /\ k'[0] = k[0]
    BY Sizes DEF NextGroup, Goto, IInv, TypeInv
  <2>. QED BY <2>1, <2>2
<1>3. TypeInv'
  BY <1>1 DEF IInv, TypeInv
<1>4. FileInv'
  <2>1. \A q \in Rank : pc'[q] \in {"load", "work", "barrier"} => disk'[k'[q]] = NoFile
    BY <1>1 DEF IInv, ControlInv, FileInv
  <2>. QED BY <1>2, <2>1 DEF IInv, ControlInv, FileInv
<1>5. DataInv'
  <2>1. \A q \in Rank : pc'[q] = "work" => all_tasks'[q] = {load_tg_data(k'[q], q)}
    BY <1>1 DEF IInv, DataInv
  <2>2. \A q \in Rank : pc'[q] = "barrier" => all_solutions'[q] = Part(k'[q], q)
    BY <1>1 DEF IInv, DataInv
  <2>3. \A q \in Rank : Out(q, k[0])' = Out(q, k[0])
    BY <1>1, <1>2
  <2>. QED BY <1>2, <2>1, <2>2, <2>3 DEF IInv, DataInv
<1>6. DiskInv'
  BY <1>2 DEF IInv, DiskInv
<1>7. FirstRunInv'
  BY <1>2 DEF IInv, FirstRunInv, Gathered
<1>. QED BY <1>1, <1>3, <1>4, <1>5, <1>6, <1>7 DEF IInv, ControlInv


(* Rank 0 has everybody's solutions of its group; hence everybody is out of the barrier. *)
LEMMA GatherInv ==
  ASSUME IInv, Gather
  PROVE  IInv'
<1> USE DEF Gather
<1>1. pc' = [pc EXCEPT ![0] = "open"] /\ pc'[0] = "open"
      /\ \A q \in Rank : q # 0 => pc'[q] = pc[q]
  BY Sizes DEF Goto, IInv, TypeInv
<1>2. \A q \in Rank : sent[q] = {Part(k[0], q)} /\ Out(q, k[0])
  BY DEF GatherComplete, IInv, DataInv
<1>3. solutions_recv' = Result(k[0])
  <2>1. \A s : s \in UNION (UNION {sent[q] : q \in Rank}) <=> \E q \in Rank : s \in Part(k[0], q)
    BY <1>2
  <2>. QED BY <2>1 DEF Result
<1>4. k[0] \in Group /\ k[0] \in Nat
  BY Sizes, JoinedFinite DEF IInv, ControlInv, PlaceInv, InGroup, Label
<1>5. TypeInv'
  <2>1. solutions_recv' \in SUBSET Found
    BY <1>3, <1>4 DEF Found
  <2>2. pc' \in [Rank -> Label] /\ sent' \in [Rank -> SUBSET SUBSET Found]
    BY <1>1 DEF IInv, TypeInv, Label
  <2>. QED BY <2>1, <2>2 DEF IInv, TypeInv
<1>6. PlaceInv'
  BY <1>1, Sizes DEF IInv, ControlInv, PlaceInv, InGroup, Label
<1>7. CallInv'
  BY CallCounted, Sizes DEF Label, Phase
<1>8. \A g \in Nat, q \in Rank : Called(q, g)' = Called(q, g) /\ Out(q, g)' = Out(q, g)
  BY <1>1 DEF Called, Out, Late
<1>9. \A g \in Nat : Gathered(g)' => Gathered(g) \/ g = k[0]
  BY DEF Gathered
<1>10. \A g \in Nat : Gathered(g) => Gathered(g)'
  BY <1>1 DEF Gathered
<1>11. OrderInv'
  <2>1. Ours' = Ours /\ \A g \in Ours : g \in Nat
    BY OursAre DEF Ours, IInv
  <2>2. ASSUME NEW g \in Ours, Gathered(g)', NEW q \in Rank PROVE Out(q, g)
    BY <1>2, <1>9, <2>1, <2>2 DEF IInv, ControlInv, OrderInv
  <2>. QED BY <1>8, <2>1, <2>2 DEF IInv, ControlInv, OrderInv
<1>12. FileInv'
  BY <1>1, Sizes DEF IInv, ControlInv, FileInv
<1>13. DataInv'
  BY <1>1, <1>3, Sizes DEF IInv, DataInv
<1>14. DiskInv'
  BY DEF IInv, DiskInv
<1>15. FirstRunInv'
  <2>1. \A g \in Group : g \in Nat
    BY DEF Group
  <2>. QED BY <1>10, <2>1 DEF IInv, FirstRunInv
<1>. QED BY <1>5, <1>6, <1>7, <1>11, <1>12, <1>13, <1>14, <1>15 DEF IInv, ControlInv

(* While rank 0 saves a group, nobody is at work on it. *)
LEMMA NobodyAtWork ==
  ASSUME IInv, pc[0] \in {"open", "write", "close"}
  PROVE  /\ k[0] \in Group /\ k[0] \in Nat /\ k[0] \in Ours /\ Gathered(k[0])
         /\ \A q \in Rank : Out(q, k[0])
         /\ \A q \in Rank : pc[q] \in {"load", "work", "barrier"} => k[q] # k[0]
         /\ \A q \in Rank : sent[q] = {}
<1>1. k[0] \in Group /\ k[0] \in Nat /\ k[0] < tg_to(job) /\ k[0] \notin skipped
  BY Sizes, JoinedFinite DEF IInv, ControlInv, PlaceInv, InGroup, Label
<1>2. k[0] \in Ours
  BY <1>1, Sizes, JobGroups DEF Ours, IInv, TypeInv
<1>3. \A q \in Rank : Out(q, k[0])
  BY <1>2 DEF IInv, ControlInv, OrderInv, Gathered
<1>4. \A q \in Rank : pc[q] \in {"load", "work", "barrier"} => k[q] # k[0]
  BY <1>1, <1>3 DEF Out, Late
<1>. QED BY <1>1, <1>2, <1>3, <1>4 DEF IInv, DataInv, Gathered

(* What rank 0 does to the file of its group disturbs no other file, and no rank. *)
LEMMA SaveInv ==
  ASSUME IInv, pc[0] \in {"open", "write", "close"}, NEW part \in SUBSET Result(k[0]),
         disk' = [disk EXCEPT ![k[0]] = FileOf(part)], skipped' = skipped
  PROVE  /\ disk' \in [Group -> SUBSET SUBSET Found]
         /\ disk'[k[0]] = FileOf(part) /\ FileOf(part) # NoFile
         /\ \A g \in Group : g # k[0] => disk'[g] = disk[g]
         /\ \A q \in Rank : pc[q] \in {"load", "work", "barrier"} => disk'[k[q]] = NoFile
         /\ \A g \in skipped' : disk'[g] # NoFile
         /\ \A g \in Group : disk'[g] = NoFile \/ \E some \in SUBSET Result(g) : disk'[g] = FileOf(some)
         /\ \A g \in Group : g < k[0] /\ g \notin skipped => disk'[g] = FileOf(Result(g))
<1>1. k[0] \in Group /\ k[0] \in Nat
      /\ \A q \in Rank : pc[q] \in {"load", "work", "barrier"} => k[q] # k[0]
  BY NobodyAtWork
<1>2. FileOf(part) \in SUBSET SUBSET Found /\ FileOf(part) # NoFile
  BY <1>1, Parts, Sizes DEF FileOf, NoFile, Found
<1>3. disk' \in [Group -> SUBSET SUBSET Found] /\ disk'[k[0]] = FileOf(part)
      /\ \A g \in Group : g # k[0] => disk'[g] = disk[g]
  BY <1>1, <1>2 DEF IInv, TypeInv
<1>4. \A q \in Rank : pc[q] \in {"load", "work", "barrier"} => k[q] \in Group
  BY JoinedFinite DEF IInv, ControlInv, PlaceInv, InGroup, Label
<1>5. \A q \in Rank : pc[q] \in {"load", "work", "barrier"} => disk'[k[q]] = NoFile
  BY <1>1, <1>3, <1>4 DEF IInv, ControlInv, FileInv
<1>6. \A g \in skipped' : disk'[g] # NoFile
  BY <1>2, <1>3 DEF IInv, TypeInv, ControlInv, FileInv
<1>7. ASSUME NEW g \in Group
      PROVE  disk'[g] = NoFile \/ \E some \in SUBSET Result(g) : disk'[g] = FileOf(some)
  <2>1. CASE g = k[0]
    BY <1>3, <2>1
  <2>2. CASE g # k[0]
    BY <1>3, <2>2 DEF IInv, DiskInv
  <2>. QED BY <2>1, <2>2
<1>8. \A g \in Group : g < k[0] /\ g \notin skipped => disk'[g] = FileOf(Result(g))
  BY <1>1, <1>3 DEF IInv, DiskInv
<1>. QED BY <1>2, <1>3, <1>5, <1>6, <1>7, <1>8

(* The file is opened, and written in part: rank 0 stays with its group. *)
LEMMA OpenWriteInv ==
  ASSUME IInv, Open \/ Write
  PROVE  IInv'
<1>1. /\ pc[0] \in {"open", "write"}
      /\ \E l \in {"write", "close"} : Goto(0, l)
      /\ \E part \in SUBSET Result(k[0]) : disk' = [disk EXCEPT ![k[0]] = FileOf(part)]
      /\ UNCHANGED <<job, k, calls, all_tasks, all_solutions, sent, solutions_recv, skipped, crashes>>
  <2>1. CASE Open
    BY <2>1 DEF Open, SaveAs
  <2>2. CASE Write
    <3>1. solutions_recv = Result(k[0])
      BY <2>2 DEF Write, IInv, DataInv
    <3>. QED BY <2>2, <3>1 DEF Write, SaveAs
  <2>. QED BY <2>1, <2>2
<1>2. PICK part \in SUBSET Result(k[0]) : disk' = [disk EXCEPT ![k[0]] = FileOf(part)]
  BY <1>1
<1>3. /\ disk' \in [Group -> SUBSET SUBSET Found]
      /\ disk'[k[0]] = FileOf(part) /\ FileOf(part) # NoFile
      /\ \A g \in Group : g # k[0] => disk'[g] = disk[g]
      /\ \A q \in Rank : pc[q] \in {"load", "work", "barrier"} => disk'[k[q]] = NoFile
      /\ \A g \in skipped' : disk'[g] # NoFile
      /\ \A g \in Group : disk'[g] = NoFile \/ \E some \in SUBSET Result(g) : disk'[g] = FileOf(some)
      /\ \A g \in Group : g < k[0] /\ g \notin skipped => disk'[g] = FileOf(Result(g))
  <2>1. pc[0] \in {"open", "write", "close"} /\ skipped' = skipped
    BY <1>1
  <2>. QED BY <1>2, <2>1, SaveInv
<1>4. PICK l \in {"write", "close"} : Goto(0, l)
  BY <1>1
<1>5. /\ pc' = [pc EXCEPT ![0] = l] /\ pc'[0] = l
      /\ \A q \in Rank : q # 0 => pc'[q] = pc[q]
  BY <1>4, Sizes DEF Goto, IInv, TypeInv
<1>6. TypeInv'
  <2>1. pc' \in [Rank -> Label]
    <3>1. l \in Label /\ pc \in [Rank -> Label]
      BY DEF IInv, TypeInv, Label
    <3>. QED BY <1>5, <3>1
  <2>2. UNCHANGED <<job, k, calls, all_tasks, all_solutions, sent, solutions_recv, skipped, crashes>>
    BY <1>1
  <2>. QED BY <1>3, <2>1, <2>2 DEF IInv, TypeInv
<1>7. PlaceInv'
  BY <1>1, <1>5, Sizes DEF IInv, ControlInv, PlaceInv, InGroup, Label
<1>8. CallInv'
  <2>1. Phase(l) = Phase(pc[0]) /\ l \in Label
    BY <1>1 DEF Phase, Label
  <2>. QED BY <1>1, <1>4, <2>1, CallCounted, Sizes
<1>9. \A g \in Nat, q \in Rank : Called(q, g)' = Called(q, g) /\ Out(q, g)' = Out(q, g)
  BY <1>1, <1>5 DEF Called, Out, Late
<1>10. \A g \in Nat : Gathered(g)' = Gathered(g)
  BY <1>1, <1>5 DEF Gathered
<1>11. OrderInv'
  <2>1. Ours' = Ours /\ \A g \in Ours : g \in Nat
    BY <1>1, OursAre DEF Ours, IInv
  <2>. QED BY <1>9, <1>10, <2>1 DEF IInv, ControlInv, OrderInv
<1>12. FileInv'
  BY <1>1, <1>3, <1>5, Sizes DEF FileInv
<1>13. DataInv'
  <2>1. \A q \in Rank : sent[q] = {}
    BY <1>1, NobodyAtWork
  <2>. QED BY <1>1, <1>5, <2>1, Sizes DEF IInv, DataInv
<1>14. DiskInv'
  BY <1>1, <1>3 DEF DiskInv
<1>15. FirstRunInv'
  <2>1. ASSUME crashes = 0, NEW g \in Group, disk'[g] # NoFile PROVE Gathered(g)
    <3>1. CASE g = k[0]
      BY <1>1, <3>1, NobodyAtWork
    <3>2. CASE g # k[0]
      BY <1>3, <2>1, <3>2 DEF IInv, FirstRunInv
    <3>. QED BY <3>1, <3>2
  <2>2. \A g \in Group : g \in Nat
    BY DEF Group
  <2>3. crashes = 0 => skipped = {}
    BY DEF IInv, FirstRunInv
  <2>. QED BY <1>1, <1>10, <2>1, <2>2, <2>3 DEF FirstRunInv
<1>. QED BY <1>6, <1>7, <1>8, <1>11, <1>12, <1>13, <1>14, <1>15 DEF IInv, ControlInv

(* The file is whole when rank 0 closes it and leaves the group behind. *)
LEMMA CloseInv ==
  ASSUME IInv, Close
  PROVE  IInv'
<1>1. /\ pc[0] = "close" /\ solutions_recv' = {} /\ NextGroup(0)
      /\ UNCHANGED <<job, calls, sent, skipped, crashes>>
      /\ disk' = [disk EXCEPT ![k[0]] = FileOf(Result(k[0]))]
  BY DEF Close, SaveAs, IInv, DataInv
<1>2. /\ disk' \in [Group -> SUBSET SUBSET Found]
      /\ disk'[k[0]] = FileOf(Result(k[0])) /\ FileOf(Result(k[0])) # NoFile
      /\ \A g \in Group : g # k[0] => disk'[g] = disk[g]
      /\ \A q \in Rank : pc[q] \in {"load", "work", "barrier"} => disk'[k[q]] = NoFile
      /\ \A g \in skipped' : disk'[g] # NoFile
      /\ \A g \in Group : disk'[g] = NoFile \/ \E some \in SUBSET Result(g) : disk'[g] = FileOf(some)
      /\ \A g \in Group : g < k[0] /\ g \notin skipped => disk'[g] = FileOf(Result(g))
  <2>1. pc[0] \in {"open", "write", "close"} /\ skipped' = skipped
        /\ Result(k[0]) \in SUBSET Result(k[0])
    BY <1>1
  <2>. QED BY <1>1, <2>1, SaveInv
<1>3. /\ k' \in [Rank -> tg_from(job) .. tg_to(job)]
      /\ all_tasks' \in [Rank -> SUBSET {load_tg_data(g, q) : g \in Group, q \in Rank}]
      /\ all_solutions' \in [Rank -> SUBSET Found]
      /\ pc' \in [Rank -> Label]
      /\ PlaceInv' /\ CallInv' /\ OrderInv'
      /\ \A g \in Nat, q \in Rank : Out(q, g)' = Out(q, g)
      /\ \A g \in Nat : Gathered(g)' = Gathered(g)
      /\ \A q \in Rank : pc'[q] # "check" => pc'[q] = pc[q] /\ k'[q] = k[q]
              /\ all_tasks'[q] = all_tasks[q] /\ all_solutions'[q] = all_solutions[q]
  <2>1. (0 = 0 => pc[0] = "close") /\ (0 # 0 => pc[0] = "gather") /\ 0 \in Rank
        /\ UNCHANGED <<job, calls, skipped>>
    BY <1>1, Sizes
  <2>. QED BY <1>1, <2>1, NextGroupInv
<1>4. k'[0] = k[0] + 1 /\ pc'[0] = "check" /\ k[0] \in Nat /\ k[0] \in Group
  <2>1. k[0] \in Nat /\ k[0] \in Group
    BY <1>1, NobodyAtWork
  <2>. QED BY <1>1, <2>1, Sizes DEF NextGroup, Following, Goto, IInv, TypeInv
<1>5. TypeInv'
  <2>1. k' \in [Rank -> tg_from(job') .. tg_to(job')] /\ job' \in 0 .. njobs - 1
    BY <1>1, <1>3 DEF IInv, TypeInv
  <2>2. /\ sent' \in [Rank -> SUBSET SUBSET Found] /\ solutions_recv' \in SUBSET Found
        /\ calls' \in [Rank -> Nat] /\ skipped' \in SUBSET Group /\ crashes' \in 0 .. MaxCrash
    BY <1>1 DEF IInv, TypeInv
  <2>. QED BY <1>2, <1>3, <2>1, <2>2 DEF TypeInv
<1>6. FileInv'
  <2>1. \A q \in Rank : pc'[q] \in {"load", "work", "barrier"} => disk'[k'[q]] = NoFile
    BY <1>2, <1>3
  <2>. QED BY <1>1, <1>2, <1>4, <2>1 DEF FileInv
<1>7. DataInv'
  <2>1. \A q \in Rank : pc'[q] = "work" => all_tasks'[q] = {load_tg_data(k'[q], q)}
    BY <1>3 DEF IInv, DataInv
  <2>2. \A q \in Rank : pc'[q] = "barrier" => all_solutions'[q] = Part(k'[q], q)
    BY <1>3 DEF IInv, DataInv
  <2>3. \A q \in Rank : sent'[q] = {}
    BY <1>1, NobodyAtWork
  <2>. QED BY <1>4, <2>1, <2>2, <2>3 DEF DataInv
<1>8. DiskInv'
  <2>1. ASSUME NEW g \in Group, g < k'[0], g \notin skipped PROVE disk'[g] = FileOf(Result(g))
    <3>1. CASE g = k[0]
      BY <1>2, <3>1
    <3>2. CASE g # k[0]
      <4>1. g < k[0]
        BY <1>4, <2>1, <3>2 DEF Group
      <4>. QED BY <1>2, <2>1, <4>1
    <3>. QED BY <3>1, <3>2
  <2>. QED BY <1>1, <1>2, <2>1 DEF DiskInv
<1>9. FirstRunInv'
  <2>1. ASSUME crashes = 0, NEW g \in Group, disk'[g] # NoFile PROVE Gathered(g)
    <3>1. CASE g = k[0]
      BY <1>1, <3>1, NobodyAtWork
    <3>2. CASE g # k[0]
      BY <1>2, <2>1, <3>2 DEF IInv, FirstRunInv
    <3>. QED BY <3>1, <3>2
  <2>2. \A g \in Group : g \in Nat
    BY DEF Group
  <2>3. crashes = 0 => skipped = {}
    BY DEF IInv, FirstRunInv
  <2>. QED BY <1>1, <1>3, <2>1, <2>2, <2>3 DEF FirstRunInv
<1>. QED BY <1>3, <1>5, <1>6, <1>7, <1>8, <1>9 DEF IInv, ControlInv


(* A job that is submitted, for the first time or again after a crash, finds the *)
(* files of its past.                                                            *)
LEMMA SubmitInv ==
  ASSUME IInv, NextJob \/ Crash
  PROVE  IInv'
<1>1. PICK jb \in 0 .. njobs - 1 :
          /\ Start(jb) /\ disk' = disk
          /\ skipped' \in SUBSET skipped /\ tg_from(jb) <= k[0]
          /\ \A g \in Group : g < tg_from(jb) /\ g \notin skipped' => g \notin skipped
          /\ crashes' \in 0 .. MaxCrash
          /\ crashes' = 0 => crashes = 0 /\ tg_from(jb) = k[0] /\ pc[0] = "done"
  <2>1. CASE NextJob
    <3>1. job + 1 \in 0 .. njobs - 1
      BY <2>1, Sizes DEF NextJob, IInv, TypeInv
    <3>2. pc[0] = "done" /\ k[0] = tg_to(job)
      BY <2>1, Sizes DEF NextJob, Running, IInv, ControlInv, PlaceInv
    <3>3. tg_from(job + 1) = k[0] /\ k[0] \in Nat
      BY <3>2, JobGroups DEF IInv, TypeInv
    <3>. QED BY <2>1, <3>1, <3>2, <3>3 DEF NextJob, IInv, TypeInv
  <2>2. CASE Crash
    <3>1. job \in 0 .. njobs - 1 /\ tg_from(job) \in Nat /\ tg_from(job) <= k[0]
      BY JobGroups, Sizes, JoinedFinite DEF IInv, TypeInv
    <3>2. crashes' \in 0 .. MaxCrash /\ crashes' # 0
      BY <2>2, TaskGroupAssumption DEF Crash, IInv, TypeInv
    <3>3. \A g \in Group : g < tg_from(job) /\ g \notin skipped' => g \notin skipped
      BY <2>2 DEF Crash
    <3>4. skipped' \in SUBSET skipped
      BY <2>2 DEF Crash
    <3>5. Start(job) /\ disk' = disk
      BY <2>2 DEF Crash
    <3>. QED BY <3>1, <3>2, <3>3, <3>4, <3>5
  <2>. QED BY <2>1, <2>2
<1>2. /\ job' = jb /\ pc' = [r \in Rank |-> "check"] /\ k' = [r \in Rank |-> tg_from(jb)]
      /\ calls' = [r \in Rank |-> 0] /\ all_tasks' = [r \in Rank |-> {}]
      /\ all_solutions' = [r \in Rank |-> {}] /\ sent' = [r \in Rank |-> {}]
      /\ solutions_recv' = {}
  BY <1>1 DEF Start
<1>3. tg_from(jb) \in Nat /\ tg_to(jb) \in Nat /\ tg_from(jb) < tg_to(jb)
  BY JobGroups
<1>4. TypeInv'
  <2>1. k' \in [Rank -> tg_from(job') .. tg_to(job')]
    BY <1>2, <1>3
  <2>. QED BY <1>1, <1>2, <2>1 DEF IInv, TypeInv, Label
<1>5. ControlInv' /\ DataInv'
  <2>1. skipped' \in SUBSET Group /\ \A g \in skipped' : disk'[g] # NoFile
    BY <1>1 DEF IInv, TypeInv, ControlInv, FileInv
  <2>2. PlaceInv'
    BY <1>2 DEF PlaceInv, InGroup, Label
  <2>3. CallInv'
    <3>1. \A r \in Rank : Joined(r)' = {}
      BY <1>2, <1>3 DEF Joined
    <3>2. Cardinality({}) = 0
      BY FS_EmptySet
    <3>3. Phase("check") = 0
      BY DEF Phase
    <3>4. \A r \in Rank : calls'[r] = 0 /\ pc'[r] = "check"
      BY <1>2
    <3>5. ASSUME NEW r \in Rank PROVE calls'[r] = 3 * Cardinality(Joined(r)') + Phase(pc'[r])
      <4>1. Cardinality(Joined(r)') = 0
        BY <3>1, <3>2
      <4>2. Phase(pc'[r]) = 0
        BY <3>3, <3>4
      <4>. QED BY <3>4, <4>1, <4>2
    <3>. QED BY <3>5 DEF CallInv
  <2>4. OrderInv'
    <3>1. \A g \in Ours' : \A r \in Rank : ~Out(r, g)'
      BY <1>2, <1>3 DEF Ours, Out, Late
    <3>2. \A g \in Ours' : ~Gathered(g)'
      BY <1>2, <1>3, Sizes DEF Ours, Gathered
    <3>. QED BY <3>1, <3>2 DEF OrderInv
  <2>5. FileInv'
    BY <1>2, <2>1, Sizes DEF FileInv
  <2>6. DataInv'
    BY <1>2, Sizes DEF DataInv
  <2>. QED BY <2>2, <2>3, <2>4, <2>5, <2>6 DEF ControlInv
<1>6. DiskInv'
  <2>1. k'[0] = tg_from(jb)
    BY <1>2, Sizes
  <2>2. ASSUME NEW g \in Group, g < k'[0], g \notin skipped' PROVE g < k[0] /\ g \notin skipped
    <3>1. k[0] \in Nat /\ g \in Nat
      BY Sizes, JoinedFinite DEF IInv, Group
    <3>. QED BY <1>1, <1>3, <2>1, <2>2, <3>1
  <2>. QED BY <1>1, <2>2 DEF IInv, DiskInv
<1>7. FirstRunInv'
  <2>1. ASSUME crashes' = 0 PROVE skipped' = {}
    BY <1>1, <2>1 DEF IInv, FirstRunInv
  <2>2. ASSUME crashes' = 0, NEW g \in Group, disk'[g] # NoFile PROVE Gathered(g)'
    <3>1. Gathered(g) /\ pc[0] = "done" /\ k[0] = tg_from(jb)
      BY <1>1, <2>2 DEF IInv, FirstRunInv
    <3>2. k'[0] = tg_from(jb)
      BY <1>2, Sizes
    <3>. QED BY <3>1, <3>2 DEF Gathered
  <2>. QED BY <2>1, <2>2 DEF FirstRunInv
<1>. QED BY <1>4, <1>5, <1>6, <1>7 DEF IInv

(* Every step keeps the invariant. *)
LEMMA StepInv == IInv /\ [Next]_vars => IInv'
<1> SUFFICES ASSUME IInv, [Next]_vars PROVE IInv'
  OBVIOUS
<1>1. ASSUME NEW r \in Rank, RankNext(r) PROVE IInv'
  BY <1>1, JobDoneInv, SkipGroupInv, EnterLoadInv, LeaveLoadInv, WorkInv, LeaveBarrierInv,
     LeaveGatherInv DEF RankNext
<1>2. ASSUME RootNext PROVE IInv'
  BY <1>2, GatherInv, OpenWriteInv, CloseInv DEF RootNext
<1>3. ASSUME NextJob \/ Crash PROVE IInv'
  BY <1>3, SubmitInv
<1>4. ASSUME UNCHANGED vars PROVE IInv'
  BY <1>4 DEF vars, local, IInv, TypeInv, ControlInv, PlaceInv, CallInv, Joined, OrderInv, Ours,
     Called, Out, Gathered, FileInv, DataInv, DiskInv, FirstRunInv
<1>. QED BY <1>1, <1>2, <1>3, <1>4 DEF Next, Stop

(* The invariant holds in every reachable state. *)
LEMMA Invariant == Spec => []IInv
  BY InitInv, StepInv, PTL DEF Spec

-----------------------------------------------------------------------------
(* The results. *)

(* Although every rank looks for the file of a group on its own, at its own time, *)
(* two ranks inside the same collective call are in the same operation of the     *)
(* same group.                                                                    *)
THEOREM CollectivesMatchHolds == Spec => []CollectivesMatch
  BY Invariant, SameCall, PTL

(* A group that is complete on disk is never opened for writing again: rank 0     *)
(* opens only a file that, since nobody skipped the group, is still not there.    *)
THEOREM CompleteIsKeptHolds == Spec => CompleteIsKept
<1>1. IInv /\ [Next]_vars =>
        [\A g \in Group : disk[g] = FileOf(Whole(g)) /\ ~Saving(g) => disk'[g] = FileOf(Whole(g))]_vars
  <2> SUFFICES ASSUME IInv, Next, NEW g \in Group, disk[g] = FileOf(Whole(g)), ~Saving(g)
               PROVE  disk'[g] = disk[g]
    OBVIOUS
  <2>1. ASSUME NEW r \in Rank, RankNext(r) PROVE disk'[g] = disk[g]
    BY <2>1 DEF RankNext, JobDone, SkipGroup, EnterLoad, AfterCheck, LeaveLoad, Work,
       LeaveBarrier, LeaveGather
  <2>2. CASE Open
    <3>1. disk[k[0]] = NoFile
      BY <2>2 DEF Open, IInv, ControlInv, FileInv
    <3>2. g # k[0]
      BY <3>1 DEF NoFile, FileOf
    <3>. QED BY <2>2, <3>2 DEF Open, SaveAs, IInv, TypeInv
  <2>3. CASE Write \/ Close
    <3>1. g # k[0] /\ \E some : disk' = [disk EXCEPT ![k[0]] = some]
      BY <2>3 DEF Write, Close, Saving, SaveAs
    <3>. QED BY <3>1 DEF IInv, TypeInv
  <2>4. CASE Gather \/ NextJob \/ Crash \/ Stop
    BY <2>4 DEF Gather, NextJob, Crash, Stop, vars
  <2>. QED BY <2>1, <2>2, <2>3, <2>4 DEF Next, RootNext
<1>. QED BY <1>1, Invariant, PTL DEF Spec, CompleteIsKept

-----------------------------------------------------------------------------
(* The grid of tasks, whole. *)

side == cpu_grid_size * per_core_grid_size

(* The grid is a square of squares of tasks, one for each group. *)
LEMMA Squares ==
  /\ side \in Nat \ {0} /\ side * tg_grid_size = task_grid_size
  /\ per_core_grid_size * (cpu_grid_size * tg_grid_size) = task_grid_size
  /\ Group = 0 .. tg_grid_size * tg_grid_size - 1
<1> DEFINE c == cpu_grid_size
           p == per_core_grid_size
           n == task_grid_size \div (c * p)
<1>1. c * p \in Nat \ {0} /\ p * c = c * p
  BY Sizes
<1>2. n \in Nat /\ task_grid_size = n * (c * p)
  <2>1. PowerOfTwo(c * p)
    BY GridAssumption, ProductOfPowers
  <2>2. task_grid_size % (c * p) = 0
    BY <2>1, GridAssumption, QuotientOfPowers
  <2>3. PICK d \in Nat \ {0} : d = c * p
    BY <1>1
  <2>4. task_grid_size \in Nat /\ task_grid_size % d = 0
    BY <2>2, <2>3, Sizes
  <2>5. task_grid_size \div d \in Nat /\ task_grid_size = (task_grid_size \div d) * d
    BY <2>4, DivMod
  <2>. QED BY <2>3, <2>5
<1>3. n * p \in Nat /\ task_grid_size = (n * p) * c
  BY <1>2, Sizes
<1>4. task_grid_size \div c = n * p
  <2>1. (n * p) * c + 0 = task_grid_size
    BY <1>3, Sizes
  <2>2. c \in Nat \ {0} /\ 0 \in 0 .. c - 1
    BY Sizes
  <2>3. ((n * p) * c + 0) \div c = n * p
    BY <1>3, <2>2, DivIs
  <2>. QED BY <2>1, <2>3
<1>5. (n * p) \div p = n
  <2>1. n * p + 0 = n * p
    BY <1>3
  <2>. QED BY <1>2, <2>1, Sizes, DivIs
<1>6. tg_grid_size = n
  BY <1>4, <1>5 DEF tg_grid_size
<1>7. side * tg_grid_size = task_grid_size
  BY <1>1, <1>2, <1>6 DEF side
<1>8. p * (c * n) = task_grid_size
  BY <1>2, Sizes
<1>9. tg_grid_size * tg_grid_size = njobs * tg_per_job
  <2>1. tg_grid_size * tg_grid_size \in Nat
    BY Sizes
  <2>. QED BY <2>1, Sizes, GridAssumption DEF njobs
<1>. QED BY <1>1, <1>6, <1>7, <1>8, <1>9 DEF side, Group

(* A quotient is less than the number of squares. *)
LEMMA DivBelow ==
  ASSUME NEW d \in Nat \ {0}, NEW n \in Nat, NEW m \in 0 .. d * n - 1
  PROVE  m \div d \in 0 .. n - 1
<1>1. d * n \in Nat /\ m \in Nat /\ m < d * n
  OBVIOUS
<1> DEFINE q == m \div d
<1>2. q \in Nat /\ m >= q * d
  BY <1>1, DivMod
<1> HIDE DEF q
<1>3. CASE q >= n
  <2>1. q * d >= n * d
    BY <1>2, <1>3
  <2>2. n * d = d * n
    OBVIOUS
  <2>. QED BY <1>1, <1>2, <2>1, <2>2
<1>4. q < n
  BY <1>2, <1>3
<1>. QED BY <1>2, <1>4 DEF q

(* And a square of squares holds all. *)
LEMMA MulBelow ==
  ASSUME NEW d \in Nat \ {0}, NEW n \in Nat, NEW q \in 0 .. n - 1, NEW e \in 0 .. d - 1
  PROVE  q * d + e \in 0 .. d * n - 1
<1>1. (q + 1) * d <= n * d
  OBVIOUS
<1>2. (q + 1) * d = q * d + d /\ n * d = d * n /\ q * d \in Nat
  OBVIOUS
<1>. QED BY <1>1, <1>2

(* A rank's place in the square of ranks, and the rank of a place. *)
LEMMA RankPlace ==
  /\ \A r \in Rank : cpu_i(r) \in 0 .. cpu_grid_size - 1 /\ cpu_j(r) \in 0 .. cpu_grid_size - 1
  /\ \A a, b \in 0 .. cpu_grid_size - 1 : \E r \in Rank : cpu_i(r) = a /\ cpu_j(r) = b
<1>1. ASSUME NEW r \in Rank
      PROVE  cpu_i(r) \in 0 .. cpu_grid_size - 1 /\ cpu_j(r) \in 0 .. cpu_grid_size - 1
  <2>1. r \in Nat /\ r \in 0 .. cpu_grid_size * cpu_grid_size - 1
    BY Sizes DEF Rank
  <2>2. r \div cpu_grid_size \in 0 .. cpu_grid_size - 1
    BY <2>1, Sizes, DivBelow
  <2>3. r % cpu_grid_size \in 0 .. cpu_grid_size - 1
    BY <2>1, Sizes, DivMod
  <2>. QED BY <2>2, <2>3 DEF cpu_i, cpu_j
<1>2. ASSUME NEW a \in 0 .. cpu_grid_size - 1, NEW b \in 0 .. cpu_grid_size - 1
      PROVE  \E r \in Rank : cpu_i(r) = a /\ cpu_j(r) = b
  <2>1. a * cpu_grid_size + b \in Rank
    BY Sizes, MulBelow DEF Rank
  <2>2. a \in Nat
    OBVIOUS
  <2>3. /\ (a * cpu_grid_size + b) \div cpu_grid_size = a
        /\ (a * cpu_grid_size + b) % cpu_grid_size = b
    BY <2>2, Sizes, DivIs
  <2>. QED BY <2>1, <2>3 DEF cpu_i, cpu_j
<1>. QED BY <1>1, <1>2

(* A group's place in the grid, and the group of a place. *)
LEMMA GroupPlace ==
  /\ \A g \in Group : tg_i(g) \in 0 .. tg_grid_size - 1 /\ tg_j(g) \in 0 .. tg_grid_size - 1
  /\ \A a, b \in 0 .. tg_grid_size - 1 : \E g \in Group : tg_i(g) = a /\ tg_j(g) = b
<1>1. tg_grid_size \in Nat \ {0}
  BY Sizes, SomeJob
<1>2. ASSUME NEW g \in Group
      PROVE  tg_i(g) \in 0 .. tg_grid_size - 1 /\ tg_j(g) \in 0 .. tg_grid_size - 1
  <2>1. g \in 0 .. tg_grid_size * tg_grid_size - 1 /\ g \in Nat
    BY Squares
  <2>2. g \div tg_grid_size \in 0 .. tg_grid_size - 1
    BY <1>1, <2>1, DivBelow
  <2>3. g % tg_grid_size \in 0 .. tg_grid_size - 1
    BY <1>1, <2>1, DivMod
  <2>. QED BY <2>2, <2>3 DEF tg_i, tg_j
<1>3. ASSUME NEW a \in 0 .. tg_grid_size - 1, NEW b \in 0 .. tg_grid_size - 1
      PROVE  \E g \in Group : tg_i(g) = a /\ tg_j(g) = b
  <2>1. a * tg_grid_size + b \in 0 .. tg_grid_size * tg_grid_size - 1 /\ a \in Nat
    BY <1>1, MulBelow
  <2>2. a * tg_grid_size + b \in Group
    BY <2>1, Squares
  <2>3. /\ (a * tg_grid_size + b) \div tg_grid_size = a
        /\ (a * tg_grid_size + b) % tg_grid_size = b
    BY <1>1, <2>1, DivIs
  <2>. QED BY <2>2, <2>3 DEF tg_i, tg_j
<1>. QED BY <1>2, <1>3

(* List x is list e of the i-th file, which is the a-th of its group: for one e and *)
(* one a exactly if x is in the group's square.                                     *)
LEMMA InSquare ==
  ASSUME NEW I \in 0 .. tg_grid_size - 1
  PROVE  /\ \A a \in 0 .. cpu_grid_size - 1, e \in 0 .. per_core_grid_size - 1 :
               LET x == (I * cpu_grid_size + a) * per_core_grid_size + e
               IN  x \in ListNo /\ x \div side = I
         /\ \A a \in 0 .. cpu_grid_size - 1 : I * cpu_grid_size + a \in FileNo
         /\ \A x \in ListNo : x \div side = I =>
               \E a \in 0 .. cpu_grid_size - 1, e \in 0 .. per_core_grid_size - 1 :
                   x = (I * cpu_grid_size + a) * per_core_grid_size + e
<1> DEFINE c == cpu_grid_size
           p == per_core_grid_size
<1>1. c \in Nat \ {0} /\ p \in Nat \ {0} /\ I \in Nat /\ side = c * p /\ p * c = c * p
      /\ tg_grid_size \in Nat
  BY Sizes DEF side
<1>2. task_grid_size \div p = c * tg_grid_size
  <2>1. c * tg_grid_size \in Nat /\ (c * tg_grid_size) * p = task_grid_size
    BY <1>1, Squares
  <2>2. 0 \in 0 .. p - 1
    BY <1>1
  <2>3. ((c * tg_grid_size) * p + 0) \div p = c * tg_grid_size
    BY <1>1, <2>1, <2>2, DivIs
  <2>. QED BY <1>1, <2>1, <2>3, Sizes
<1>3. ASSUME NEW a \in 0 .. c - 1 PROVE I * c + a \in FileNo /\ I * c + a \in Nat
  <2>1. I * c + a \in 0 .. c * tg_grid_size - 1
    BY <1>1, MulBelow
  <2>. QED BY <1>2, <2>1 DEF FileNo
<1>4. ASSUME NEW a \in 0 .. c - 1, NEW e \in 0 .. p - 1
      PROVE  /\ (I * c + a) * p + e \in ListNo
             /\ ((I * c + a) * p + e) \div side = I
  <2>1. (I * c + a) * p + e = I * side + (a * p + e)
    <3>1. (I * c + a) * p = (I * c) * p + a * p
      BY <1>1
    <3>2. (I * c) * p = I * (c * p)
      BY <1>1
    <3>. QED BY <1>1, <3>1, <3>2
  <2>2. a * p + e \in 0 .. p * c - 1
    BY <1>1, MulBelow
  <2>3. side \in Nat \ {0}
    BY Squares
  <2>4. (I * side + (a * p + e)) \div side = I
    BY <1>1, <2>2, <2>3, DivIs
  <2>5. I * side + (a * p + e) \in 0 .. side * tg_grid_size - 1
    BY <1>1, <2>2, <2>3, MulBelow
  <2>. QED BY <2>1, <2>4, <2>5, Squares DEF ListNo
<1>5. ASSUME NEW x \in ListNo, x \div side = I
      PROVE  \E a \in 0 .. c - 1, e \in 0 .. p - 1 : x = (I * c + a) * p + e
  <2> DEFINE m == x % side
  <2>1. x \in Nat /\ side \in Nat \ {0}
    BY Squares, Sizes DEF ListNo
  <2>2. m \in 0 .. side - 1 /\ x = I * side + m
    BY <1>5, <2>1, DivMod
  <2> HIDE DEF m
  <2>3. m \div p \in 0 .. c - 1
    BY <1>1, <2>2, DivBelow
  <2>4. m % p \in 0 .. p - 1 /\ m = (m \div p) * p + (m % p)
    BY <1>1, <2>2, DivMod
  <2> DEFINE a == m \div p
             e == m % p
  <2> HIDE DEF a, e
  <2>5. a \in 0 .. c - 1 /\ e \in 0 .. p - 1 /\ m = a * p + e
    BY <2>3, <2>4 DEF a, e
  <2>6. x = (I * c + a) * p + e
    <3>1. (I * c + a) * p = (I * c) * p + a * p
      BY <1>1, <2>5
    <3>2. (I * c) * p = I * (c * p)
      BY <1>1
    <3>. QED BY <1>1, <2>2, <2>5, <3>1, <3>2
  <2>. QED BY <2>5, <2>6
<1>. QED BY <1>3, <1>4, <1>5


(* The solutions of task (x, y) of the grid, with its index. *)
Task(x, y) ==
    {<< <<x, y, XorNo(x, y)>>, t>> :
        t \in Xors \cap (ToSet(Lists[0][x]) \X ToSet(Lists[1][y]) \X ToSet(Lists[2][XorNo(x, y)]))}

(* They are the solutions that say so: a word is in one list of its kind only. *)
LEMMA TaskSolutions ==
  ASSUME NEW x \in ListNo, NEW y \in ListNo
  PROVE  Task(x, y) = {s \in Solution : s[1][1] = x /\ s[1][2] = y}
<1>1. ASSUME NEW t \in Xors, NEW u \in ListNo, NEW v \in ListNo, XorNo(u, v) \in ListNo,
             t \in ToSet(Lists[0][u]) \X ToSet(Lists[1][v]) \X ToSet(Lists[2][XorNo(u, v)])
      PROVE  IndexOf(t) = <<u, v, XorNo(u, v)>>
  <2>1. \A a \in ListNo : t[1] \in ToSet(Lists[0][a]) <=> a = u
    BY <1>1, InputAssumption DEF Kind
  <2>2. \A a \in ListNo : t[2] \in ToSet(Lists[1][a]) <=> a = v
    BY <1>1, InputAssumption DEF Kind
  <2>3. \A a \in ListNo : t[3] \in ToSet(Lists[2][a]) <=> a = XorNo(u, v)
    BY <1>1, InputAssumption DEF Kind
  <2>4. (CHOOSE a \in ListNo : t[0 + 1] \in ToSet(Lists[0][a])) = u
    BY <2>1
  <2>5. (CHOOSE a \in ListNo : t[1 + 1] \in ToSet(Lists[1][a])) = v
    BY <2>2
  <2>6. (CHOOSE a \in ListNo : t[2 + 1] \in ToSet(Lists[2][a])) = XorNo(u, v)
    BY <1>1, <2>3
  <2>. QED BY <2>4, <2>5, <2>6 DEF IndexOf
<1>2. ASSUME NEW t \in Xors,
             t \in ToSet(Lists[0][x]) \X ToSet(Lists[1][y]) \X ToSet(Lists[2][XorNo(x, y)])
      PROVE  IndexOf(t) = <<x, y, XorNo(x, y)>>
  <2>1. PICK u, v \in ListNo :
            /\ XorNo(u, v) \in ListNo
            /\ t \in ToSet(Lists[0][u]) \X ToSet(Lists[1][v]) \X ToSet(Lists[2][XorNo(u, v)])
    BY InputAssumption
  <2>2. t[1] \in ToSet(Lists[0][x]) \cap ToSet(Lists[0][u])
        /\ t[2] \in ToSet(Lists[1][y]) \cap ToSet(Lists[1][v])
    BY <1>2, <2>1
  <2>3. u = x /\ v = y
    BY <2>2, InputAssumption DEF Kind
  <2>. QED BY <1>1, <1>2, <2>1, <2>3
<1>3. ASSUME NEW s \in Task(x, y) PROVE s \in Solution /\ s[1][1] = x /\ s[1][2] = y
  <2>1. PICK t \in Xors :
            /\ t \in ToSet(Lists[0][x]) \X ToSet(Lists[1][y]) \X ToSet(Lists[2][XorNo(x, y)])
            /\ s = << <<x, y, XorNo(x, y)>>, t>>
    BY <1>3 DEF Task
  <2>2. IndexOf(t) = <<x, y, XorNo(x, y)>>
    BY <1>2, <2>1
  <2>3. s = <<IndexOf(t), t>>
    BY <2>1, <2>2
  <2>. QED BY <2>1, <2>3 DEF Solution
<1>4. ASSUME NEW s \in Solution, s[1][1] = x, s[1][2] = y PROVE s \in Task(x, y)
  <2>1. PICK t \in Xors : s = <<IndexOf(t), t>>
    BY DEF Solution
  <2>2. PICK u, v \in ListNo :
            /\ XorNo(u, v) \in ListNo
            /\ t \in ToSet(Lists[0][u]) \X ToSet(Lists[1][v]) \X ToSet(Lists[2][XorNo(u, v)])
    BY InputAssumption
  <2>3. IndexOf(t) = <<u, v, XorNo(u, v)>>
    BY <1>1, <2>2
  <2>4. s = << <<u, v, XorNo(u, v)>>, t>>
    BY <2>1, <2>3
  <2>5. u = x /\ v = y
    BY <1>4, <2>4
  <2>. QED BY <2>2, <2>4, <2>5 DEF Task
<1>. QED BY <1>3, <1>4

(* The index of a solution is of lists there are. *)
LEMMA SolutionIndex ==
  ASSUME NEW s \in Solution
  PROVE  s[1][1] \in ListNo /\ s[1][2] \in ListNo
<1>1. PICK t \in Xors : s = <<IndexOf(t), t>>
  BY DEF Solution
<1>2. PICK x, y \in ListNo :
          t \in ToSet(Lists[0][x]) \X ToSet(Lists[1][y]) \X ToSet(Lists[2][XorNo(x, y)])
  BY InputAssumption
<1>3. (CHOOSE a \in ListNo : t[0 + 1] \in ToSet(Lists[0][a])) \in ListNo
  BY <1>2
<1>4. (CHOOSE a \in ListNo : t[1 + 1] \in ToSet(Lists[1][a])) \in ListNo
  BY <1>2
<1>. QED BY <1>1, <1>3, <1>4 DEF IndexOf

-----------------------------------------------------------------------------
(* The numbers of lists. *)

\* The xor of two numbers, from that of their halves.
XorBy(g, x) ==
    IF x = <<0, 0>> THEN 0
                    ELSE ((x[1] + x[2]) % 2) + 2 * g[<<x[1] \div 2, x[2] \div 2>>]
Square(n) == (0 .. n) \X (0 .. n)
XorOn(S, g) == g = [x \in S |-> XorBy(g, x)]

LEMMA Halves ==
  ASSUME NEW n \in Nat, NEW x \in Square(n + 1), x # <<0, 0>>
  PROVE  <<x[1] \div 2, x[2] \div 2>> \in Square(n)
<1>1. PICK a \in 0 .. n + 1, b \in 0 .. n + 1 : x = <<a, b>>
  BY DEF Square
<1>2. a \div 2 \in 0 .. n /\ b \div 2 \in 0 .. n
  OBVIOUS
<1>. QED BY <1>1, <1>2 DEF Square

LEMMA XorBelow == \A n \in Nat : \E g : XorOn(Square(n), g)
<1> DEFINE X == {n \in Nat : ~ \E g : XorOn(Square(n), g)}
<1> SUFFICES ASSUME X # {} PROVE FALSE
  OBVIOUS
<1>1. PICK m \in X : \A n \in X : m <= n
  BY Least
<1>2. CASE m = 0
  <2> DEFINE g == [x \in Square(0) |-> 0]
  <2>1. \A x \in Square(0) : x = <<0, 0>>
    BY DEF Square
  <2>2. \A x \in Square(0) : XorBy(g, x) = 0
    BY <2>1 DEF XorBy
  <2>3. XorOn(Square(0), g)
    BY <2>2 DEF XorOn
  <2>. QED BY <1>1, <1>2, <2>3
<1>3. CASE m # 0
  <2>1. m - 1 \in Nat /\ ~(m <= m - 1) /\ (m - 1) + 1 = m
    BY <1>1, <1>3
  <2>2. PICK g : XorOn(Square(m - 1), g)
    BY <1>1, <2>1
  <2> DEFINE h == [x \in Square(m) |-> XorBy(g, x)]
  <2>3. ASSUME NEW x \in Square(m) PROVE XorBy(h, x) = XorBy(g, x)
    <3>1. CASE x = <<0, 0>>
      BY <3>1 DEF XorBy
    <3>2. CASE x # <<0, 0>>
      <4> DEFINE y == <<x[1] \div 2, x[2] \div 2>>
      <4>1. y \in Square(m - 1)
        BY <2>1, <3>2, Halves
      <4>2. y \in Square(m)
        BY <2>1, <4>1 DEF Square
      <4>3. g[y] = XorBy(g, y)
        BY <2>2, <4>1 DEF XorOn
      <4>4. h[y] = g[y]
        BY <4>2, <4>3
      <4> HIDE DEF h
      <4>. QED BY <4>4, <3>2 DEF XorBy
    <3>. QED BY <3>1, <3>2
  <2>4. XorOn(Square(m), h)
    BY <2>3 DEF XorOn
  <2>. QED BY <1>1, <2>4
<1>. QED BY <1>2, <1>3

LEMMA XorUnique ==
  ASSUME NEW n \in Nat, NEW l \in Nat, NEW g, NEW h, XorOn(Square(n), g), XorOn(Square(l), h),
         NEW x \in Square(n), x \in Square(l)
  PROVE  g[x] = h[x]
<1> DEFINE X == {m \in Nat : m <= n /\ m <= l /\ \E y \in Square(m) : g[y] # h[y]}
<1> SUFFICES ASSUME X = {} PROVE g[x] = h[x]
  <2> SUFFICES ASSUME X # {} PROVE FALSE
    OBVIOUS
  <2>1. PICK m \in X : \A i \in X : m <= i
    BY Least
  <2>2. PICK y \in Square(m) : g[y] # h[y]
    BY <2>1
  <2>3. y \in Square(n) /\ y \in Square(l)
    BY <2>1 DEF Square
  <2>4. g[y] = XorBy(g, y) /\ h[y] = XorBy(h, y)
    BY <2>3 DEF XorOn
  <2>5. y # <<0, 0>>
    BY <2>2, <2>4 DEF XorBy
  <2>6. m # 0
    BY <2>5 DEF Square
  <2>7. m - 1 \in Nat /\ ~(m <= m - 1) /\ (m - 1) + 1 = m /\ m - 1 <= n /\ m - 1 <= l
    BY <2>1, <2>6
  <2> DEFINE z == <<y[1] \div 2, y[2] \div 2>>
  <2>8. z \in Square(m - 1)
    BY <2>5, <2>7, Halves
  <2>9. g[z] = h[z]
    BY <2>1, <2>7, <2>8
  <2>. QED BY <2>2, <2>4, <2>5, <2>9 DEF XorBy
<1>1. PICK a \in 0 .. n, b \in 0 .. n : x = <<a, b>>
  BY DEF Square
<1>2. a <= l /\ b <= l
  BY <1>1 DEF Square
<1>3. PICK m \in Nat : m <= n /\ m <= l /\ a <= m /\ b <= m
  BY <1>1, <1>2
<1>4. x \in Square(m)
  BY <1>1, <1>3 DEF Square
<1>. QED BY <1>3, <1>4

LEMMA XorExists == \E g : XorOn(Nat \X Nat, g)
<1> DEFINE Below(n) == CHOOSE g : XorOn(Square(n), g)
           Sum(x) == x[1] + x[2]
           h == [x \in Nat \X Nat |-> Below(Sum(x))[x]]
<1>1. \A n \in Nat : XorOn(Square(n), Below(n))
  BY XorBelow, Zenon
<1> HIDE DEF Below
<1>2. \A x \in Nat \X Nat : Sum(x) \in Nat /\ x \in Square(Sum(x))
  BY DEF Square
<1>3. ASSUME NEW x \in Nat \X Nat PROVE h[x] = XorBy(h, x)
  <2> DEFINE n == Sum(x)
  <2>1. n \in Nat /\ x \in Square(n)
    BY <1>2
  <2>2. h[x] = XorBy(Below(n), x)
    BY <1>1, <2>1 DEF XorOn
  <2>3. CASE x = <<0, 0>>
    BY <2>2, <2>3 DEF XorBy
  <2>4. CASE x # <<0, 0>>
    <3> DEFINE y == <<x[1] \div 2, x[2] \div 2>>
    <3>1. x \in Square(n + 1)
      BY <2>1 DEF Square
    <3>2. y \in Square(n)
      BY <2>1, <2>4, <3>1, Halves
    <3>3. y \in Nat \X Nat
      BY <2>1, <3>2 DEF Square
    <3>4. Sum(y) \in Nat /\ y \in Square(Sum(y))
      BY <1>2, <3>3
    <3>5. XorOn(Square(Sum(y)), Below(Sum(y))) /\ XorOn(Square(n), Below(n))
      BY <1>1, <2>1, <3>4
    <3> HIDE DEF Sum, n, y
    <3>6. Below(Sum(y))[y] = Below(n)[y]
      BY <2>1, <3>2, <3>4, <3>5, XorUnique
    <3>7. h[y] = Below(n)[y]
      BY <3>3, <3>6
    <3> HIDE DEF h
    <3>. QED BY <2>2, <2>4, <3>7 DEF XorBy, y
  <2>. QED BY <2>3, <2>4
<1> HIDE DEF h
<1>4. h = [x \in Nat \X Nat |-> h[x]]
  BY DEF h
<1>5. XorOn(Nat \X Nat, h)
  BY <1>3, <1>4 DEF XorOn
<1>. QED BY <1>5

LEMMA XorIs == XorOn(Nat \X Nat, xor)
BY XorExists, Zenon DEF xor, XorOn, XorBy

(* ^ is done bit by bit. *)
LEMMA XorNoIs ==
  ASSUME NEW a \in Nat, NEW b \in Nat
  PROVE  XorNo(a, b) = ((a + b) % 2) + 2 * XorNo(a \div 2, b \div 2)
<1> DEFINE x == <<a, b>>
<1>1. x \in Nat \X Nat /\ x[1] = a /\ x[2] = b
  OBVIOUS
<1>2. xor[x] = XorBy(xor, x)
  BY <1>1, XorIs DEF XorOn
<1>3. CASE x = <<0, 0>>
  <2>1. a = 0 /\ b = 0 /\ a \div 2 = 0 /\ b \div 2 = 0 /\ (a + b) % 2 = 0
    BY <1>3
  <2>2. xor[<<0, 0>>] = 0
    BY <1>2, <1>3 DEF XorBy
  <2>. QED BY <2>1, <2>2 DEF XorNo
<1>4. CASE x # <<0, 0>>
  BY <1>1, <1>2, <1>4 DEF XorBy, XorNo
<1>. QED BY <1>3, <1>4

(* It is a number, and that of zeros is zero. *)
LEMMA XorNoZero == XorNo(0, 0) = 0
<1>1. xor[<<0, 0>>] = XorBy(xor, <<0, 0>>)
  BY XorIs DEF XorOn
<1>. QED BY <1>1 DEF XorBy, XorNo

LEMMA XorNoNat == \A a, b \in Nat : XorNo(a, b) \in Nat
<1> DEFINE X == {m \in Nat : \E a, b \in 0 .. m : XorNo(a, b) \notin Nat}
<1> SUFFICES ASSUME X # {} PROVE FALSE
  <2> SUFFICES ASSUME X = {}, NEW a \in Nat, NEW b \in Nat PROVE XorNo(a, b) \in Nat
    OBVIOUS
  <2>1. a + b \in Nat /\ a \in 0 .. a + b /\ b \in 0 .. a + b
    OBVIOUS
  <2>. QED BY <2>1
<1>1. PICK m \in X : \A l \in X : m <= l
  <2>1. X \in SUBSET Nat
    OBVIOUS
  <2> HIDE DEF X
  <2>. QED BY <2>1, Least
<1>2. PICK a \in 0 .. m, b \in 0 .. m : XorNo(a, b) \notin Nat
  BY <1>1
<1>3. m # 0
  BY <1>2, XorNoZero
<1>4. m - 1 \in Nat /\ ~(m <= m - 1)
  BY <1>1, <1>3
<1>5. a \div 2 \in 0 .. m - 1 /\ b \div 2 \in 0 .. m - 1
  BY <1>1, <1>3
<1>6. XorNo(a \div 2, b \div 2) \in Nat
  BY <1>1, <1>4, <1>5
<1>7. a \in Nat /\ b \in Nat /\ (a + b) % 2 \in Nat
  BY <1>1
<1>8. XorNo(a, b) = ((a + b) % 2) + 2 * XorNo(a \div 2, b \div 2)
  BY <1>7, XorNoIs
<1>. QED BY <1>2, <1>6, <1>7, <1>8

\* The xor of two numbers is that of their quotients by d and that of their remainders.
Splits(d) ==
    \A i, j \in Nat : \A a, b \in 0 .. d - 1 :
        /\ XorNo(a, b) \in 0 .. d - 1
        /\ XorNo(i * d + a, j * d + b) = XorNo(i, j) * d + XorNo(a, b)

LEMMA SplitsOne == Splits(1)
<1> SUFFICES ASSUME NEW i \in Nat, NEW j \in Nat, NEW a \in 0 .. 0, NEW b \in 0 .. 0
             PROVE  /\ XorNo(a, b) \in 0 .. 0
                    /\ XorNo(i * 1 + a, j * 1 + b) = XorNo(i, j) * 1 + XorNo(a, b)
  BY DEF Splits
<1>1. a = 0 /\ b = 0 /\ i * 1 + 0 = i /\ j * 1 + 0 = j
  OBVIOUS
<1>2. XorNo(i, j) \in Nat
  BY XorNoNat
<1>. QED BY <1>1, <1>2, XorNoZero

LEMMA SplitsTwice ==
  ASSUME NEW d \in Nat \ {0}, Splits(d)
  PROVE  Splits(2 * d)
<1> SUFFICES ASSUME NEW i \in Nat, NEW j \in Nat, NEW a \in 0 .. 2 * d - 1, NEW b \in 0 .. 2 * d - 1
             PROVE  /\ XorNo(a, b) \in 0 .. 2 * d - 1
                    /\ XorNo(i * (2 * d) + a, j * (2 * d) + b) = XorNo(i, j) * (2 * d) + XorNo(a, b)
  BY DEF Splits
<1>1. PICK u \in 0 .. d - 1 : u = a \div 2
  OBVIOUS
<1>2. PICK v \in 0 .. d - 1 : v = b \div 2
  OBVIOUS
<1>3. PICK r \in 0 .. 1 : r = (a + b) % 2
  OBVIOUS
<1>4. PICK y \in 0 .. d - 1 : y = XorNo(u, v)
  BY DEF Splits
<1>5. XorNo(a, b) = r + 2 * y
  <2>1. a \in Nat /\ b \in Nat
    OBVIOUS
  <2>2. XorNo(a, b) = ((a + b) % 2) + 2 * XorNo(a \div 2, b \div 2)
    BY <2>1, XorNoIs
  <2>. QED BY <1>1, <1>2, <1>3, <1>4, <2>2
<1>6. PICK s \in Nat : s = i * d
  OBVIOUS
<1>7. PICK t \in Nat : t = j * d
  OBVIOUS
<1>8. i * (2 * d) = 2 * s /\ j * (2 * d) = 2 * t
  BY <1>6, <1>7
<1>9. /\ 2 * s + a \in Nat /\ (2 * s + a) \div 2 = s + u
      /\ 2 * t + b \in Nat /\ (2 * t + b) \div 2 = t + v
      /\ ((2 * s + a) + (2 * t + b)) % 2 = r
  BY <1>1, <1>2, <1>3
<1>10. XorNo(2 * s + a, 2 * t + b) = r + 2 * XorNo(s + u, t + v)
  BY <1>9, XorNoIs
<1>11. XorNo(s + u, t + v) = XorNo(i, j) * d + y
  BY <1>4, <1>6, <1>7 DEF Splits
<1>12. PICK x \in Nat : x = XorNo(i, j)
  BY XorNoNat
<1>13. PICK z \in Nat : z = x * d
  OBVIOUS
<1>14. x * (2 * d) = 2 * z
  BY <1>13
<1>15. XorNo(2 * s + a, 2 * t + b) = 2 * z + (r + 2 * y)
  BY <1>10, <1>11, <1>12, <1>13
<1>16. r + 2 * y \in 0 .. 2 * d - 1
  OBVIOUS
<1>. QED BY <1>5, <1>8, <1>12, <1>14, <1>15, <1>16

LEMMA PowersSplit == \A d : PowerOfTwo(d) => Splits(d)
<1> DEFINE X == {n \in Nat : PowerOfTwo(n) /\ ~Splits(n)}
<1>1. X = {}
  <2> SUFFICES ASSUME X # {} PROVE FALSE
    OBVIOUS
  <2>1. PICK n \in X : \A l \in X : n <= l
    <3>1. X \in SUBSET Nat
      OBVIOUS
    <3> HIDE DEF X
    <3>. QED BY <3>1, Least
  <2>2. n # 1
    BY <2>1, SplitsOne
  <2>3. PICK m \in Nat \ {0} : n = 2 * m /\ m < n /\ PowerOfTwo(m)
    BY <2>1, <2>2, HalfIsPower
  <2>4. Splits(m)
    BY <2>1, <2>3
  <2>. QED BY <2>1, <2>3, <2>4, SplitsTwice
<1>2. \A d : PowerOfTwo(d) => d \in Nat
  BY DEF PowerOfTwo
<1>. QED BY <1>1, <1>2

(* What a rank computes from the numbers of its files and of its places in them is *)
(* right: list x ^ y is at place a ^ b of file i ^ j.                              *)
LEMMA XorNoSplits ==
  ASSUME NEW i \in FileNo, NEW j \in FileNo,
         NEW a \in 0 .. per_core_grid_size - 1, NEW b \in 0 .. per_core_grid_size - 1
  PROVE  /\ XorNo(a, b) \in 0 .. per_core_grid_size - 1
         /\ XorNo(i * per_core_grid_size + a, j * per_core_grid_size + b)
                = XorNo(i, j) * per_core_grid_size + XorNo(a, b)
<1>1. Splits(per_core_grid_size)
  BY PowersSplit, GridAssumption
<1>2. i \in Nat /\ j \in Nat
  BY DEF FileNo
<1>. QED BY <1>1, <1>2 DEF Splits

-----------------------------------------------------------------------------
(* Files. *)

\* The running sum of grouper.py, and the concatenation of the lists.
PrefixBy(n, ins, g, j) == IF j = 1 THEN 2 + n ELSE g[j - 1] + Len(ins[j - 1])
FlatBy(ins, g, i) == IF i = 1 THEN ins[i] ELSE g[i - 1] \o ins[i]
IsPrefixSum(n, ins, m, g) == g = [j \in 1 .. m |-> PrefixBy(n, ins, g, j)]
IsFlat(ins, m, g) == g = [i \in 1 .. m |-> FlatBy(ins, g, i)]

(* The recursion of prefix is well founded. *)
LEMMA PrefixExists == \A n, ins : \A m \in Nat : \E g : IsPrefixSum(n, ins, m, g)
<1> SUFFICES ASSUME NEW n, NEW ins, NEW m0 \in Nat, ~ \E g : IsPrefixSum(n, ins, m0, g) PROVE FALSE
  OBVIOUS
<1> DEFINE X == {m \in Nat : ~ \E g : IsPrefixSum(n, ins, m, g)}
<1>1. PICK m \in X : \A l \in X : m <= l
  <2>1. X \in SUBSET Nat /\ X # {}
    OBVIOUS
  <2>. QED BY <2>1, Least
<1>2. CASE m = 0
  <2>1. IsPrefixSum(n, ins, 0, [j \in 1 .. 0 |-> 0])
    BY DEF IsPrefixSum
  <2>. QED BY <1>1, <1>2, <2>1
<1>3. CASE m # 0
  <2>1. m - 1 \in Nat /\ ~(m <= m - 1)
    BY <1>1, <1>3
  <2>2. PICK g : IsPrefixSum(n, ins, m - 1, g)
    BY <1>1, <2>1
  <2> DEFINE h == [j \in 1 .. m |-> PrefixBy(n, ins, g, j)]
  <2>3. ASSUME NEW j \in 1 .. m PROVE PrefixBy(n, ins, h, j) = PrefixBy(n, ins, g, j)
    <3>1. ASSUME j # 1 PROVE h[j - 1] = g[j - 1]
      <4>1. j - 1 \in 1 .. m - 1 /\ j - 1 \in 1 .. m
        BY <3>1
      <4>. QED BY <2>2, <4>1 DEF IsPrefixSum
    <3> HIDE DEF h
    <3>. QED BY <3>1 DEF PrefixBy
  <2>4. IsPrefixSum(n, ins, m, h)
    BY <2>3 DEF IsPrefixSum
  <2>. QED BY <1>1, <2>4
<1>. QED BY <1>2, <1>3

(* So is that of a concatenation. *)
LEMMA FlatExists == \A ins : \A m \in Nat : \E g : IsFlat(ins, m, g)
<1> SUFFICES ASSUME NEW ins, NEW m0 \in Nat, ~ \E g : IsFlat(ins, m0, g) PROVE FALSE
  OBVIOUS
<1> DEFINE X == {m \in Nat : ~ \E g : IsFlat(ins, m, g)}
<1>1. PICK m \in X : \A l \in X : m <= l
  <2>1. X \in SUBSET Nat /\ X # {}
    OBVIOUS
  <2>. QED BY <2>1, Least
<1>2. CASE m = 0
  <2>1. IsFlat(ins, 0, [j \in 1 .. 0 |-> 0])
    BY DEF IsFlat
  <2>. QED BY <1>1, <1>2, <2>1
<1>3. CASE m # 0
  <2>1. m - 1 \in Nat /\ ~(m <= m - 1)
    BY <1>1, <1>3
  <2>2. PICK g : IsFlat(ins, m - 1, g)
    BY <1>1, <2>1
  <2> DEFINE h == [j \in 1 .. m |-> FlatBy(ins, g, j)]
  <2>3. ASSUME NEW j \in 1 .. m PROVE FlatBy(ins, h, j) = FlatBy(ins, g, j)
    <3>1. ASSUME j # 1 PROVE h[j - 1] = g[j - 1]
      <4>1. j - 1 \in 1 .. m - 1 /\ j - 1 \in 1 .. m
        BY <3>1
      <4>. QED BY <2>2, <4>1 DEF IsFlat
    <3> HIDE DEF h
    <3>. QED BY <3>1 DEF FlatBy
  <2>4. IsFlat(ins, m, h)
    BY <2>3 DEF IsFlat
  <2>. QED BY <1>1, <2>4
<1>. QED BY <1>2, <1>3

\* The first i lists have been concatenated, each from where the running sum says.
Placed(S, n, ins, g, f, i) ==
    /\ f[i] \in Seq(S) /\ g[i + 1] \in Nat /\ Len(f[i]) = g[i + 1] - (2 + n)
    /\ \A j \in 1 .. i :
           /\ g[j] \in Nat /\ g[j] >= 2 + n
           /\ g[j + 1] = g[j] + Len(ins[j]) /\ g[j + 1] <= g[i + 1]
           /\ \A q \in 1 .. Len(ins[j]) : f[i][g[j] - (2 + n) + q] = ins[j][q]

(* An index into a concatenation. *)
LEMMA IndexBefore ==
  ASSUME NEW n \in Nat, NEW m \in Nat, NEW l \in Nat, NEW b \in Nat, NEW u \in Nat,
         b >= 2 + n, b + u <= m + 2 + n, NEW q \in 1 .. u
  PROVE  b - (2 + n) + q \in 1 .. m + l /\ b - (2 + n) + q <= m
  OBVIOUS

LEMMA IndexAfter ==
  ASSUME NEW n \in Nat, NEW z \in Nat, NEW a \in Nat, NEW l \in Nat,
         a >= 2 + n, a + l <= z, NEW q \in 1 .. l
  PROVE  a + q \in 1 .. z /\ ~(a + q <= n + 2) /\ (a + q) - (n + 2) = a - (2 + n) + q
  OBVIOUS

(* A list is in the concatenation from where the sum of the lengths before it says. *)
LEMMA PlaceOfList ==
  ASSUME NEW S, NEW n \in Nat, NEW ins \in [1 .. n -> Seq(S)],
         NEW g, IsPrefixSum(n, ins, n + 1, g), NEW f, IsFlat(ins, n, f)
  PROVE  \A i \in 1 .. n : Placed(S, n, ins, g, f, i)
<1> DEFINE X == {i \in 1 .. n : ~Placed(S, n, ins, g, f, i)}
<1> SUFFICES ASSUME X # {} PROVE FALSE
  OBVIOUS
<1>1. PICK i \in X : \A u \in X : i <= u
  <2>1. X \in SUBSET Nat
    OBVIOUS
  <2> HIDE DEF X
  <2>. QED BY <2>1, Least
<1>2. i \in 1 .. n /\ i + 1 \in 1 .. n + 1 /\ ins[i] \in Seq(S)
  OBVIOUS
<1>3. PICK l \in Nat : l = Len(ins[i])
  BY <1>2, LenProperties
<1>4. g[i + 1] = g[i] + l
  <2>1. g[i + 1] = PrefixBy(n, ins, g, i + 1)
    BY <1>2 DEF IsPrefixSum
  <2>2. i + 1 # 1 /\ (i + 1) - 1 = i
    BY <1>2
  <2>. QED BY <1>3, <2>1, <2>2 DEF PrefixBy
<1>5. f[i] = IF i = 1 THEN ins[i] ELSE f[i - 1] \o ins[i]
  BY <1>2 DEF IsFlat, FlatBy
<1>6. CASE i = 1
  <2>1. g[1] = 2 + n
    BY <1>2 DEF IsPrefixSum, PrefixBy
  <2>2. f[1] = ins[1] /\ ins[1] \in Seq(S) /\ Len(ins[1]) = l /\ 1 + 1 = 2
    BY <1>2, <1>3, <1>5, <1>6
  <2>3. g[2] = 2 + n + l /\ g[2] - (2 + n) = l /\ g[2] \in Nat
    BY <1>4, <1>6, <2>1
  <2>4. \A q \in 1 .. l : g[1] - (2 + n) + q = q
    BY <2>1
  <2>5. \A j \in 1 .. 1 : j = 1
    OBVIOUS
  <2>6. ASSUME NEW j \in 1 .. 1
        PROVE  /\ g[j] \in Nat /\ g[j] >= 2 + n
               /\ g[j + 1] = g[j] + Len(ins[j]) /\ g[j + 1] <= g[1 + 1]
               /\ \A q \in 1 .. Len(ins[j]) : f[1][g[j] - (2 + n) + q] = ins[j][q]
    <3>1. j = 1
      BY <2>5
    <3>2. 2 + n \in Nat /\ 2 + n >= 2 + n /\ g[2] <= g[2]
      BY <2>3
    <3>3. \A q \in 1 .. l : f[1][g[1] - (2 + n) + q] = ins[1][q]
      BY <2>2, <2>4
    <3>. QED BY <2>1, <2>2, <2>3, <3>1, <3>2, <3>3
  <2>7. Placed(S, n, ins, g, f, 1)
    BY <2>2, <2>3, <2>6 DEF Placed
  <2>. QED BY <1>1, <1>6, <2>7
<1>7. CASE i # 1
  <2>1. i - 1 \in 1 .. n /\ ~(i <= i - 1) /\ (i - 1) + 1 = i
    BY <1>2, <1>7
  <2>2. Placed(S, n, ins, g, f, i - 1)
    BY <1>1, <2>1
  <2>3. f[i - 1] \in Seq(S) /\ g[i] \in Nat /\ Len(f[i - 1]) = g[i] - (2 + n)
    BY <2>1, <2>2 DEF Placed
  <2>4. f[i] = f[i - 1] \o ins[i]
    BY <1>5, <1>7
  <2>5. PICK m \in Nat : m = Len(f[i - 1])
    BY <2>3, LenProperties
  <2>6. PICK a \in Nat : a = g[i] /\ a = m + 2 + n
    BY <2>3, <2>5
  <2>7. f[i] \in Seq(S) /\ Len(f[i]) = m + l
    BY <1>2, <1>3, <2>3, <2>4, <2>5, ConcatProperties
  <2>8. \A q \in 1 .. m + l : f[i][q] = IF q <= m THEN f[i - 1][q] ELSE ins[i][q - m]
    <3>1. \A q \in 1 .. Len(f[i - 1]) + Len(ins[i]) :
              (f[i - 1] \o ins[i])[q]
                  = IF q <= Len(f[i - 1]) THEN f[i - 1][q] ELSE ins[i][q - Len(f[i - 1])]
      BY <1>2, <2>3, ConcatProperties
    <3>. QED BY <1>3, <2>4, <2>5, <3>1
  <2>9. g[i + 1] = a + l /\ a + l \in Nat /\ Len(f[i]) = g[i + 1] - (2 + n)
    BY <1>4, <2>6, <2>7
  <2>10. ASSUME NEW j \in 1 .. i
         PROVE  /\ g[j] \in Nat /\ g[j] >= 2 + n
                /\ g[j + 1] = g[j] + Len(ins[j]) /\ g[j + 1] <= g[i + 1]
                /\ \A q \in 1 .. Len(ins[j]) : f[i][g[j] - (2 + n) + q] = ins[j][q]
    <3>1. CASE j = i
      <4>1. ASSUME NEW q \in 1 .. l PROVE f[i][a - (2 + n) + q] = ins[i][q]
        <5>1. PICK x \in Nat : x = a - (2 + n) + q /\ x \in 1 .. m + l /\ ~(x <= m) /\ x - m = q
          BY <2>6
        <5>2. f[i][x] = ins[i][q]
          BY <2>8, <5>1
        <5>. QED BY <5>1, <5>2
      <4>2. a >= 2 + n /\ a + l <= a + l
        BY <2>6
      <4>. QED BY <1>3, <2>6, <2>9, <3>1, <4>1, <4>2
    <3>2. CASE j # i
      <4>1. j \in 1 .. i - 1
        BY <1>2, <3>2
      <4>2. /\ g[j] \in Nat /\ g[j] >= 2 + n
            /\ g[j + 1] = g[j] + Len(ins[j]) /\ g[j + 1] <= g[i]
            /\ \A q \in 1 .. Len(ins[j]) : f[i - 1][g[j] - (2 + n) + q] = ins[j][q]
        BY <2>1, <2>2, <4>1 DEF Placed
      <4>3. j \in 1 .. n /\ ins[j] \in Seq(S)
        BY <1>2
      <4>4. PICK u \in Nat : u = Len(ins[j])
        BY <4>3, LenProperties
      <4>5. PICK b \in Nat : b = g[j] /\ b >= 2 + n /\ b + u <= a
        BY <2>6, <4>2, <4>4
      <4>6. ASSUME NEW q \in 1 .. u PROVE f[i][b - (2 + n) + q] = ins[j][q]
        <5>0. b >= 2 + n /\ b + u <= m + 2 + n
          BY <2>6, <4>5
        <5>1. PICK x : x = b - (2 + n) + q /\ x \in 1 .. m + l /\ x <= m
          BY <5>0, IndexBefore
        <5>2. f[i][x] = f[i - 1][x]
          BY <2>8, <5>1
        <5>. QED BY <4>2, <4>4, <4>5, <5>1, <5>2
      <4>7. g[j + 1] <= g[i + 1]
        BY <2>6, <2>9, <4>2, <4>4, <4>5
      <4>. QED BY <4>2, <4>4, <4>5, <4>6, <4>7
    <3>. QED BY <3>1, <3>2
  <2>11. Placed(S, n, ins, g, f, i)
    BY <2>7, <2>9, <2>10 DEF Placed
  <2>. QED BY <1>1, <2>11
<1>. QED BY <1>6, <1>7

(* What the table of offsets names is the list. *)
LEMMA ReadBack ==
  ASSUME NEW S, NEW n \in Nat, NEW ins \in [1 .. n -> Seq(S)],
         NEW g, IsPrefixSum(n, ins, n + 1, g), NEW f, IsFlat(ins, n, f),
         NEW t \in 0 .. n - 1
  PROVE  ListIn(<<n>> \o g \o f[n], t) = ins[t + 1]
<1> DEFINE U == S \cup Nat
           H == <<n>> \o g
           A == H \o f[n]
           l == ins[t + 1]
<1>1. n \in 1 .. n /\ t + 1 \in 1 .. n /\ (t + 1) + 1 = t + 2 /\ t + 1 \in 1 .. n + 1 /\ t + 2 \in 1 .. n + 1
  OBVIOUS
<1>2. Placed(S, n, ins, g, f, n)
  BY <1>1, PlaceOfList
<1>3. f[n] \in Seq(S) /\ g[n + 1] \in Nat /\ Len(f[n]) = g[n + 1] - (2 + n)
  BY <1>2 DEF Placed
<1>4. \A j \in 1 .. n : g[j] \in Nat
  BY <1>2 DEF Placed
<1>5. /\ g[t + 1] \in Nat /\ g[t + 1] >= 2 + n
      /\ g[t + 2] = g[t + 1] + Len(l) /\ g[t + 2] <= g[n + 1]
      /\ \A q \in 1 .. Len(l) : f[n][g[t + 1] - (2 + n) + q] = l[q]
  BY <1>1, <1>2 DEF Placed
<1>6. l \in Seq(S)
  BY <1>1
<1>7. PICK w \in Nat : w = Len(l)
  BY <1>6, LenProperties
<1>8. PICK a \in Nat : a = g[t + 1] /\ a >= 2 + n
  BY <1>5
<1>9. PICK z \in Nat : z = g[n + 1] /\ Len(f[n]) = z - (2 + n) /\ a + w <= z
  BY <1>3, <1>5, <1>7, <1>8
<1>10. f[n] \in Seq(U) /\ <<n>> \in Seq(U) /\ Len(<<n>>) = 1 /\ <<n>>[1] = n
  BY <1>3
<1>11. g \in [1 .. n + 1 -> U]
  <2>1. \A j \in 1 .. n + 1 : g[j] \in U
    BY <1>3, <1>4
  <2>. QED BY <2>1 DEF IsPrefixSum
<1>12. g \in Seq(U) /\ Len(g) = n + 1
  BY <1>11
<1>13. /\ H \in Seq(U) /\ Len(H) = n + 2
       /\ \A j \in 1 .. n + 1 : H[j + 1] = g[j]
  <2>1. /\ H \in Seq(U) /\ Len(H) = 1 + (n + 1)
        /\ \A i \in 1 .. 1 + (n + 1) : H[i] = IF i <= 1 THEN <<n>>[i] ELSE g[i - 1]
    BY <1>10, <1>12, ConcatProperties
  <2>2. ASSUME NEW j \in 1 .. n + 1 PROVE H[j + 1] = g[j]
    <3>1. j + 1 \in 1 .. 1 + (n + 1) /\ ~(j + 1 <= 1) /\ j + 1 - 1 = j
      OBVIOUS
    <3>. QED BY <2>1, <3>1
  <2>. QED BY <2>1, <2>2
<1> HIDE DEF H
<1>14. /\ A \in Seq(U) /\ Len(A) = (n + 2) + (z - (2 + n))
       /\ \A i \in 1 .. (n + 2) + (z - (2 + n)) : A[i] = IF i <= n + 2 THEN H[i] ELSE f[n][i - (n + 2)]
  <2>1. /\ H \o f[n] \in Seq(U) /\ Len(H \o f[n]) = Len(H) + Len(f[n])
        /\ \A i \in 1 .. Len(H) + Len(f[n]) :
               (H \o f[n])[i] = IF i <= Len(H) THEN H[i] ELSE f[n][i - Len(H)]
    BY <1>10, <1>13, ConcatProperties
  <2>. QED BY <1>9, <1>13, <2>1
<1>15. (n + 2) + (z - (2 + n)) = z
  BY <1>9
<1>16. A \in Seq(U) /\ \A i \in 1 .. z : A[i] = IF i <= n + 2 THEN H[i] ELSE f[n][i - (n + 2)]
  BY <1>14, <1>15
<1> HIDE DEF A
<1>17. A[t + 2] = a /\ A[t + 3] = a + w
  <2>1. /\ t + 2 \in 1 .. z /\ t + 2 <= n + 2 /\ t + 3 \in 1 .. z /\ t + 3 <= n + 2
    BY <1>8, <1>9
  <2>2. A[t + 2] = H[t + 2] /\ A[t + 3] = H[t + 3]
    BY <1>16, <2>1
  <2>3. (t + 2) + 1 = t + 3
    OBVIOUS
  <2>4. H[t + 2] = g[t + 1] /\ H[t + 3] = g[t + 2]
    BY <1>1, <1>13, <2>3
  <2>. QED BY <1>5, <1>7, <1>8, <2>2, <2>4
<1>18. ListIn(A, t) = SubSeq(A, a + 1, a + w)
  <2>1. (t + 1) + 1 = t + 2 /\ (t + 2) + 1 = t + 3
    OBVIOUS
  <2>. QED BY <1>17, <2>1 DEF ListIn
<1>19. ASSUME NEW q \in 1 .. w PROVE A[a + q] = l[q]
  <2>0. /\ a + q \in 1 .. z /\ ~(a + q <= n + 2)
        /\ (a + q) - (n + 2) = a - (2 + n) + q
    <3>1. a >= 2 + n /\ a + w <= z
      BY <1>8, <1>9
    <3>. QED BY <3>1, IndexAfter
  <2>1. PICK x : /\ x = a + q /\ x \in 1 .. z /\ ~(x <= n + 2)
                 /\ x - (n + 2) = a - (2 + n) + q
    BY <2>0
  <2>2. A[x] = f[n][a - (2 + n) + q]
    BY <1>16, <2>1
  <2>. QED BY <1>5, <1>7, <1>8, <2>1, <2>2
<1>20. SubSeq(A, a + 1, a + w) = l
  <2>1. PICK u \in Int : u = a + 1
    OBVIOUS
  <2>2. PICK v \in Int : v = a + w
    OBVIOUS
  <2> DEFINE s == SubSeq(A, u, v)
  <2>3. v - u + 1 = w /\ (IF u <= v THEN v - u + 1 ELSE 0) = w
    BY <2>1, <2>2
  <2>4. \A i \in u .. v : A[i] \in U
    <3> SUFFICES ASSUME NEW i \in u .. v PROVE A[i] \in U
      OBVIOUS
    <3>1. PICK q \in 1 .. w : a + q = i
      <4>1. i - a \in 1 .. w /\ a + (i - a) = i
        BY <2>1, <2>2
      <4>. QED BY <4>1
    <3>2. A[i] = l[q] /\ l[q] \in S
      BY <1>6, <1>7, <1>19, <3>1, ElementOfSeq
    <3>. QED BY <3>2
  <2> HIDE DEF U
  <2>5. /\ s \in Seq(U)
        /\ Len(s) = IF u <= v THEN v - u + 1 ELSE 0
        /\ \A i \in 1 .. v - u + 1 : s[i] = A[u + i - 1]
    BY <2>4, SubSeqProperties
  <2> HIDE DEF s
  <2>6. s \in Seq(U) /\ Len(s) = w /\ \A i \in 1 .. w : s[i] = A[u + i - 1]
    BY <2>3, <2>5
  <2>7. \A i \in 1 .. w : u + i - 1 = a + i
    BY <2>1
  <2>8. \A i \in 1 .. w : s[i] = l[i]
    BY <1>19, <2>6, <2>7
  <2>9. l \in Seq(U)
    BY <1>6 DEF U
  <2>10. s = l
    BY <1>7, <2>6, <2>8, <2>9, SeqEqual
  <2>. QED BY <2>1, <2>2, <2>10 DEF s
<1>. QED BY <1>18, <1>20 DEF l, A, H

(* The files of a kind are a power of two, and their numbers closed under xor. *)
LEMMA XorOfFiles ==
  ASSUME NEW i \in FileNo, NEW j \in FileNo
  PROVE  XorNo(i, j) \in FileNo
<1> DEFINE d == task_grid_size \div per_core_grid_size
<1>1. per_core_grid_size <= task_grid_size
  <2>1. per_core_grid_size <= cpu_grid_size * per_core_grid_size
    BY Sizes
  <2>2. cpu_grid_size * per_core_grid_size \in Nat
    BY Sizes
  <2>. QED BY <2>1, <2>2, Sizes, GridAssumption
<1>2. PowerOfTwo(d)
  BY <1>1, GridAssumption, QuotientOfPowers
<1>3. Splits(d) /\ 0 \in Nat
  BY <1>2, PowersSplit
<1>. QED BY <1>3 DEF Splits, FileNo

(* load_tg_data finds in the file of a group, by its table of offsets, the lists *)
(* that grouper.py put there.                                                    *)
LEMMA GroupFileReadsBack ==
  ASSUME NEW kind \in Kind, NEW i \in FileNo, NEW t \in 0 .. per_core_grid_size - 1
  PROVE  ListIn(GroupFile[kind][i], t) = Lists[kind][i * per_core_grid_size + t]
<1> DEFINE n == per_core_grid_size
           ins == input_files(kind, i)
           S == UNION {ToSet(Lists[kind][x]) : x \in ListNo}
           prefix == CHOOSE g : IsPrefixSum(n, ins, n + 1, g)
           flat == CHOOSE g : IsFlat(ins, n, g)
<1>1. n \in Nat \ {0}
  BY Sizes
<1>2. \A j \in 1 .. n : i * n + j - 1 \in ListNo
  <2> SUFFICES ASSUME NEW j \in 1 .. n PROVE i * n + j - 1 \in ListNo
    OBVIOUS
  <2>1. task_grid_size \in Nat /\ i \in Nat /\ i <= task_grid_size \div n - 1
    BY Sizes DEF FileNo
  <2>2. (task_grid_size \div n) * n <= task_grid_size /\ task_grid_size \div n \in Nat
    BY <1>1, <2>1, DivMod
  <2>3. PICK q \in Nat : q = task_grid_size \div n
    BY <2>2
  <2>4. (i + 1) * n <= q * n
    BY <1>1, <2>1, <2>3
  <2>5. (i + 1) * n = i * n + n /\ i * n \in Nat /\ q * n \in Nat
    BY <1>1, <2>1
  <2>. QED BY <1>1, <2>1, <2>2, <2>3, <2>4, <2>5 DEF ListNo
<1>3. ASSUME NEW x \in ListNo PROVE Lists[kind][x] \in Seq(S)
  <2>1. Lists[kind][x] \in Seq(ToSet(Lists[kind][x]))
    BY GridAssumption
  <2>2. ToSet(Lists[kind][x]) \subseteq S
    OBVIOUS
  <2> HIDE DEF S
  <2>. QED BY <2>1, <2>2
<1> HIDE DEF S
<1>4. ins \in [1 .. n -> Seq(S)] /\ Len(ins) = n
  <2>1. ins = [j \in 1 .. n |-> Lists[kind][i * n + j - 1]]
    BY DEF input_files
  <2>2. ins \in [1 .. n -> Seq(S)]
    BY <1>2, <1>3, <2>1
  <2>. QED BY <1>1, <2>2
<1>5. IsPrefixSum(n, ins, n + 1, prefix)
  <2>1. n + 1 \in Nat
    BY <1>1
  <2>. QED BY <2>1, PrefixExists, Zenon
<1>6. IsFlat(ins, n, flat)
  BY <1>1, FlatExists, Zenon
<1>7. FlattenSeq(ins) = flat[n]
  <2>1. FlattenSeq(ins) = (CHOOSE g : IsFlat(ins, Len(ins), g))[Len(ins)]
    BY <1>1, <1>4 DEF FlattenSeq, IsFlat, FlatBy
  <2>. QED BY <1>4, <2>1
<1>8. GroupFile[kind][i] = <<n>> \o prefix \o flat[n]
  <2>1. GroupFile[kind][i] = <<n>> \o prefix \o FlattenSeq(ins)
    BY <1>4 DEF GroupFile, IsPrefixSum, PrefixBy
  <2>. QED BY <1>7, <2>1
<1>t. t \in 0 .. n - 1
  OBVIOUS
<1> HIDE DEF n, ins, prefix, flat
<1>9. ListIn(GroupFile[kind][i], t) = ins[t + 1]
  <2>1. n \in Nat /\ ins \in [1 .. n -> Seq(S)]
    BY <1>1, <1>4
  <2>2. ListIn(<<n>> \o prefix \o flat[n], t) = ins[t + 1]
    BY <2>1, <1>t, <1>5, <1>6, ReadBack
  <2>. QED BY <1>8, <2>2, Zenon
<1>10. ins[t + 1] = Lists[kind][i * n + t]
  <2>1. t + 1 \in 1 .. n /\ i \in Nat /\ i * n \in Nat /\ i * n + (t + 1) - 1 = i * n + t
    BY <1>1, <1>t DEF FileNo
  <2>2. ins = [j \in 1 .. n |-> Lists[kind][i * n + j - 1]]
    BY DEF input_files, ins, n
  <2>. QED BY <2>1, <2>2
<1>. QED BY <1>9, <1>10 DEF n

-----------------------------------------------------------------------------
(* What the tasks of a group find. *)

(* Rank r's part of a group is the solutions of its square of tasks. *)
LEMMA PartIs ==
  ASSUME NEW g \in Group, NEW r \in Rank, NEW s
  PROVE  s \in Part(g, r) <=>
            \E a, b \in 0 .. per_core_grid_size - 1 :
                s \in Task((tg_i(g) * cpu_grid_size + cpu_i(r)) * per_core_grid_size + a,
                           (tg_j(g) * cpu_grid_size + cpu_j(r)) * per_core_grid_size + b)
<1> DEFINE c == cpu_grid_size
           p == per_core_grid_size
           i == tg_i(g) * c + cpu_i(r)
           j == tg_j(g) * c + cpu_j(r)
           L == load_tg_data(g, r)
<1>1. i \in FileNo /\ j \in FileNo
  BY GroupPlace, RankPlace, InSquare
<1>2. tg_task_base(g, r) = <<i, j, XorNo(i, j)>>
  BY DEF tg_task_base
<1> HIDE DEF i, j
<1>3. \A t \in 0 .. p - 1 :
         /\ ToSet(L[0][t]) = ToSet(Lists[0][i * p + t])
         /\ ToSet(L[1][t]) = ToSet(Lists[1][j * p + t])
         /\ ToSet(L[2][t]) = ToSet(Lists[2][XorNo(i, j) * p + t])
  <2>0. XorNo(i, j) \in FileNo
    BY <1>1, XorOfFiles
  <2>1. \A kind \in Kind, t \in 0 .. p - 1 : L[kind][t] = Lists[kind][tg_task_base(g, r)[kind + 1] * p + t]
    <3> SUFFICES ASSUME NEW kind \in Kind, NEW t \in 0 .. p - 1
                 PROVE  L[kind][t] = Lists[kind][tg_task_base(g, r)[kind + 1] * p + t]
      OBVIOUS
    <3>1. L[kind][t] = ListIn(GroupFile[kind][tg_task_base(g, r)[kind + 1]], t)
      BY DEF load_tg_data
    <3>2. tg_task_base(g, r)[kind + 1] \in FileNo
      <4>1. kind = 0 \/ kind = 1 \/ kind = 2
        BY DEF Kind
      <4>. QED BY <1>1, <1>2, <2>0, <4>1
    <3>. QED BY <3>1, <3>2, GroupFileReadsBack
  <2>2. 0 \in Kind /\ 1 \in Kind /\ 2 \in Kind
    BY DEF Kind
  <2>3. /\ tg_task_base(g, r)[0 + 1] = i /\ tg_task_base(g, r)[1 + 1] = j
        /\ tg_task_base(g, r)[2 + 1] = XorNo(i, j)
    BY <1>2
  <2>. QED BY <2>1, <2>2, <2>3
<1>4. ASSUME NEW a \in 0 .. p - 1, NEW b \in 0 .. p - 1
      PROVE  iterated_joux_task(L[0][a], L[1][b], L[2][SlicesOf(a, b)], tg_task_idx(g, r, a, b))
                 = Task(i * p + a, j * p + b)
  <2>1. tg_task_idx(g, r, a, b) = <<i * p + a, j * p + b, XorNo(i * p + a, j * p + b)>>
    BY <1>2 DEF tg_task_idx
  <2>2. /\ XorNo(a, b) \in 0 .. p - 1
        /\ XorNo(i * p + a, j * p + b) = XorNo(i, j) * p + XorNo(a, b)
    BY <1>1, XorNoSplits
  <2>3. ToSet(L[2][SlicesOf(a, b)]) = ToSet(Lists[2][XorNo(i * p + a, j * p + b)])
    BY <1>3, <2>2 DEF SlicesOf
  <2>4. ToSet(L[0][a]) = ToSet(Lists[0][i * p + a]) /\ ToSet(L[1][b]) = ToSet(Lists[1][j * p + b])
    BY <1>3
  <2>. QED BY <2>1, <2>3, <2>4 DEF iterated_joux_task, Task
<1>5. Part(g, r) =
        UNION {iterated_joux_task(L[0][t[1]], L[1][t[2]], L[2][SlicesOf(t[1], t[2])],
                                  tg_task_idx(g, r, t[1], t[2]))
               : t \in (0 .. p - 1) \X (0 .. p - 1)}
  BY DEF Part, tg_task_work
<1>6. ASSUME s \in Part(g, r)
      PROVE  \E a, b \in 0 .. p - 1 : s \in Task(i * p + a, j * p + b)
  <2>1. PICK t \in (0 .. p - 1) \X (0 .. p - 1) :
            s \in iterated_joux_task(L[0][t[1]], L[1][t[2]], L[2][SlicesOf(t[1], t[2])],
                                     tg_task_idx(g, r, t[1], t[2]))
    BY <1>5, <1>6
  <2>2. t[1] \in 0 .. p - 1 /\ t[2] \in 0 .. p - 1
    OBVIOUS
  <2>. QED BY <1>4, <2>1, <2>2
<1>7. ASSUME NEW a \in 0 .. p - 1, NEW b \in 0 .. p - 1, s \in Task(i * p + a, j * p + b)
      PROVE  s \in Part(g, r)
  <2>1. s \in iterated_joux_task(L[0][a], L[1][b], L[2][SlicesOf(a, b)], tg_task_idx(g, r, a, b))
    BY <1>4, <1>7
  <2>2. <<a, b>> \in (0 .. p - 1) \X (0 .. p - 1) /\ <<a, b>>[1] = a /\ <<a, b>>[2] = b
    OBVIOUS
  <2>. QED BY <1>5, <2>1, <2>2
<1>. QED BY <1>6, <1>7 DEF i, j

(* All the ranks together find the solutions of a group, all of them and no other. *)
LEMMA ResultIsWhole ==
  ASSUME NEW g \in Group
  PROVE  Result(g) = Whole(g)
<1> DEFINE X(r, a) == (tg_i(g) * cpu_grid_size + cpu_i(r)) * per_core_grid_size + a
           Y(r, b) == (tg_j(g) * cpu_grid_size + cpu_j(r)) * per_core_grid_size + b
<1>1. tg_i(g) \in 0 .. tg_grid_size - 1 /\ tg_j(g) \in 0 .. tg_grid_size - 1
  BY GroupPlace
<1>2. Whole(g) = {s \in Solution : s[1][1] \div side = tg_i(g) /\ s[1][2] \div side = tg_j(g)}
  BY DEF Whole, side
<1>3. \A r \in Rank, a, b \in 0 .. per_core_grid_size - 1 :
         /\ X(r, a) \in ListNo /\ X(r, a) \div side = tg_i(g)
         /\ Y(r, b) \in ListNo /\ Y(r, b) \div side = tg_j(g)
  BY <1>1, RankPlace, InSquare
<1> HIDE DEF X, Y
<1>4. ASSUME NEW s \in Result(g) PROVE s \in Whole(g)
  <2>1. PICK r \in Rank : s \in Part(g, r)
    BY DEF Result
  <2>2. PICK a, b \in 0 .. per_core_grid_size - 1 : s \in Task(X(r, a), Y(r, b))
    BY <2>1, PartIs DEF X, Y
  <2>3. s \in Solution /\ s[1][1] = X(r, a) /\ s[1][2] = Y(r, b)
    BY <1>3, <2>2, TaskSolutions
  <2>. QED BY <1>2, <1>3, <2>3
<1>5. ASSUME NEW s \in Whole(g) PROVE s \in Result(g)
  <2>1. s \in Solution /\ s[1][1] \div side = tg_i(g) /\ s[1][2] \div side = tg_j(g)
    BY <1>2
  <2>2. s[1][1] \in ListNo /\ s[1][2] \in ListNo
    BY <2>1, SolutionIndex
  <2>3. PICK a \in 0 .. cpu_grid_size - 1, d \in 0 .. per_core_grid_size - 1 :
            s[1][1] = (tg_i(g) * cpu_grid_size + a) * per_core_grid_size + d
    BY <1>1, <2>1, <2>2, InSquare
  <2>4. PICK b \in 0 .. cpu_grid_size - 1, e \in 0 .. per_core_grid_size - 1 :
            s[1][2] = (tg_j(g) * cpu_grid_size + b) * per_core_grid_size + e
    BY <1>1, <2>1, <2>2, InSquare
  <2>5. PICK r \in Rank : cpu_i(r) = a /\ cpu_j(r) = b
    BY RankPlace
  <2>6. s[1][1] = X(r, d) /\ s[1][2] = Y(r, e)
    BY <2>3, <2>4, <2>5 DEF X, Y
  <2>7. s \in Task(X(r, d), Y(r, e))
    BY <1>3, <2>1, <2>6, TaskSolutions
  <2>8. s \in Part(g, r)
    BY <2>7, PartIs DEF X, Y
  <2>. QED BY <2>8 DEF Result
<1>. QED BY <1>4, <1>5

(* No task is left out by the way the grid is cut. *)
LEMMA WholesAreAll == UNION {Whole(g) : g \in Group} = Solution
<1>1. ASSUME NEW s \in Solution PROVE \E g \in Group : s \in Whole(g)
  <2>1. s[1][1] \in ListNo /\ s[1][2] \in ListNo
    BY SolutionIndex
  <2>2. /\ s[1][1] \div side \in 0 .. tg_grid_size - 1
        /\ s[1][2] \div side \in 0 .. tg_grid_size - 1
    <3>1. \A x \in ListNo : x \in 0 .. side * tg_grid_size - 1
      BY Squares DEF ListNo
    <3>. QED BY <2>1, <3>1, Squares, Sizes, DivBelow
  <2>3. PICK g \in Group : tg_i(g) = s[1][1] \div side /\ tg_j(g) = s[1][2] \div side
    BY <2>2, GroupPlace
  <2>. QED BY <2>3 DEF Whole, side
<1>. QED BY <1>1 DEF Whole

-----------------------------------------------------------------------------

(* What ranks find is what there is to find. *)
LEMMA InvFiles == IInv => FilesExact
<1> SUFFICES ASSUME IInv PROVE FilesExact
  OBVIOUS
<1>1. \A g \in Group : Result(g) = Whole(g)
  BY ResultIsWhole
<1>2. Found = Solution
  BY <1>1, WholesAreAll DEF Found
<1>3. \A g \in Group : disk[g] = NoFile \/ \E part \in SUBSET Whole(g) : disk[g] = FileOf(part)
  BY <1>1 DEF IInv, DiskInv
<1>4. NoForeignSolutions
  <2> SUFFICES ASSUME NEW g \in Group PROVE UNION disk[g] \subseteq Whole(g)
    BY DEF NoForeignSolutions
  <2>. QED BY <1>3 DEF NoFile, FileOf
<1>5. LeftIsWhole
  BY <1>1 DEF LeftIsWhole, IInv, DiskInv
<1>6. TypeOK
  <2>1. \A g \in Group : disk[g] \subseteq SUBSET Solution
    BY <1>2 DEF IInv, TypeInv
  <2>2. ASSUME NEW g \in Group PROVE Cardinality(disk[g]) <= 1
    <3>1. CASE disk[g] = NoFile
      <4>1. Cardinality(disk[g]) = 0
        BY <3>1, FS_EmptySet DEF NoFile
      <4>. QED BY <4>1
    <3>2. CASE disk[g] # NoFile
      <4>1. PICK part : disk[g] = {part}
        BY <1>3, <3>2 DEF FileOf
      <4>2. Cardinality(disk[g]) = 1
        BY <4>1, FS_Singleton
      <4>. QED BY <4>2
    <3>. QED BY <3>1, <3>2
  <2>. QED BY <1>2, <2>1, <2>2 DEF IInv, TypeInv, TypeOK, Label
<1>7. GridCovered
  <2> SUFFICES ASSUME Finished, crashes = 0
               PROVE  UNION (UNION {disk[g] : g \in Group}) = Solution
    BY DEF GridCovered
  <2>1. skipped = {}
    BY DEF IInv, FirstRunInv
  <2>2. k[0] = njobs * tg_per_job
    <3>1. pc[0] = "done" /\ job = njobs - 1
      BY Sizes DEF Finished, Running
    <3>2. k[0] = tg_to(job)
      BY <3>1, Sizes DEF IInv, ControlInv, PlaceInv
    <3>. QED BY <3>1, <3>2, LastJob
  <2>3. \A g \in Group : g < k[0]
    <3>1. njobs * tg_per_job \in Nat
      BY Sizes
    <3>. QED BY <2>2, <3>1 DEF Group
  <2>4. \A g \in Group : disk[g] = {Whole(g)}
    BY <1>5, <2>1, <2>3 DEF LeftIsWhole, FileOf
  <2>5. UNION {disk[g] : g \in Group} = {Whole(g) : g \in Group}
    BY <2>4
  <2>. QED BY <2>5, WholesAreAll
<1>. QED BY <1>4, <1>5, <1>6, <1>7 DEF FilesExact

(* Files hold what they should, whenever a job dies and whatever it leaves behind: *)
(* nothing of another group, all of a group that rank 0 has worked on and left,    *)
(* and after a run without a crash together every 3XOR of the lists.               *)
THEOREM FilesExactHolds == Spec => []FilesExact
<1>1. IInv => FilesExact
  BY InvFiles
<1>. QED BY <1>1, Invariant, PTL

=============================================================================
