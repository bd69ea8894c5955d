---------------------------- MODULE MergerProofs ----------------------------
(* Proofs about Merger, for any number of inputs, any dictionaries and any      *)
(* sizes of the buffers.                                                        *)
EXTENDS Merger, FiniteSetTheorems, SequenceTheorems, WellFoundedInduction, TLAPS

(* The inputs are numbered from 0, and 0 and P - 1 are two of them. *)
LEMMA InputType ==
  ASSUME files \in Inputs
  PROVE  /\ P \in Nat \ {0}
         /\ Input = 0 .. P - 1
         /\ 0 \in Input
         /\ files \in [Input -> Seq(dict_t)]
<1> DEFINE n == Cardinality(DOMAIN files)
<1>1. /\ IsFiniteSet(DOMAIN files)
      /\ n > 0
      /\ DOMAIN files = 0 .. n - 1
      /\ files \in [DOMAIN files -> Seq(dict_t)]
  BY MergerAssumption
<1>2. n \in Nat
  BY <1>1, FS_CardinalityType
<1>3. P = n /\ Input = 0 .. P - 1
  BY <1>1 DEF P, Input
<1>. QED BY <1>1, <1>2, <1>3 DEF Input

(* The entry that the program starts with is one. *)
LEMMA ZeroType == Zero \in dict_t /\ Zero.hash = 0
  BY MergerAssumption DEF Zero, dict_t, Hash

(* What is left of a sequence after some elements is a sequence, and so are the elements. *)
LEMMA SubSeqType ==
  ASSUME NEW S, NEW s \in Seq(S), NEW m \in Nat \ {0}, NEW n \in Nat, n <= Len(s)
  PROVE  SubSeq(s, m, n) \in Seq(S)
  BY SubSeqProperties

(* A refilled buffer holds entries. *)
LEMMA RefilledType ==
  ASSUME TypeOK, NEW j \in Input PROVE Refilled(j) \in Seq(dict_t)
<1>1. buffer_in[j] \in Seq(dict_t) /\ f_in[j] \in Seq(dict_t) /\ Len(f_in[j]) \in Nat
  BY DEF TypeOK
<1>2. CASE Len(f_in[j]) < IN_BUFFER_SIZE
  BY <1>1, <1>2, SubSeqType DEF Refilled
<1>3. CASE ~(Len(f_in[j]) < IN_BUFFER_SIZE)
  BY <1>1, <1>3, SubSeqType, MergerAssumption DEF Refilled
<1>. QED BY <1>2, <1>3

(* Every index stays inside its array and every buffer inside its size. *)
LEMMA TypeStep == TypeOK /\ [Next]_vars => TypeOK'
<1> SUFFICES ASSUME TypeOK, [Next]_vars PROVE TypeOK'
  OBVIOUS
<1> USE MergerAssumption
<1>0. P \in Nat \ {0} /\ Input = 0 .. P - 1 /\ 0 \in Input
  BY InputType DEF TypeOK
<1>a. ASSUME files' = files PROVE Input' = Input
  BY <1>a DEF Input
<1>1. ASSUME Emit PROVE TypeOK'
  <2>1. Q.hash \in Hash /\ f_out \o buffer_out \in Seq(Hash)
    BY DEF TypeOK, dict_t
  <2> DEFINE room == IF Full THEN << >> ELSE buffer_out
  <2>2. room \in Seq(Hash) /\ Len(room) < OUT_BUFFER_SIZE
    <3>1. CASE Full
      BY <3>1
    <3>2. CASE ~Full
      BY <3>2 DEF TypeOK, Full
    <3>. QED BY <3>1, <3>2
  <2>3. buffer_out' \in Seq(Hash) /\ Len(buffer_out') <= OUT_BUFFER_SIZE
    <3>1. buffer_out' = IF Q.hash # Q_prev.hash THEN Append(room, Q.hash) ELSE room
      BY <1>1 DEF Emit
    <3> HIDE DEF room
    <3>2. /\ Append(room, Q.hash) \in Seq(Hash)
          /\ Len(Append(room, Q.hash)) = Len(room) + 1
          /\ Len(room) \in Nat
      BY <2>1, <2>2
    <3>. QED BY <2>2, <3>1, <3>2
  <2>4. f_out' \in Seq(Hash)
    BY <1>1, <2>1 DEF Emit, TypeOK
  <2>5. collisions' \in Nat /\ duplicates' \in Nat
    BY <1>1 DEF Emit, TypeOK
  <2>. QED BY <1>1, <1>a, <2>3, <2>4, <2>5 DEF Emit, TypeOK
<1>2. ASSUME Fetch PROVE TypeOK'
  <2>1. i \in Input /\ f_in[i] \in Seq(dict_t) /\ Len(f_in[i]) \in Nat /\ Refilled(i) \in Seq(dict_t)
    BY RefilledType DEF TypeOK
  <2>2. f_in' \in [Input -> Seq(dict_t)]
    BY <1>2, <2>1, SubSeqType DEF Fetch, TypeOK
  <2>3. Q' \in dict_t /\ buffer_in' \in [Input -> Seq(dict_t)]
    <3>1. CASE Refilled(i) = << >>
      <4>1. Q' = [Q EXCEPT !.hash = SENTINEL] /\ buffer_in' = buffer_in
        BY <1>2, <3>1 DEF Fetch
      <4>2. SENTINEL \in Hash
        BY DEF Hash
      <4>. QED BY <4>1, <4>2 DEF TypeOK, dict_t
    <3>2. CASE Refilled(i) # << >>
      <4>1. Head(Refilled(i)) \in dict_t /\ Tail(Refilled(i)) \in Seq(dict_t)
        BY <2>1, <3>2
      <4>. QED BY <1>2, <2>1, <3>2, <4>1 DEF Fetch, TypeOK
    <3>. QED BY <3>1, <3>2
  <2>4. T' \in Input
    BY <1>2, <1>0, <2>1 DEF Fetch, Leaf
  <2>. QED BY <1>2, <1>a, <2>2, <2>3, <2>4 DEF Fetch, TypeOK
<1>3. ASSUME Play PROVE TypeOK'
  <2>1. T \in Input /\ loser[T] \in dict_t /\ origin[T] \in Input
    BY DEF TypeOK
  <2>2. T' \in Input
    BY <1>3, <1>0, <2>1 DEF Play, Parent
  <2>3. loser' \in [Input -> dict_t] /\ origin' \in [Input -> Input] /\ Q' \in dict_t /\ i' \in Input
    <3>1. CASE loser[T].hash < Q.hash
      <4>1. /\ loser' = [loser EXCEPT ![T] = Q]
            /\ origin' = [origin EXCEPT ![T] = i]
            /\ Q' = loser[T] /\ i' = origin[T]
        BY <1>3, <3>1 DEF Play, OriginSwapped
      <4>2. loser' \in [Input -> dict_t]
        BY <4>1 DEF TypeOK
      <4>3. origin' \in [Input -> Input]
        BY <4>1 DEF TypeOK
      <4>. QED BY <2>1, <4>1, <4>2, <4>3
    <3>2. CASE ~(loser[T].hash < Q.hash)
      BY <1>3, <3>2 DEF Play, TypeOK
    <3>. QED BY <3>1, <3>2
  <2>. QED BY <1>3, <1>a, <2>2, <2>3 DEF Play, TypeOK
<1>4. ASSUME Champion PROVE TypeOK'
  BY <1>4, <1>a DEF Champion, TypeOK
<1>5. ASSUME Finish PROVE TypeOK'
  BY <1>5, <1>a DEF Finish, TypeOK
<1>6. ASSUME UNCHANGED vars PROVE TypeOK'
  BY <1>6, <1>a DEF vars, TypeOK
<1>. QED BY <1>1, <1>2, <1>3, <1>4, <1>5, <1>6 DEF Next, Step, Exited

(* The initial state has its type. *)
LEMMA TypeInit == Init => TypeOK
<1> SUFFICES ASSUME Init PROVE TypeOK
  OBVIOUS
<1>1. Input = 0 .. P - 1 /\ 0 \in Input /\ files \in [Input -> Seq(dict_t)]
  BY InputType DEF Init
<1>. QED BY <1>1, ZeroType, MergerAssumption DEF Init, TypeOK

(* merger.c stays inside its arrays and buffers: the nodes a fetched entry plays   *)
(* at, the input that is read next, and a full output buffer that is written out   *)
(* before the next hash is stored.                                                 *)
THEOREM TypeCorrect == Spec => []TypeOK
  BY TypeInit, TypeStep, PTL DEF Spec

-----------------------------------------------------------------------------
(* Only Play moves entries between the nodes, and it exchanges two. *)
LEMMA PlaysStep == TypeOK /\ EveryInputPlays /\ [Next]_vars => EveryInputPlays'
<1> SUFFICES ASSUME TypeOK, EveryInputPlays, [Next]_vars PROVE EveryInputPlays'
  OBVIOUS
<1>1. ASSUME files' = files, origin' = origin, i' = i PROVE EveryInputPlays'
  BY <1>1 DEF EveryInputPlays, Input
<1>2. ASSUME Play PROVE EveryInputPlays'
  <2>1. T \in Input /\ T # 0 /\ Input' = Input
    BY <1>2, InputType DEF Play, TypeOK, Input
  <2>2. CASE origin' = OriginSwapped(T) /\ i' = origin[T]
    <3>1. \A t \in Input : origin'[t] = IF t = T THEN i ELSE origin[t]
      BY <2>1, <2>2 DEF OriginSwapped, TypeOK
    <3>2. {i'} \cup {origin'[t] : t \in Input' \ {0}} = Input'
      BY <2>1, <2>2, <3>1 DEF EveryInputPlays
    <3>3. \A t, s \in Input \ {0} : origin'[t] # i' /\ (origin'[t] = origin'[s] => t = s)
      BY <2>1, <2>2, <3>1 DEF EveryInputPlays
    <3>. QED BY <2>1, <3>2, <3>3 DEF EveryInputPlays
  <2>3. CASE origin' = origin /\ i' = i
    BY <1>1, <1>2, <2>3 DEF Play
  <2>. QED BY <1>2, <2>2, <2>3 DEF Play
<1>. QED BY <1>1, <1>2 DEF Next, Step, Exited, Emit, Fetch, Champion, Finish, vars

(* The tree starts with the entry of input t at node t and Q for input 0. *)
LEMMA PlaysInit == Init => EveryInputPlays
<1> SUFFICES ASSUME Init PROVE EveryInputPlays
  OBVIOUS
<1>1. 0 \in Input /\ \A t \in Input : origin[t] = t
  BY InputType DEF Init
<1>. QED BY <1>1 DEF Init, EveryInputPlays

(* However the entries are exchanged, every input keeps exactly one entry in the   *)
(* tree of losers: none is forgotten and none is read twice as fast.               *)
THEOREM InputsPlay == Spec => []EveryInputPlays
<1>1. Init => TypeOK /\ EveryInputPlays
  BY TypeInit, PlaysInit
<1>2. TypeOK /\ EveryInputPlays /\ [Next]_vars => TypeOK' /\ EveryInputPlays'
  BY TypeStep, PlaysStep
<1>. QED BY <1>1, <1>2, PTL DEF Spec

-----------------------------------------------------------------------------
(* The tree: node n has nodes 2n and 2n + 1 below it, nodes 1 to P - 1 hold *)
(* losers, and the leaf of input j is node P + j.                           *)

Node == 1 .. 2 * P - 1
Losers == Input \ {0}
LeafOf(j) == P + j
DownClosed(S) == \A m \in S : m < P => 2 * m \in S /\ 2 * m + 1 \in S

(* The nodes at and below node t. *)
Sub(t) == {n \in Node : \A S \in SUBSET Node : t \in S /\ DownClosed(S) => n \in S}

(* A set of numbers has a least one. *)
LEMMA Least ==
  ASSUME NEW X \in SUBSET Nat, X # {}
  PROVE  \E m \in X : \A n \in X : m <= n
<1> DEFINE R == {ss \in Nat \X Nat : ss[1] < ss[2]}
<1>1. IsWellFoundedOn(R, Nat)
  BY NatLessThanWellFounded DEF OpToRel
<1>2. \A x, y \in Nat : x < y => <<x, y>> \in R
  OBVIOUS
<1> HIDE DEF R
<1>3. PICK m \in X : \A n \in X : ~(<<n, m>> \in R)
  BY <1>1, WFMin
<1>4. ASSUME NEW n \in X PROVE m <= n
  <2>1. n \in Nat /\ m \in Nat
    OBVIOUS
  <2>2. ~(n < m)
    BY <1>2, <1>3, <2>1
  <2>. QED BY <2>1, <2>2
<1>. QED BY <1>4

(* Numbers of nodes. *)
LEMMA Nodes ==
  ASSUME files \in Inputs
  PROVE  /\ P \in Nat \ {0} /\ Losers = 1 .. P - 1 /\ Losers \subseteq Node /\ 1 \in Node
         /\ \A j \in Input : LeafOf(j) \in Node /\ LeafOf(j) >= P
         /\ \A t \in Losers : 2 * t \in Node /\ 2 * t + 1 \in Node
         /\ \A n \in Node : n < P => n \in Losers
<1>1. P \in Nat \ {0} /\ Input = 0 .. P - 1
  BY InputType
<1>. QED BY <1>1 DEF Losers, Node, LeafOf

(* What is at or below a node: itself, and what is at or below the two under it. *)
LEMMA SubIs ==
  ASSUME files \in Inputs, NEW t \in Node
  PROVE  /\ t \in Sub(t) /\ DownClosed(Sub(t))
         /\ \A s \in Sub(t) : Sub(s) \subseteq Sub(t)
         /\ t < P => Sub(t) = {t} \cup Sub(2 * t) \cup Sub(2 * t + 1)
         /\ t >= P => Sub(t) = {t}
<1>0. P \in Nat \ {0} /\ \A n \in Node : n \in Nat
  BY Nodes DEF Node
<1>1. \A n \in Node : n \in Sub(n)
  BY DEF Sub
<1>2. ASSUME NEW n \in Node PROVE DownClosed(Sub(n))
  <2> SUFFICES ASSUME NEW m \in Sub(n), m < P PROVE 2 * m \in Sub(n) /\ 2 * m + 1 \in Sub(n)
    BY DEF DownClosed
  <2>1. m \in Losers /\ 2 * m \in Node /\ 2 * m + 1 \in Node
    BY Nodes DEF Sub
  <2>. QED BY <2>1 DEF Sub, DownClosed
<1>3. ASSUME NEW n \in Node, NEW S \in SUBSET Node, n \in S, DownClosed(S) PROVE Sub(n) \subseteq S
  BY <1>3 DEF Sub
<1>4. ASSUME NEW s \in Sub(t) PROVE Sub(s) \subseteq Sub(t)
  <2>1. s \in Node /\ Sub(t) \in SUBSET Node
    BY DEF Sub
  <2>. QED BY <1>2, <1>3, <2>1
<1>5. ASSUME t < P PROVE Sub(t) = {t} \cup Sub(2 * t) \cup Sub(2 * t + 1)
  <2>1. 2 * t \in Node /\ 2 * t + 1 \in Node
    BY <1>5, Nodes
  <2> DEFINE S == {t} \cup Sub(2 * t) \cup Sub(2 * t + 1)
  <2>2. S \in SUBSET Node
    BY <2>1 DEF Sub
  <2>3. DownClosed(S)
    BY <1>1, <1>2, <2>1 DEF DownClosed
  <2>4. Sub(t) \subseteq S
    BY <1>3, <2>2, <2>3
  <2>5. 2 * t \in Sub(t) /\ 2 * t + 1 \in Sub(t)
    BY <1>1, <1>2, <1>5 DEF DownClosed
  <2>6. S \subseteq Sub(t)
    BY <1>1, <1>4, <2>5
  <2>. QED BY <2>4, <2>6
<1>6. ASSUME t >= P PROVE Sub(t) = {t}
  <2>1. DownClosed({t})
    BY <1>0, <1>6 DEF DownClosed
  <2>. QED BY <1>1, <1>3, <2>1
<1>. QED BY <1>1, <1>2, <1>4, <1>5, <1>6

(* A node is not below the ones under it. *)
LEMMA Above ==
  ASSUME files \in Inputs, NEW t \in Losers, NEW c \in {2 * t, 2 * t + 1}
  PROVE  t \notin Sub(c)
<1>1. P \in Nat \ {0} /\ t \in Nat /\ t > 0 /\ c \in Node /\ c > t
  BY Nodes DEF Node
<1> DEFINE S == {n \in Node : n >= c}
<1>2. DownClosed(S)
  BY <1>1 DEF Node, DownClosed
<1>3. c \in S /\ S \in SUBSET Node /\ t \notin S
  BY <1>1 DEF Node
<1>. QED BY <1>2, <1>3 DEF Sub

(* All nodes are below node 1. *)
LEMMA Root ==
  ASSUME files \in Inputs
  PROVE  Node \subseteq Sub(1)
<1> DEFINE X == Node \ Sub(1)
<1>0. P \in Nat \ {0} /\ 1 \in Node
  BY Nodes
<1> SUFFICES ASSUME X # {} PROVE FALSE
  OBVIOUS
<1>1. X \in SUBSET Nat
  BY DEF Node
<1>2. PICK n \in X : \A m \in X : n <= m
  BY <1>1, Least
<1>3. n # 1 /\ n \in 1 .. 2 * P - 1
  BY <1>0, SubIs DEF Node
<1> DEFINE h == n \div 2
<1>4. h \in Nat /\ h > 0 /\ h < n /\ h < P /\ (n = 2 * h \/ n = 2 * h + 1)
  BY <1>0, <1>3
<1> HIDE DEF h
<1>5. h \in Node
  BY <1>0, <1>4 DEF Node
<1>6. h \in Sub(1)
  BY <1>2, <1>3, <1>4, <1>5
<1>7. n \in Sub(1)
  BY <1>0, <1>4, <1>6, SubIs DEF DownClosed
<1>. QED BY <1>7


(* What holds on the side c of node s that its loser came from: everything is at *)
(* least as large, and every input has its entry there.                          *)
Side(s, c) ==
    /\ LeafOf(origin[s]) \in Sub(c)
    /\ \A d \in Losers \cap Sub(c) : loser[s].hash <= loser[d].hash
    /\ \A j \in Input : LeafOf(j) \in Sub(c) => \E d \in Losers \cap (Sub(c) \cup {s}) : origin[d] = j

(* Q has won at node c and below. *)
Winner(c) ==
    /\ LeafOf(i) \in Sub(c)
    /\ \A d \in Losers \cap Sub(c) : Q.hash <= loser[d].hash
    /\ \A j \in Input \ {i} : LeafOf(j) \in Sub(c) => \E d \in Losers \cap Sub(c) : origin[d] = j

(* The tree of losers.  An entry of hash 0 may be anywhere, since the tree starts *)
(* with such entries only and in any order.  Q is on its way from a node where it *)
(* has won to the node above, and at the top it is the least.                     *)
TreeInv == \A s \in Losers : loser[s].hash > 0 => \E c \in {2 * s, 2 * s + 1} : Side(s, c)
SiftInv == pc = "sift" /\ Q.hash > 0 => \E c \in Node : c \div 2 = T /\ Winner(c)
LeastInv == pc \in {"emit", "done"} => \A t \in Losers : Q.hash <= loser[t].hash

Tree == TypeOK /\ EveryInputPlays /\ TreeInv /\ SiftInv /\ LeastInv

(* The side a loser came from is not that of Q: the input of Q would have its entry there. *)
LEMMA OtherSide ==
  ASSUME Tree, NEW s \in Losers, NEW c, Side(s, c)
  PROVE  LeafOf(i) \notin Sub(c)
<1> SUFFICES ASSUME LeafOf(i) \in Sub(c) PROVE FALSE
  OBVIOUS
<1>1. i \in Input
  BY DEF Tree, TypeOK
<1>2. PICK d \in Losers \cap (Sub(c) \cup {s}) : origin[d] = i
  BY <1>1 DEF Side
<1>. QED BY <1>2 DEF Tree, EveryInputPlays, Losers

(* Hashes are numbers. *)
LEMMA HashType ==
  ASSUME TypeOK
  PROVE  Q.hash \in Nat /\ Q_prev.hash \in Nat /\ \A d \in Losers : loser[d].hash \in Nat
  BY MergerAssumption DEF TypeOK, Losers, dict_t, Hash

(* Whoever wins at node T, Q or the loser that is there, has won at T and below. *)
LEMMA Match ==
  ASSUME Tree, pc = "sift", T \in Losers, Q.hash > 0, loser[T].hash > 0
  PROVE  /\ LeafOf(i) \in Sub(T) /\ LeafOf(origin[T]) \in Sub(T)
         /\ loser[T].hash < Q.hash => \A d \in Losers \cap Sub(T) : loser[T].hash <= loser[d].hash
         /\ ~(loser[T].hash < Q.hash) => \A d \in Losers \cap Sub(T) : Q.hash <= loser[d].hash
         /\ \A j \in Input \ {i} : LeafOf(j) \in Sub(T) => \E d \in Losers \cap Sub(T) : origin[d] = j
<1>1. PICK c \in Node : c \div 2 = T /\ Winner(c)
  BY DEF Tree, SiftInv
<1>2. files \in Inputs /\ P \in Nat \ {0} /\ T \in Node /\ T < P /\ T \in Nat
  BY Nodes DEF Tree, TypeOK
<1>3. c \in {2 * T, 2 * T + 1}
  BY <1>1, <1>2 DEF Node
<1>4. PICK e \in {2 * T, 2 * T + 1} : Side(T, e)
  BY DEF Tree, TreeInv
<1>5. Sub(T) = {T} \cup Sub(c) \cup Sub(e)
  <2>1. c # e
    BY <1>1, <1>4, OtherSide DEF Winner
  <2>2. Sub(T) = {T} \cup Sub(2 * T) \cup Sub(2 * T + 1)
    BY <1>2, SubIs
  <2>. QED BY <1>3, <2>1, <2>2
<1>6. \A j \in Input : LeafOf(j) # T
  BY <1>2, Nodes
<1>7. Q.hash \in Nat /\ \A d \in Losers : loser[d].hash \in Nat
  BY HashType DEF Tree
<1>8. ASSUME NEW d \in Losers \cap Sub(T)
      PROVE  /\ loser[T].hash < Q.hash => loser[T].hash <= loser[d].hash
             /\ ~(loser[T].hash < Q.hash) => Q.hash <= loser[d].hash
  <2>1. CASE d = T
    BY <1>7, <2>1
  <2>2. CASE d \in Sub(c)
    <3>1. Q.hash <= loser[d].hash
      BY <1>1, <2>2 DEF Winner
    <3>. QED BY <1>7, <3>1
  <2>3. CASE d \in Sub(e)
    <3>1. loser[T].hash <= loser[d].hash
      BY <1>4, <2>3 DEF Side
    <3>. QED BY <1>7, <3>1
  <2>. QED BY <1>5, <2>1, <2>2, <2>3
<1>9. ASSUME NEW j \in Input \ {i}, LeafOf(j) \in Sub(T)
      PROVE  \E d \in Losers \cap Sub(T) : origin[d] = j
  <2>1. CASE LeafOf(j) \in Sub(c)
    BY <1>1, <1>5, <2>1 DEF Winner
  <2>2. CASE LeafOf(j) \in Sub(e)
    BY <1>4, <1>5, <2>2 DEF Side
  <2>. QED BY <1>5, <1>6, <1>9, <2>1, <2>2
<1>10. LeafOf(i) \in Sub(T) /\ LeafOf(origin[T]) \in Sub(T)
  BY <1>1, <1>4, <1>5 DEF Winner, Side
<1>. QED BY <1>8, <1>9, <1>10

(* The shape of the tree does not change. *)
LEMMA SameShape ==
  ASSUME files' = files
  PROVE  /\ Input' = Input /\ P' = P /\ Node' = Node /\ Losers' = Losers
         /\ \A t : Sub(t)' = Sub(t) /\ LeafOf(t)' = LeafOf(t)
  BY DEF Input, P, Node, Losers, Sub, DownClosed, LeafOf

(* A match: the entry that loses stays, and is no smaller than the side it is from; *)
(* a loser further up came from another side, since the input of Q is not in its.   *)
LEMMA TreePlay ==
  ASSUME Tree, Play
  PROVE  TreeInv' /\ SiftInv'
<1>1. /\ files' = files /\ pc = "sift" /\ pc' = "sift" /\ T' = T \div 2 /\ T \in Losers
      /\ Losers \subseteq Input /\ i \in Input
  BY DEF Play, Parent, Tree, TypeOK, Losers
<1>t. PICK t \in Losers : t = T
  BY <1>1
<1>2. /\ Input' = Input /\ Node' = Node /\ Losers' = Losers
      /\ \A n : Sub(n)' = Sub(n) /\ LeafOf(n)' = LeafOf(n)
      /\ P' = P
  BY <1>1, SameShape
<1>3. /\ files \in Inputs /\ t \in Node /\ t \in Sub(t) /\ \A d \in Losers : loser[d].hash \in Nat
      /\ P \in Nat \ {0} /\ t \in Nat /\ t < P /\ \A s \in Losers : {2 * s, 2 * s + 1} \subseteq Node
  <2>1. files \in Inputs
    BY DEF Tree, TypeOK
  <2>2. /\ P \in Nat \ {0} /\ Losers = 1 .. P - 1 /\ Losers \subseteq Node
        /\ \A s \in Losers : {2 * s, 2 * s + 1} \subseteq Node
    BY <2>1, Nodes
  <2>3. t \in Sub(t)
    BY <2>1, <2>2, SubIs
  <2>4. \A d \in Losers : loser[d].hash \in Nat
    BY HashType DEF Tree
  <2>. QED BY <2>1, <2>2, <2>3, <2>4
<1>4. CASE ~(loser[T].hash < Q.hash)
  <2>1. UNCHANGED <<loser, origin, Q, i>>
    BY <1>4 DEF Play
  <2>2. TreeInv'
    <3>1. ASSUME NEW s \in Losers, NEW c, Side(s, c) PROVE Side(s, c)'
      <4>1. LeafOf(origin[s])' = LeafOf(origin[s])
        BY <1>2, <2>1 DEF LeafOf
      <4>. QED BY <1>2, <2>1, <3>1, <4>1 DEF Side
    <3>2. ASSUME NEW s \in Losers, loser'[s].hash > 0 PROVE \E c \in {2 * s, 2 * s + 1} : Side(s, c)'
      BY <2>1, <3>1, <3>2 DEF Tree, TreeInv
    <3>. QED BY <1>2, <3>2 DEF TreeInv
  <2>3. SiftInv'
    <3> SUFFICES ASSUME Q.hash > 0 PROVE \E c \in Node : c \div 2 = T' /\ Winner(c)'
      BY <1>2, <2>1 DEF SiftInv
    <3>1. loser[T].hash > 0
      BY <1>1, <1>4, HashType DEF Tree
    <3>2. /\ LeafOf(i) \in Sub(t)
          /\ \A d \in Losers \cap Sub(t) : Q.hash <= loser[d].hash
          /\ \A j \in Input \ {i} : LeafOf(j) \in Sub(t) => \E d \in Losers \cap Sub(t) : origin[d] = j
      BY <1>1, <1>t, <1>4, <3>1, Match
    <3>3. Winner(t)'
      <4>1. LeafOf(i)' = LeafOf(i)
        BY <1>2, <2>1 DEF LeafOf
      <4>. QED BY <1>2, <2>1, <3>2, <4>1 DEF Winner
    <3>. QED BY <1>1, <1>t, <1>3, <3>3
  <2>. QED BY <2>2, <2>3
<1>5. CASE loser[T].hash < Q.hash
  <2>1. /\ loser' = [loser EXCEPT ![t] = Q] /\ origin' = [origin EXCEPT ![t] = i]
        /\ Q' = loser[t] /\ i' = origin[t]
    BY <1>t, <1>5 DEF Play, OriginSwapped
  <2>2. /\ loser'[t] = Q /\ origin'[t] = i
        /\ \A d \in Losers : d # t => loser'[d] = loser[d] /\ origin'[d] = origin[d]
    BY <1>1, <2>1 DEF Tree, TypeOK, Losers
  <2>3. Q.hash > 0 /\ Q.hash \in Nat
    BY <1>1, <1>3, <1>5, HashType DEF Tree
  <2>4. PICK c \in Node : c \div 2 = T /\ Winner(c)
    BY <1>1, <2>3 DEF Tree, SiftInv
  <2>5. c \in {2 * t, 2 * t + 1} /\ Sub(c) \subseteq Sub(t) /\ LeafOf(i) \in Sub(t) /\ t \notin Sub(c)
    <3>2. c \in {2 * t, 2 * t + 1}
      BY <1>t, <1>3, <2>4 DEF Node
    <3>3. Sub(c) \subseteq Sub(t)
      BY <1>3, <3>2, SubIs
    <3>4. t \notin Sub(c)
      BY <1>3, <3>2, Above
    <3>. QED BY <2>4, <3>2, <3>3, <3>4 DEF Winner
  <2>6. Side(t, c)'
    <3>1. \A d \in Losers \cap Sub(c) : d # t
      BY <2>5
    <3>2. \A d \in Losers \cap Sub(c) : loser'[t].hash <= loser'[d].hash
      BY <2>2, <2>4, <3>1 DEF Winner
    <3>3. ASSUME NEW j \in Input, LeafOf(j) \in Sub(c)
          PROVE  \E d \in Losers \cap (Sub(c) \cup {t}) : origin'[d] = j
      <4>1. CASE j = i
        BY <2>2, <4>1
      <4>2. CASE j # i
        <5>1. PICK d \in Losers \cap Sub(c) : origin[d] = j
          BY <2>4, <3>3, <4>2 DEF Winner
        <5>. QED BY <2>2, <3>1, <5>1
      <4>. QED BY <4>1, <4>2
    <3>4. LeafOf(origin[t])' \in Sub(c)
      BY <1>2, <2>2, <2>4 DEF LeafOf, Winner
    <3>. QED BY <1>2, <3>2, <3>3, <3>4 DEF Side
  <2>7. ASSUME NEW s \in Losers, s # t, NEW e \in {2 * s, 2 * s + 1}, Side(s, e) PROVE Side(s, e)'
    <3>1. LeafOf(i) \notin Sub(e)
      BY <2>7, OtherSide
    <3>2. t \notin Sub(e)
      <4> SUFFICES ASSUME t \in Sub(e) PROVE FALSE
        OBVIOUS
      <4>1. e \in Node
        BY <1>3
      <4>2. Sub(t) \subseteq Sub(e)
        BY <1>3, <4>1, SubIs
      <4>. QED BY <2>5, <3>1, <4>2
    <3>3. \A d \in Losers \cap (Sub(e) \cup {s}) : loser'[d] = loser[d] /\ origin'[d] = origin[d]
      BY <2>2, <2>7, <3>2
    <3>4. LeafOf(origin[s])' = LeafOf(origin[s])
      BY <1>2, <3>3 DEF LeafOf
    <3>5. /\ LeafOf(origin[s]) \in Sub(e)
          /\ \A d \in Losers \cap Sub(e) : loser[s].hash <= loser[d].hash
          /\ \A j \in Input : LeafOf(j) \in Sub(e) => \E d \in Losers \cap (Sub(e) \cup {s}) : origin[d] = j
      BY <2>7 DEF Side
    <3>6. \A d \in Losers \cap Sub(e) : loser'[s].hash <= loser'[d].hash
      BY <3>3, <3>5
    <3>7. \A j \in Input : LeafOf(j) \in Sub(e) => \E d \in Losers \cap (Sub(e) \cup {s}) : origin'[d] = j
      BY <3>3, <3>5
    <3>. QED BY <1>2, <3>4, <3>5, <3>6, <3>7 DEF Side
  <2>8. TreeInv'
    <3>1. ASSUME NEW s \in Losers, loser'[s].hash > 0 PROVE \E e \in {2 * s, 2 * s + 1} : Side(s, e)'
      <4>1. CASE s = t
        BY <2>5, <2>6, <4>1
      <4>2. CASE s # t
        <5>1. PICK e \in {2 * s, 2 * s + 1} : Side(s, e)
          BY <2>2, <3>1, <4>2 DEF Tree, TreeInv
        <5>. QED BY <2>7, <4>2, <5>1
      <4>. QED BY <4>1, <4>2
    <3>. QED BY <1>2, <3>1 DEF TreeInv
  <2>9. SiftInv'
    <3> SUFFICES ASSUME loser[t].hash > 0 PROVE \E e \in Node : e \div 2 = T' /\ Winner(e)'
      BY <1>2, <2>1 DEF SiftInv
    <3>1. /\ LeafOf(i') \in Sub(t)
          /\ \A d \in Losers \cap Sub(t) : loser[t].hash <= loser[d].hash
          /\ \A j \in Input \ {i} : LeafOf(j) \in Sub(t) => \E d \in Losers \cap Sub(t) : origin[d] = j
      BY <1>1, <1>t, <1>5, <2>1, <2>3, Match
    <3>2. ASSUME NEW d \in Losers \cap Sub(t) PROVE Q'.hash <= loser'[d].hash
      <4>1. CASE d = t
        BY <1>t, <1>3, <1>5, <2>1, <2>2, <2>3, <4>1
      <4>2. CASE d # t
        BY <2>1, <2>2, <3>1, <4>2
      <4>. QED BY <4>1, <4>2
    <3>3. ASSUME NEW j \in Input \ {i'}, LeafOf(j) \in Sub(t)
          PROVE  \E d \in Losers \cap Sub(t) : origin'[d] = j
      <4>1. CASE j = i
        BY <1>3, <2>2, <4>1
      <4>2. CASE j # i
        <5>1. PICK d \in Losers \cap Sub(t) : origin[d] = j
          BY <3>1, <3>3, <4>2
        <5>2. d # t
          BY <2>1, <5>1
        <5>. QED BY <2>2, <5>1, <5>2
      <4>. QED BY <4>1, <4>2
    <3>4. Winner(t)'
      <4>1. LeafOf(i)' = LeafOf(i')
        BY <1>2 DEF LeafOf
      <4>. QED BY <1>2, <3>1, <3>2, <3>3, <4>1 DEF Winner
    <3>. QED BY <1>1, <1>t, <1>3, <3>4
  <2>. QED BY <2>8, <2>9
<1>. QED BY <1>4, <1>5

(* A fetched entry plays from its leaf, where there is nobody else. *)
LEMMA TreeFetch ==
  ASSUME Tree, Fetch
  PROVE  SiftInv'
<1>1. /\ files' = files /\ T' = Leaf(i) /\ i' = i /\ i \in Input /\ files \in Inputs
      /\ loser' = loser /\ origin' = origin
  BY DEF Fetch, Tree, TypeOK
<1>2. /\ Input' = Input /\ Node' = Node /\ Losers' = Losers /\ P' = P
      /\ \A n : Sub(n)' = Sub(n) /\ LeafOf(n)' = LeafOf(n)
  BY <1>1, SameShape
<1>3. P \in Nat \ {0} /\ Input = 0 .. P - 1 /\ Losers = 1 .. P - 1
  BY <1>1, InputType, Nodes
<1>4. PICK c \in Node : c = LeafOf(i)
  BY <1>1, Nodes
<1>5. c >= P /\ c \div 2 = Leaf(i)
  BY <1>1, <1>3, <1>4 DEF LeafOf, Leaf
<1>6. Sub(c) = {c} /\ Losers \cap Sub(c) = {}
  BY <1>1, <1>3, <1>5, SubIs
<1>7. \A j \in Input \ {i} : LeafOf(j) \notin Sub(c)
  BY <1>1, <1>3, <1>4, <1>6 DEF LeafOf
<1>8. LeafOf(i)' = c
  BY <1>1, <1>2, <1>4 DEF LeafOf
<1>9. Winner(c)'
  BY <1>1, <1>2, <1>6, <1>7, <1>8 DEF Winner
<1>. QED BY <1>1, <1>2, <1>5, <1>9 DEF SiftInv

(* What has won at node 1 has won against everybody. *)
LEMMA TreeChampion ==
  ASSUME Tree, Champion
  PROVE  \A t \in Losers : Q.hash <= loser[t].hash
<1>1. pc = "sift" /\ T < 1 /\ T \in Nat /\ files \in Inputs
  BY InputType DEF Champion, Tree, TypeOK
<1>2. Q.hash \in Nat /\ \A t \in Losers : loser[t].hash \in Nat
  BY HashType DEF Tree
<1>3. CASE Q.hash = 0
  BY <1>2, <1>3
<1>4. CASE Q.hash > 0
  <2>1. PICK c \in Node : c \div 2 = T /\ Winner(c)
    BY <1>1, <1>4 DEF Tree, SiftInv
  <2>2. c = 1
    BY <1>1, <2>1, Nodes DEF Node
  <2>3. Losers \subseteq Sub(c)
    BY <1>1, <2>2, Root, Nodes
  <2>. QED BY <2>1, <2>3 DEF Winner
<1>. QED BY <1>2, <1>3, <1>4

(* The tree of losers stays one. *)
LEMMA TreeStep == Tree /\ [Next]_vars => Tree'
<1> SUFFICES ASSUME Tree, [Next]_vars PROVE Tree'
  OBVIOUS
<1>1. TypeOK' /\ EveryInputPlays'
  BY TypeStep, PlaysStep DEF Tree
<1>2. ASSUME files' = files, loser' = loser, origin' = origin PROVE TreeInv'
  <2>1. /\ Input' = Input /\ Losers' = Losers /\ \A n : Sub(n)' = Sub(n) /\ LeafOf(n)' = LeafOf(n)
        /\ P' = P
    BY <1>2, SameShape
  <2>2. ASSUME NEW s \in Losers, NEW c, Side(s, c) PROVE Side(s, c)'
    <3>1. LeafOf(origin[s])' = LeafOf(origin[s])
      BY <1>2, <2>1 DEF LeafOf
    <3>. QED BY <1>2, <2>1, <2>2, <3>1 DEF Side
  <2>3. ASSUME NEW s \in Losers, loser'[s].hash > 0 PROVE \E c \in {2 * s, 2 * s + 1} : Side(s, c)'
    BY <1>2, <2>2, <2>3 DEF Tree, TreeInv
  <2>. QED BY <2>1, <2>3 DEF TreeInv
<1>3. ASSUME files' = files, loser' = loser, Q' = Q, \A t \in Losers : Q.hash <= loser[t].hash
      PROVE  LeastInv'
  BY <1>3 DEF LeastInv, Losers, Input
<1>4. CASE Emit
  BY <1>1, <1>2, <1>4 DEF Emit, Tree, SiftInv, LeastInv
<1>5. CASE Fetch
  BY <1>1, <1>2, <1>5, TreeFetch DEF Fetch, Tree, LeastInv
<1>6. CASE Play
  BY <1>1, <1>6, TreePlay DEF Play, Tree, LeastInv
<1>7. CASE Champion
  BY <1>1, <1>2, <1>3, <1>7, TreeChampion DEF Champion, Tree, SiftInv
<1>8. CASE Finish
  <2>1. \A t \in Losers : Q.hash <= loser[t].hash
    BY <1>8 DEF Finish, Tree, LeastInv
  <2>. QED BY <1>1, <1>2, <1>3, <1>8, <2>1 DEF Finish, Tree, SiftInv
<1>9. CASE UNCHANGED vars
  <2>1. UNCHANGED <<files, pc, loser, origin, Q, i, T>>
    BY <1>9 DEF vars
  <2>2. SiftInv'
    <3> SUFFICES ASSUME pc = "sift", Q.hash > 0 PROVE \E c \in Node : c \div 2 = T' /\ Winner(c)'
      BY <2>1, SameShape DEF SiftInv
    <3>1. PICK c \in Node : c \div 2 = T /\ Winner(c)
      BY DEF Tree, SiftInv
    <3>2. /\ Input' = Input /\ Losers' = Losers /\ \A n : Sub(n)' = Sub(n) /\ LeafOf(n)' = LeafOf(n)
          /\ P' = P
      BY <2>1, SameShape
    <3>3. LeafOf(i)' = LeafOf(i)
      BY <2>1, <3>2 DEF LeafOf
    <3>4. Winner(c)'
      BY <2>1, <3>1, <3>2, <3>3 DEF Winner
    <3>. QED BY <2>1, <3>1, <3>4
  <2>3. LeastInv'
    BY <2>1 DEF Tree, LeastInv, Losers, Input
  <2>. QED BY <1>1, <1>2, <2>1, <2>2, <2>3 DEF Tree
<1>. QED BY <1>4, <1>5, <1>6, <1>7, <1>8, <1>9 DEF Next, Step, Exited

(* The tree starts with entries of hash 0. *)
LEMMA TreeInit == Init => Tree
<1> SUFFICES ASSUME Init PROVE Tree
  OBVIOUS
<1>1. TypeOK /\ EveryInputPlays
  BY TypeInit, PlaysInit
<1>2. Q.hash = 0 /\ \A t \in Losers : loser[t].hash = 0
  BY ZeroType DEF Init, Losers
<1>. QED BY <1>1, <1>2 DEF Init, Tree, TreeInv, SiftInv, LeastInv

-----------------------------------------------------------------------------
(* What is left of input j: its buffer and what fread has not reached. *)
Left(j) == buffer_in[j] \o f_in[j]

(* The places in input j of what is left. *)
Rest(j) == Len(files[j]) - Len(Left(j)) + 1 .. Len(files[j])

(* Every input is read from its beginning to its end. *)
ReadInv ==
    \A j \in Input :
        /\ Len(Left(j)) <= Len(files[j])
        /\ \A n \in 1 .. Len(Left(j)) : Left(j)[n] = files[j][Len(files[j]) - Len(Left(j)) + n]

(* What is left is a sequence of entries. *)
LEMMA LeftType ==
  ASSUME TypeOK, NEW j \in Input
  PROVE  /\ Left(j) \in Seq(dict_t) /\ Len(Left(j)) \in Nat
         /\ buffer_in[j] \in Seq(dict_t) /\ f_in[j] \in Seq(dict_t)
         /\ files[j] \in Seq(dict_t) /\ Len(files[j]) \in Nat
<1>1. buffer_in[j] \in Seq(dict_t) /\ f_in[j] \in Seq(dict_t)
  BY DEF TypeOK
<1>2. files[j] \in Seq(dict_t)
  BY InputType DEF TypeOK
<1>3. Left(j) \in Seq(dict_t)
  BY <1>1, ConcatProperties DEF Left
<1>4. \A s \in Seq(dict_t) : Len(s) \in Nat
  BY LenProperties
<1>. QED BY <1>1, <1>2, <1>3, <1>4

(* A refill moves entries from the file to an empty buffer, in their order. *)
LEMMA Refill ==
  ASSUME TypeOK, NEW k \in Input, NEW rest,
         rest = IF buffer_in[k] # << >> THEN f_in[k]
                ELSE SubSeq(f_in[k], IN_BUFFER_SIZE + 1, Len(f_in[k]))
  PROVE  /\ Refilled(k) \o rest = Left(k) /\ rest \in Seq(dict_t)
         /\ Refilled(k) = << >> => rest = << >>
<1> DEFINE b == buffer_in[k]
           f == f_in[k]
<1>1. b \in Seq(dict_t) /\ f \in Seq(dict_t) /\ Len(f) \in Nat /\ IN_BUFFER_SIZE \in Nat \ {0}
  BY LeftType, MergerAssumption
<1>2. CASE b # << >>
  BY <1>1, <1>2 DEF Refilled, Left
<1>3. CASE b = << >> /\ Len(f) < IN_BUFFER_SIZE
  <2>1. Refilled(k) = f
    BY <1>1, <1>3, SubSeqFull DEF Refilled
  <2>2. rest = << >>
    BY <1>1, <1>3, SubSeqEmpty
  <2>3. f \o << >> = f /\ << >> \o f = f
    BY <1>1, ConcatEmptySeq
  <2>4. << >> \in Seq(dict_t)
    BY EmptySeq
  <2>. QED BY <1>3, <2>1, <2>2, <2>3, <2>4 DEF Left
<1>4. CASE b = << >> /\ ~(Len(f) < IN_BUFFER_SIZE)
  <2>1. Refilled(k) = SubSeq(f, 1, IN_BUFFER_SIZE) /\ rest = SubSeq(f, IN_BUFFER_SIZE + 1, Len(f))
    BY <1>4 DEF Refilled
  <2>2. SubSeq(f, 1, IN_BUFFER_SIZE) \o SubSeq(f, IN_BUFFER_SIZE + 1, Len(f)) = SubSeq(f, 1, Len(f))
    <3>1. 1 \in 1 .. Len(f) + 1 /\ IN_BUFFER_SIZE \in 1 - 1 .. Len(f) /\ Len(f) \in IN_BUFFER_SIZE .. Len(f)
      BY <1>1, <1>4
    <3>2. f \in Seq(dict_t)
      BY <1>1
    <3>. QED BY ONLY <3>1, <3>2, ConcatAdjacentSubSeq
  <2>3. SubSeq(f, 1, Len(f)) = f /\ << >> \o f = f
    BY <1>1, ConcatEmptySeq, SubSeqFull
  <2>4. rest \in Seq(dict_t)
    BY <1>1, <2>1, SubSeqType
  <2>5. Len(SubSeq(f, 1, IN_BUFFER_SIZE)) = IN_BUFFER_SIZE
    <3>1. \A n \in 1 .. IN_BUFFER_SIZE : f[n] \in dict_t
      BY <1>1, <1>4
    <3>. QED BY <1>1, <3>1, SubSeqProperties
  <2>6. Refilled(k) # << >>
    BY <1>1, <2>1, <2>5, EmptySeq
  <2>. QED BY <1>4, <2>1, <2>2, <2>3, <2>4, <2>6 DEF Left
<1>. QED BY <1>2, <1>3, <1>4

(* The first element of two sequences put together is that of the first. *)
LEMMA HeadTailOfConcat ==
  ASSUME NEW S, NEW s \in Seq(S), NEW t \in Seq(S), s # << >>
  PROVE  /\ Head(s \o t) = Head(s) /\ Tail(s \o t) = Tail(s) \o t
         /\ s \o t # << >>
<1>1. /\ Len(s) \in Nat \ {0} /\ Len(t) \in Nat
      /\ Tail(s) \in Seq(S) /\ Len(Tail(s)) = Len(s) - 1
      /\ \A n \in 1 .. Len(s) - 1 : Tail(s)[n] = s[n + 1]
  BY EmptySeq, LenProperties, HeadTailProperties
<1>2. /\ s \o t \in Seq(S) /\ Len(s \o t) = Len(s) + Len(t)
      /\ \A n \in 1 .. Len(s) + Len(t) : (s \o t)[n] = IF n <= Len(s) THEN s[n] ELSE t[n - Len(s)]
  BY ConcatProperties
<1>3. s \o t # << >>
  BY <1>1, <1>2
<1>4. Head(s \o t) = Head(s)
  BY <1>1, <1>2
<1>5. /\ Tail(s \o t) \in Seq(S) /\ Len(Tail(s \o t)) = Len(s) + Len(t) - 1
      /\ \A n \in 1 .. Len(s) + Len(t) - 1 : Tail(s \o t)[n] = (s \o t)[n + 1]
  BY <1>1, <1>2, <1>3, HeadTailProperties
<1>6. /\ Tail(s) \o t \in Seq(S) /\ Len(Tail(s) \o t) = Len(s) - 1 + Len(t)
      /\ \A n \in 1 .. Len(s) - 1 + Len(t) :
             (Tail(s) \o t)[n] = IF n <= Len(s) - 1 THEN Tail(s)[n] ELSE t[n - (Len(s) - 1)]
  BY <1>1, ConcatProperties
<1>7. ASSUME NEW n \in 1 .. Len(s) + Len(t) - 1 PROVE Tail(s \o t)[n] = (Tail(s) \o t)[n]
  <2>1. Tail(s \o t)[n] = IF n + 1 <= Len(s) THEN s[n + 1] ELSE t[n + 1 - Len(s)]
    BY <1>1, <1>2, <1>5
  <2>2. CASE n <= Len(s) - 1
    BY <1>1, <1>6, <2>1, <2>2
  <2>3. CASE ~(n <= Len(s) - 1)
    BY <1>1, <1>6, <2>1, <2>3
  <2>. QED BY <2>2, <2>3
<1>8. Tail(s \o t) = Tail(s) \o t
  BY <1>1, <1>5, <1>6, <1>7, SeqEqual
<1>. QED BY <1>3, <1>4, <1>8

(* Q takes the first entry that is left of its input, or is a sentinel. *)
LEMMA FetchTakes ==
  ASSUME TypeOK, Fetch, NEW k \in Input, k = i
  PROVE  /\ \A j \in Input \ {k} : Left(j)' = Left(j)
         /\ \/ Left(k) = << >> /\ Left(k)' = << >> /\ Q'.hash = SENTINEL
            \/ Left(k) # << >> /\ Left(k)' = Tail(Left(k)) /\ Q' = Head(Left(k))
<1> DEFINE rest == IF buffer_in[k] # << >> THEN f_in[k]
                   ELSE SubSeq(f_in[k], IN_BUFFER_SIZE + 1, Len(f_in[k]))
<1>1. /\ f_in'[k] = rest
      /\ \A j \in Input \ {k} : f_in'[j] = f_in[j] /\ buffer_in'[j] = buffer_in[j]
  <2>1. \/ f_in' = f_in /\ buffer_in[k] # << >>
        \/ f_in' = [f_in EXCEPT ![k] = SubSeq(@, IN_BUFFER_SIZE + 1, Len(@))] /\ buffer_in[k] = << >>
    BY DEF Fetch
  <2>2. buffer_in' = buffer_in \/ buffer_in' = [buffer_in EXCEPT ![k] = Tail(Refilled(k))]
    BY DEF Fetch
  <2>3. f_in'[k] = rest
    BY <2>1 DEF TypeOK
  <2>4. \A j \in Input \ {k} : f_in'[j] = f_in[j]
    BY <2>1 DEF TypeOK
  <2>5. \A j \in Input \ {k} : buffer_in'[j] = buffer_in[j]
    BY <2>2 DEF TypeOK
  <2>. QED BY <2>3, <2>4, <2>5
<1>2. /\ Refilled(k) \o rest = Left(k) /\ rest \in Seq(dict_t)
      /\ Refilled(k) = << >> => rest = << >>
  BY Refill
<1>3. Refilled(k) \in Seq(dict_t)
  BY RefilledType
<1> HIDE DEF rest
<1>4. \A j \in Input \ {k} : Left(j)' = Left(j)
  BY <1>1 DEF Left
<1>5. CASE Refilled(k) = << >>
  <2>1. Q' = [Q EXCEPT !.hash = SENTINEL] /\ buffer_in' = buffer_in
    BY <1>5 DEF Fetch
  <2>2. Q'.hash = SENTINEL
    BY <2>1 DEF TypeOK, dict_t
  <2>3. buffer_in[k] = << >>
    BY <1>5 DEF Refilled
  <2>4. rest = << >> /\ Left(k) = << >>
    BY <1>2, <1>5
  <2>5. Left(k)' = << >>
    BY <1>1, <2>1, <2>3, <2>4 DEF Left
  <2>. QED BY <1>4, <2>2, <2>4, <2>5
<1>6. CASE Refilled(k) # << >>
  <2>1. Q' = Head(Refilled(k)) /\ buffer_in' = [buffer_in EXCEPT ![k] = Tail(Refilled(k))]
    BY <1>6 DEF Fetch
  <2>2. Left(k)' = Tail(Refilled(k)) \o rest
    BY <1>1, <2>1 DEF Left, TypeOK
  <2>3. Head(Left(k)) = Head(Refilled(k)) /\ Tail(Left(k)) = Tail(Refilled(k)) \o rest /\ Left(k) # << >>
    BY <1>2, <1>3, <1>6, HeadTailOfConcat
  <2>. QED BY <1>4, <2>1, <2>2, <2>3
<1>. QED BY <1>5, <1>6

(* A fetch takes the next entry of the input of Q, if there is one. *)
LEMMA FetchReads ==
  ASSUME TypeOK, ReadInv, Fetch, NEW k \in Input, k = i
  PROVE  /\ ReadInv'
         /\ \A j \in Input \ {k} : Rest(j)' = Rest(j)
         /\ \/ Rest(k) = {} /\ Rest(k)' = {} /\ Q'.hash = SENTINEL
            \/ \E n \in DOMAIN files[k] :
                  /\ Rest(k) = n .. Len(files[k]) /\ Rest(k)' = n + 1 .. Len(files[k])
                  /\ Q' = files[k][n]
<1>1. files' = files /\ Input' = Input
  BY DEF Fetch, Input
<1>2. \A j \in Input \ {k} : Left(j)' = Left(j) /\ Rest(j)' = Rest(j)
  BY <1>1, FetchTakes DEF Rest
<1> DEFINE l == Left(k)
           m == Len(files[k])
<1>3. /\ l \in Seq(dict_t) /\ Len(l) \in Nat /\ m \in Nat /\ Len(l) <= m
      /\ \A n \in 1 .. Len(l) : l[n] = files[k][m - Len(l) + n]
      /\ DOMAIN files[k] = 1 .. m
  BY LeftType, LenProperties DEF ReadInv
<1>4. CASE l = << >> /\ Left(k)' = << >> /\ Q'.hash = SENTINEL
  <2>1. Len(l) = 0 /\ Len(Left(k)') = 0
    BY <1>4, EmptySeq
  <2>2. Rest(k) = {} /\ Rest(k)' = {}
    BY <1>1, <1>3, <2>1 DEF Rest
  <2>3. ASSUME NEW j \in Input
        PROVE  /\ Len(Left(j)') <= Len(files[j])
               /\ \A n \in 1 .. Len(Left(j)') : Left(j)'[n] = files[j][Len(files[j]) - Len(Left(j)') + n]
    <3>1. CASE j = k
      BY <1>3, <2>1, <3>1
    <3>2. CASE j # k
      BY <1>2, <3>2 DEF ReadInv
    <3>. QED BY <3>1, <3>2
  <2>4. ReadInv'
    BY <1>1, <2>3 DEF ReadInv
  <2>. QED BY <1>2, <1>4, <2>2, <2>4
<1>5. CASE l # << >> /\ Left(k)' = Tail(l) /\ Q' = Head(l)
  <2>1. /\ Len(l) \in Nat \ {0} /\ Len(Tail(l)) = Len(l) - 1 /\ Head(l) = l[1]
        /\ \A n \in 1 .. Len(l) - 1 : Tail(l)[n] = l[n + 1]
    BY <1>3, <1>5, EmptySeq, HeadTailProperties
  <2> DEFINE p == m - Len(l) + 1
  <2> HIDE DEF l, m
  <2>2. p \in 1 .. m /\ l[1] = files[k][p]
    BY <1>3, <2>1
  <2>3. \A n \in 1 .. Len(l) - 1 : Tail(l)[n] = files[k][m - (Len(l) - 1) + n]
    <3> SUFFICES ASSUME NEW n \in 1 .. Len(l) - 1 PROVE Tail(l)[n] = files[k][m - (Len(l) - 1) + n]
      OBVIOUS
    <3>1. n + 1 \in 1 .. Len(l) /\ m - Len(l) + (n + 1) = m - (Len(l) - 1) + n
      BY <1>3, <2>1
    <3>2. l[n + 1] = files[k][m - Len(l) + (n + 1)]
      BY <1>3, <3>1
    <3>. QED BY <2>1, <3>1, <3>2
  <2>4. Rest(k) = p .. m
    BY DEF Rest, l, m
  <2>5. Rest(k)' = p + 1 .. m
    <3>1. Rest(k)' = m - Len(Left(k)') + 1 .. m
      BY <1>1 DEF Rest, m
    <3>2. m - Len(Left(k)') + 1 = p + 1
      BY <1>3, <1>5, <2>1
    <3>. QED BY <3>1, <3>2
  <2>6. ASSUME NEW j \in Input
        PROVE  /\ Len(Left(j)') <= Len(files[j])
               /\ \A n \in 1 .. Len(Left(j)') : Left(j)'[n] = files[j][Len(files[j]) - Len(Left(j)') + n]
    <3>1. CASE j = k
      <4>1. Len(Left(j)') = Len(l) - 1 /\ Left(j)' = Tail(l) /\ Len(files[j]) = m
        BY <1>5, <2>1, <3>1 DEF m
      <4>2. Len(l) - 1 <= m
        BY <1>3, <2>1
      <4>. QED BY <2>3, <3>1, <4>1, <4>2
    <3>2. CASE j # k
      BY <1>2, <3>2 DEF ReadInv
    <3>. QED BY <3>1, <3>2
  <2>7. ReadInv'
    BY <1>1, <2>6 DEF ReadInv
  <2>8. p \in DOMAIN files[k] /\ Q' = files[k][p]
    BY <1>3, <1>5, <2>1, <2>2
  <2>. QED BY <1>2, <2>4, <2>5, <2>7, <2>8 DEF m
<1>. QED BY <1>4, <1>5, FetchTakes

(* The other actions read nothing. *)
LEMMA NothingRead ==
  ASSUME UNCHANGED <<files, f_in, buffer_in>>
  PROVE  /\ Input' = Input /\ ReadInv' = ReadInv
         /\ \A j : Rest(j)' = Rest(j)
  BY DEF Input, ReadInv, Rest, Left

(* Q and the losers are no larger than what is left of their inputs. *)
CurInv ==
    /\ \A n \in Rest(i) : Q.hash <= files[i][n].hash
    /\ \A t \in Losers : \A n \in Rest(origin[t]) : loser[t].hash <= files[origin[t]][n].hash

(* What was written last is no larger than anything in the tree. *)
PrevInv ==
    /\ pc = "fetch" => Q_prev = Q
    /\ Q_prev.hash <= Q.hash
    /\ \A t \in Losers : Q_prev.hash <= loser[t].hash

(* What is in the tree is the start value, a sentinel, or a hash of an input. *)
KnownInv ==
    /\ Q.hash \in Hashes \cup {0, SENTINEL}
    /\ \A t \in Losers : loser[t].hash \in Hashes \cup {0, SENTINEL}

OrderInv == Tree /\ ReadInv /\ CurInv /\ PrevInv /\ KnownInv

(* What is left of an input is a part of it. *)
LEMMA RestType ==
  ASSUME TypeOK, ReadInv, NEW j \in Input
  PROVE  /\ Rest(j) \subseteq DOMAIN files[j] /\ DOMAIN files[j] = 1 .. Len(files[j])
         /\ \A n \in DOMAIN files[j] : files[j][n] \in dict_t /\ files[j][n].hash \in Nat
                                       /\ files[j][n].hash \in Hashes
<1>1. Len(Left(j)) \in Nat /\ files[j] \in Seq(dict_t) /\ Len(files[j]) \in Nat /\ Len(Left(j)) <= Len(files[j])
  BY LeftType DEF ReadInv
<1>2. DOMAIN files[j] = 1 .. Len(files[j]) /\ \A n \in DOMAIN files[j] : files[j][n] \in dict_t
  BY <1>1
<1>3. Rest(j) \subseteq DOMAIN files[j]
  BY <1>1, <1>2 DEF Rest
<1>4. \A e \in dict_t : e.hash \in Nat
  BY MergerAssumption DEF dict_t, Hash
<1>5. ASSUME NEW n \in DOMAIN files[j] PROVE files[j][n].hash \in Hashes
  <2>1. files[j][n] \in ToSet(files[j])
    BY DEF ToSet
  <2>. QED BY <2>1 DEF Hashes, Entries
<1>. QED BY <1>2, <1>3, <1>4, <1>5

(* The entry that Q takes keeps the order. *)
LEMMA OrderFetch ==
  ASSUME OrderInv, Fetch
  PROVE  CurInv' /\ PrevInv' /\ KnownInv'
<1>1. /\ files' = files /\ Input' = Input /\ Losers' = Losers /\ Hashes' = Hashes /\ i' = i /\ origin' = origin
      /\ loser' = loser /\ Q_prev' = Q_prev /\ pc = "fetch" /\ pc' = "sift" /\ i \in Input
      /\ TypeOK /\ ReadInv
  BY DEF Fetch, Input, Losers, Hashes, Entries, OrderInv, Tree, TypeOK
<1>2. PICK k \in Input : k = i
  BY <1>1
<1>3. \A t \in Losers : origin[t] \in Input \ {k}
  BY <1>1, <1>2 DEF OrderInv, Tree, TypeOK, EveryInputPlays, Losers
<1>4. /\ \A j \in Input \ {k} : Rest(j)' = Rest(j)
      /\ \/ Rest(k) = {} /\ Rest(k)' = {} /\ Q'.hash = SENTINEL
         \/ \E n \in DOMAIN files[k] :
               /\ Rest(k) = n .. Len(files[k]) /\ Rest(k)' = n + 1 .. Len(files[k])
               /\ Q' = files[k][n]
  BY <1>1, <1>2, FetchReads
<1>5. \A t \in Losers : Rest(origin[t])' = Rest(origin[t])
  <2> SUFFICES ASSUME NEW t \in Losers PROVE Rest(origin[t])' = Rest(origin[t])
    OBVIOUS
  <2>1. PICK j \in Input \ {k} : j = origin[t]
    BY <1>3
  <2>2. Rest(origin[t])' = Rest(j)'
    BY <1>1, <2>1
  <2>. QED BY <1>4, <2>1, <2>2
<1>6. Rest(i)' = Rest(k)'
  BY <1>1, <1>2
<1>7. (\A n \in Rest(k)' : Q'.hash <= files[k][n].hash) /\ Q_prev.hash <= Q'.hash
      /\ Q'.hash \in Hashes \cup {0, SENTINEL}
  <2>1. CASE Rest(k) = {} /\ Rest(k)' = {} /\ Q'.hash = SENTINEL
    BY <1>1, <2>1, MergerAssumption DEF TypeOK, dict_t, Hash
  <2>2. ASSUME NEW n \in DOMAIN files[k], Rest(k) = n .. Len(files[k]), Rest(k)' = n + 1 .. Len(files[k]),
               Q' = files[k][n]
        PROVE  (\A m \in Rest(k)' : Q'.hash <= files[k][m].hash) /\ Q_prev.hash <= Q'.hash
               /\ Q'.hash \in Hashes
    <3>1. DOMAIN files[k] = 1 .. Len(files[k]) /\ Len(files[k]) \in Nat
      BY <1>1, RestType, LeftType
    <3>2. Sorted(files[k])
      BY <1>1, MergerAssumption DEF TypeOK, Input
    <3>3. \A m \in Rest(k)' : m \in DOMAIN files[k] /\ n <= m
      BY <2>2, <3>1
    <3>4. \A m \in Rest(k)' : Q'.hash <= files[k][m].hash
      BY <2>2, <3>2, <3>3 DEF Sorted
    <3>5. n \in Rest(k)
      BY <2>2, <3>1
    <3>6. Q_prev.hash <= Q'.hash
      BY <1>1, <1>2, <2>2, <3>5 DEF OrderInv, PrevInv, CurInv
    <3>. QED BY <1>1, <2>2, <3>4, <3>6, RestType
  <2>. QED BY <1>4, <2>1, <2>2
<1>8. CurInv'
  BY <1>1, <1>2, <1>5, <1>6, <1>7 DEF CurInv, OrderInv
<1>9. PrevInv' /\ KnownInv'
  BY <1>1, <1>7 DEF PrevInv, KnownInv, OrderInv
<1>. QED BY <1>8, <1>9

(* The order of what is read is kept. *)
LEMMA OrderStep == OrderInv /\ [Next]_vars => OrderInv'
<1> SUFFICES ASSUME OrderInv, [Next]_vars PROVE OrderInv'
  OBVIOUS
<1>1. Tree'
  BY TreeStep DEF OrderInv
<1>2. files' = files /\ Input' = Input /\ Losers' = Losers /\ Hashes' = Hashes
  BY DEF Next, Step, Exited, Emit, Fetch, Play, Champion, Finish, vars, Input, Losers, Hashes, Entries
<1>3. CASE Fetch
  <2>1. i \in Input /\ TypeOK /\ ReadInv
    BY DEF OrderInv, Tree, TypeOK
  <2>2. ReadInv'
    BY <1>3, <2>1, FetchReads
  <2>. QED BY <1>1, <1>3, <2>2, OrderFetch DEF OrderInv
<1>4. CASE Emit
  <2>1. UNCHANGED <<files, f_in, buffer_in, loser, origin, Q, i>> /\ Q_prev' = Q
    BY <1>4 DEF Emit
  <2>2. ReadInv' /\ CurInv' /\ KnownInv'
    BY <1>2, <2>1, NothingRead DEF OrderInv, CurInv, KnownInv
  <2>3. Q.hash <= Q.hash
    BY HashType DEF OrderInv, Tree
  <2>4. PrevInv'
    BY <1>2, <1>4, <2>1, <2>3 DEF Emit, OrderInv, Tree, LeastInv, PrevInv
  <2>. QED BY <1>1, <2>2, <2>4 DEF OrderInv
<1>5. CASE Play
  <2>1. UNCHANGED <<files, f_in, buffer_in, Q_prev, pc>> /\ pc = "sift" /\ T \in Losers /\ T \in Input
    BY <1>5 DEF Play, OrderInv, Tree, TypeOK, Losers
  <2>2. PICK t \in Losers : t = T
    BY <2>1
  <2>3. CASE UNCHANGED <<loser, origin, Q, i>>
    BY <1>1, <1>2, <2>1, <2>3, NothingRead DEF OrderInv, CurInv, PrevInv, KnownInv
  <2>4. CASE /\ loser' = [loser EXCEPT ![t] = Q] /\ origin' = [origin EXCEPT ![t] = i]
             /\ Q' = loser[t] /\ i' = origin[t]
    <3>1. /\ loser'[t] = Q /\ origin'[t] = i
          /\ \A d \in Losers \ {t} : loser'[d] = loser[d] /\ origin'[d] = origin[d]
      BY <2>4 DEF OrderInv, Tree, TypeOK, Losers
    <3>2. ReadInv' /\ \A j : Rest(j)' = Rest(j)
      BY <2>1, NothingRead DEF OrderInv
    <3>3. Rest(i)' = Rest(origin[t])
      BY <2>1, <2>4 DEF Rest, Left
    <3>4. \A n \in Rest(i)' : Q'.hash <= files[i'][n].hash
      BY <2>4, <3>3 DEF OrderInv, CurInv
    <3>5. ASSUME NEW d \in Losers, NEW n \in Rest(origin[d])'
          PROVE  loser'[d].hash <= files[origin'[d]][n].hash
      <4>1. CASE d = t
        <5>1. Rest(origin[d])' = Rest(i)
          BY <2>1, <3>1, <4>1 DEF Rest, Left
        <5>. QED BY <3>1, <3>5, <4>1, <5>1 DEF OrderInv, CurInv
      <4>2. CASE d # t
        <5>1. Rest(origin[d])' = Rest(origin[d])
          BY <2>1, <3>1, <4>2 DEF Rest, Left
        <5>. QED BY <3>1, <3>5, <4>2, <5>1 DEF OrderInv, CurInv
      <4>. QED BY <4>1, <4>2
    <3>6. CurInv'
      BY <1>2, <3>4, <3>5 DEF CurInv
    <3>7. PrevInv'
      BY <1>2, <2>1, <2>4, <3>1 DEF OrderInv, PrevInv
    <3>8. KnownInv'
      BY <1>2, <2>4, <3>1 DEF OrderInv, KnownInv
    <3>. QED BY <1>1, <3>2, <3>6, <3>7, <3>8 DEF OrderInv
  <2>. QED BY <1>5, <2>2, <2>3, <2>4 DEF Play, OriginSwapped
<1>6. CASE Champion \/ Finish \/ UNCHANGED vars
  <2>1. UNCHANGED <<files, f_in, buffer_in, loser, origin, Q, Q_prev, i>> /\ (pc' = "fetch" => pc = "fetch")
    BY <1>6 DEF Champion, Finish, vars
  <2>. QED BY <1>1, <1>2, <2>1, NothingRead DEF OrderInv, CurInv, PrevInv, KnownInv
<1>. QED BY <1>3, <1>4, <1>5, <1>6 DEF Next, Step, Exited

(* Nothing has been read, and every entry is 0. *)
LEMMA OrderInit == Init => OrderInv
<1> SUFFICES ASSUME Init PROVE OrderInv
  OBVIOUS
<1>1. Tree /\ TypeOK
  BY TreeInit DEF Tree
<1>2. Q = Zero /\ Q_prev = Zero /\ Q.hash = 0 /\ \A t \in Losers : loser[t] = Zero
  BY ZeroType DEF Init, Losers
<1>3. ASSUME NEW j \in Input PROVE Left(j) = files[j]
  <2>1. f_in = files /\ buffer_in[j] = << >> /\ files[j] \in Seq(dict_t)
    BY <1>1, LeftType DEF Init
  <2>. QED BY <2>1, ConcatEmptySeq DEF Left
<1>4. ReadInv
  <2> SUFFICES ASSUME NEW j \in Input
               PROVE  /\ Len(Left(j)) <= Len(files[j])
                      /\ \A n \in 1 .. Len(Left(j)) : Left(j)[n] = files[j][Len(files[j]) - Len(Left(j)) + n]
    BY DEF ReadInv
  <2>1. Len(files[j]) \in Nat /\ Left(j) = files[j]
    BY <1>1, <1>3, LeftType
  <2>2. \A n \in 1 .. Len(files[j]) : Len(files[j]) - Len(files[j]) + n = n
    BY <2>1
  <2>. QED BY <2>1, <2>2
<1>5. CurInv
  <2>1. \A j \in Input : \A n \in Rest(j) : 0 <= files[j][n].hash
    BY <1>1, <1>4, RestType
  <2>2. i \in Input /\ \A t \in Losers : origin[t] \in Input
    BY <1>1 DEF TypeOK, Losers
  <2>. QED BY <1>2, <2>1, <2>2 DEF CurInv
<1>6. PrevInv /\ KnownInv
  BY <1>2 DEF PrevInv, KnownInv
<1>. QED BY <1>1, <1>4, <1>5, <1>6 DEF OrderInv

(* A champion is the least entry of the tree, and the tree of what is still to be read. *)
LEMMA OrderMeans == OrderInv => ChampionIsLeast
<1> SUFFICES ASSUME OrderInv, pc = "emit" PROVE ChampionIsLeast
  BY DEF ChampionIsLeast
<1>1. TypeOK /\ ReadInv /\ Q.hash \in Nat
  BY HashType DEF OrderInv, Tree
<1>2. \A t \in Losers : Q.hash <= loser[t].hash /\ loser[t].hash \in Nat
  BY HashType DEF OrderInv, Tree, LeastInv
<1>3. ASSUME NEW j \in Input, NEW n \in Rest(j) PROVE Q.hash <= files[j][n].hash
  <2>1. files[j][n].hash \in Nat
    BY <1>1, RestType
  <2>2. CASE j = i
    BY <2>2 DEF OrderInv, CurInv
  <2>3. CASE j # i
    <3>1. PICK t \in Losers : j = origin[t]
      BY <2>3 DEF OrderInv, Tree, EveryInputPlays, Losers
    <3>2. loser[t].hash <= files[j][n].hash
      BY <3>1 DEF OrderInv, CurInv
    <3>. QED BY <1>1, <1>2, <2>1, <3>2
  <2>. QED BY <2>2, <2>3
<1>4. ASSUME NEW j \in Input, NEW e \in ToSet(buffer_in[j]) \cup ToSet(f_in[j])
      PROVE  \E n \in Rest(j) : e = files[j][n]
  <2>1. /\ buffer_in[j] \in Seq(dict_t) /\ f_in[j] \in Seq(dict_t)
        /\ Len(Left(j)) \in Nat /\ Len(files[j]) \in Nat /\ Len(Left(j)) <= Len(files[j])
        /\ \A n \in 1 .. Len(Left(j)) : Left(j)[n] = files[j][Len(files[j]) - Len(Left(j)) + n]
    BY <1>1, LeftType DEF ReadInv
  <2>3. ToSet(Left(j)) = ToSet(buffer_in[j]) \cup ToSet(f_in[j])
    <3>1. \A f : ToSet(f) = Range(f)
      BY DEF ToSet, Range
    <3>2. Range(buffer_in[j] \o f_in[j]) = Range(buffer_in[j]) \cup Range(f_in[j])
      BY <2>1, RangeConcatenation
    <3>. QED BY <3>1, <3>2 DEF Left
  <2>4. PICK m \in 1 .. Len(Left(j)) : e = Left(j)[m]
    <3>1. DOMAIN Left(j) = 1 .. Len(Left(j))
      BY <1>1, LeftType, LenProperties
    <3>. QED BY <2>3, <3>1 DEF ToSet
  <2>5. Len(files[j]) - Len(Left(j)) + m \in Rest(j)
    BY <2>1 DEF Rest
  <2>. QED BY <2>1, <2>4, <2>5
<1>5. Q_prev.hash <= Q.hash
  BY DEF OrderInv, PrevInv
<1>. QED BY <1>2, <1>3, <1>4, <1>5 DEF ChampionIsLeast, Losers

-----------------------------------------------------------------------------
(* What has been written, or is in the buffer. *)
Out == f_out \o buffer_out

(* It is in order, not beyond Q_prev, and consists of hashes that are not sentinels. *)
OutInv ==
    /\ \A m, n \in 1 .. Len(Out) : m < n => Out[m] < Out[n]
    /\ \A n \in 1 .. Len(Out) : 0 < Out[n] /\ Out[n] <= Q_prev.hash /\ Out[n] \in Hashes \ {SENTINEL}
    /\ Q_prev.hash = 0 \/ \E n \in 1 .. Len(Out) : Out[n] = Q_prev.hash

(* Every hash has been written, is in the tree, or is still to be read. *)
EmittedInv ==
    \A j \in Input : \A n \in DOMAIN files[j] :
        \/ files[j][n].hash \in {0, SENTINEL}
        \/ \E m \in 1 .. Len(Out) : Out[m] = files[j][n].hash
        \/ pc # "fetch" /\ files[j][n].hash = Q.hash
        \/ \E t \in Losers : files[j][n].hash = loser[t].hash
        \/ n \in Rest(j)

(* At the end everything has been written, and the champion is a sentinel. *)
DoneInv == pc = "done" => buffer_out = << >> /\ ~(Q.hash < SENTINEL)

OutputInv == OrderInv /\ OutInv /\ EmittedInv /\ DoneInv

(* What has been written is a sequence of hashes. *)
LEMMA OutType ==
  ASSUME TypeOK
  PROVE  /\ Out \in Seq(Hash) /\ Len(Out) \in Nat
         /\ \A n \in 1 .. Len(Out) : Out[n] \in Nat
<1>1. Out \in Seq(Hash)
  BY ConcatProperties DEF TypeOK, Out
<1>2. Len(Out) \in Nat /\ \A n \in 1 .. Len(Out) : Out[n] \in Hash
  BY <1>1
<1>3. Hash \subseteq Nat
  BY MergerAssumption DEF Hash
<1>. QED BY <1>1, <1>2, <1>3

(* Q follows what has been written, unless its hash is the last one. *)
LEMMA EmitWrites ==
  ASSUME TypeOK, Emit
  PROVE  /\ Q.hash = Q_prev.hash => Out' = Out
         /\ Q.hash # Q_prev.hash => Out' = Append(Out, Q.hash)
<1>1. f_out \in Seq(Hash) /\ buffer_out \in Seq(Hash) /\ Q.hash \in Hash /\ Out \in Seq(Hash)
  BY OutType DEF TypeOK, dict_t
<1>2. << >> \in Seq(Hash) /\ << Q.hash >> \in Seq(Hash)
  BY <1>1
<1>3. CASE Full
  <2>1. f_out' = Out
    BY <1>3 DEF Emit, Out
  <2>2. buffer_out' = IF Q.hash # Q_prev.hash THEN Append(<< >>, Q.hash) ELSE << >>
    BY <1>3 DEF Emit
  <2>3. Append(<< >>, Q.hash) = << >> \o << Q.hash >> /\ << >> \o << Q.hash >> = << Q.hash >>
        /\ Append(Out, Q.hash) = Out \o << Q.hash >> /\ Out \o << >> = Out
    BY <1>1, <1>2, AppendIsConcat, ConcatEmptySeq
  <2>4. Out' = f_out' \o buffer_out'
    BY DEF Out
  <2>. QED BY <2>1, <2>2, <2>3, <2>4
<1>4. CASE ~Full
  <2>1. f_out' = f_out
    BY <1>4 DEF Emit
  <2>2. buffer_out' = IF Q.hash # Q_prev.hash THEN Append(buffer_out, Q.hash) ELSE buffer_out
    BY <1>4 DEF Emit
  <2>3. Append(buffer_out, Q.hash) = buffer_out \o << Q.hash >> /\ Append(Out, Q.hash) = Out \o << Q.hash >>
    BY <1>1, AppendIsConcat
  <2>4. Out \o << Q.hash >> = f_out \o (buffer_out \o << Q.hash >>)
    BY <1>1, <1>2, ConcatAssociative, SMTT(60) DEF Out
  <2>5. Out' = f_out' \o buffer_out'
    BY DEF Out
  <2>. QED BY <2>1, <2>2, <2>3, <2>4, <2>5 DEF Out
<1>. QED BY <1>3, <1>4

(* The last write moves the rest of the buffer. *)
LEMMA FinishWrites ==
  ASSUME TypeOK, Finish
  PROVE  Out' = Out
<1>1. Out \in Seq(Hash) /\ f_out' = Out /\ buffer_out' = << >>
  BY OutType DEF Finish, Out
<1>2. Out' = f_out' \o buffer_out'
  BY DEF Out
<1>. QED BY <1>1, <1>2, ConcatEmptySeq

(* A champion is larger than what has been written, and a hash of an input. *)
LEMMA OutEmit ==
  ASSUME OutputInv, Emit
  PROVE  OutInv' /\ EmittedInv' /\ DoneInv'
<1>1. /\ files' = files /\ Input' = Input /\ Losers' = Losers /\ Hashes' = Hashes /\ Q_prev' = Q /\ loser' = loser
      /\ Q' = Q /\ pc = "emit" /\ pc' = "fetch" /\ Q.hash < SENTINEL /\ \A j : Rest(j)' = Rest(j)
  BY NothingRead DEF Emit, Input, Losers, Hashes, Entries
<1>2. TypeOK /\ Q.hash \in Nat /\ Q_prev.hash \in Nat /\ Q_prev.hash <= Q.hash /\ Q.hash \in Hash
      /\ Q.hash \in Hashes \cup {0, SENTINEL} /\ SENTINEL \in Nat
  BY HashType, MergerAssumption DEF OutputInv, OrderInv, Tree, PrevInv, KnownInv, TypeOK, dict_t
<1>3. /\ Out \in Seq(Hash) /\ Len(Out) \in Nat /\ \A n \in 1 .. Len(Out) : Out[n] \in Nat
      /\ \A m, n \in 1 .. Len(Out) : m < n => Out[m] < Out[n]
      /\ \A n \in 1 .. Len(Out) : 0 < Out[n] /\ Out[n] <= Q_prev.hash /\ Out[n] \in Hashes \ {SENTINEL}
      /\ Q_prev.hash = 0 \/ \E n \in 1 .. Len(Out) : Out[n] = Q_prev.hash
  BY <1>2, OutType DEF OutputInv, OutInv
<1>4. DoneInv'
  BY <1>1 DEF DoneInv
<1>5. CASE Q.hash = Q_prev.hash
  <2>1. Out' = Out
    BY <1>2, <1>5, EmitWrites
  <2>2. OutInv'
    BY <1>1, <1>3, <1>5, <2>1 DEF OutInv
  <2>3. ASSUME NEW j \in Input, NEW n \in DOMAIN files[j]
        PROVE  \/ files[j][n].hash \in {0, SENTINEL}
               \/ \E m \in 1 .. Len(Out) : Out[m] = files[j][n].hash
               \/ \E t \in Losers : files[j][n].hash = loser[t].hash
               \/ n \in Rest(j)
    BY <1>3, <1>5 DEF OutputInv, EmittedInv
  <2>4. EmittedInv'
    BY <1>1, <2>1, <2>3 DEF EmittedInv
  <2>. QED BY <1>4, <2>2, <2>4
<1>6. CASE Q.hash # Q_prev.hash
  <2>1. Out' = Append(Out, Q.hash)
    BY <1>2, <1>6, EmitWrites
  <2>2. /\ Len(Out') = Len(Out) + 1 /\ Out'[Len(Out) + 1] = Q.hash
        /\ \A n \in 1 .. Len(Out) : Out'[n] = Out[n]
    BY <1>2, <1>3, <2>1, AppendProperties
  <2>3. Q_prev.hash < Q.hash /\ Q.hash \in Hashes \ {SENTINEL} /\ 0 < Q.hash
    BY <1>1, <1>2, <1>6
  <2>4. \A n \in 1 .. Len(Out') : n \in 1 .. Len(Out) \/ n = Len(Out) + 1
    BY <1>3, <2>2
  <2>5. ASSUME NEW m \in 1 .. Len(Out'), NEW n \in 1 .. Len(Out'), m < n PROVE Out'[m] < Out'[n]
    <3>1. m \in 1 .. Len(Out)
      BY <1>3, <2>2, <2>5
    <3>2. CASE n \in 1 .. Len(Out)
      BY <1>3, <2>2, <2>5, <3>1, <3>2
    <3>3. CASE n = Len(Out) + 1
      <4>1. Out[m] \in Nat /\ Out[m] <= Q_prev.hash
        BY <1>3, <3>1
      <4>2. Out'[n] = Q.hash /\ Out'[m] = Out[m]
        BY <2>2, <3>1, <3>3
      <4>. QED BY <1>2, <2>3, <4>1, <4>2
    <3>. QED BY <2>4, <3>2, <3>3
  <2>6. ASSUME NEW n \in 1 .. Len(Out')
        PROVE  0 < Out'[n] /\ Out'[n] <= Q.hash /\ Out'[n] \in Hashes \ {SENTINEL}
    <3>1. CASE n \in 1 .. Len(Out)
      BY <1>2, <1>3, <2>2, <2>3, <3>1
    <3>2. CASE n = Len(Out) + 1
      BY <1>2, <2>2, <2>3, <3>2
    <3>. QED BY <2>4, <3>1, <3>2
  <2>7. Len(Out) + 1 \in 1 .. Len(Out')
    BY <1>3, <2>2
  <2>8. OutInv'
    BY <1>1, <2>2, <2>5, <2>6, <2>7 DEF OutInv
  <2>9. \A n \in 1 .. Len(Out) : n \in 1 .. Len(Out')
    BY <1>3, <2>2
  <2>10. ASSUME NEW j \in Input, NEW n \in DOMAIN files[j]
         PROVE  \/ files[j][n].hash \in {0, SENTINEL}
                \/ \E m \in 1 .. Len(Out') : Out'[m] = files[j][n].hash
                \/ \E t \in Losers : files[j][n].hash = loser[t].hash
                \/ n \in Rest(j)
    <3>1. CASE \E m \in 1 .. Len(Out) : Out[m] = files[j][n].hash
      BY <2>2, <2>9, <3>1
    <3>2. CASE files[j][n].hash = Q.hash
      BY <2>2, <2>7, <3>2
    <3>. QED BY <3>1, <3>2 DEF OutputInv, EmittedInv
  <2>11. EmittedInv'
    BY <1>1, <2>10 DEF EmittedInv
  <2>. QED BY <1>4, <2>8, <2>11
<1>. QED BY <1>5, <1>6

(* What is fetched goes from the rest of its input to the tree. *)
LEMMA OutFetch ==
  ASSUME OutputInv, Fetch
  PROVE  OutInv' /\ EmittedInv' /\ DoneInv'
<1>1. /\ files' = files /\ Input' = Input /\ Losers' = Losers /\ Hashes' = Hashes /\ Q_prev' = Q_prev /\ loser' = loser
      /\ pc = "fetch" /\ pc' = "sift" /\ i \in Input /\ TypeOK /\ ReadInv /\ Out' = Out
  BY DEF Fetch, Input, Losers, Hashes, Entries, Out, OutputInv, OrderInv, Tree, TypeOK
<1>2. OutInv' /\ DoneInv'
  BY <1>1 DEF OutputInv, OutInv, DoneInv
<1>3. PICK k \in Input : k = i
  BY <1>1
<1>4. /\ \A j \in Input \ {k} : Rest(j)' = Rest(j)
      /\ \/ Rest(k) = {} /\ Rest(k)' = {} /\ Q'.hash = SENTINEL
         \/ \E n \in DOMAIN files[k] :
               /\ Rest(k) = n .. Len(files[k]) /\ Rest(k)' = n + 1 .. Len(files[k])
               /\ Q' = files[k][n]
  BY <1>1, <1>3, FetchReads
<1>5. ASSUME NEW j \in Input, NEW n \in DOMAIN files[j], n \in Rest(j)
      PROVE  n \in Rest(j)' \/ files[j][n].hash = Q'.hash
  <2>1. CASE j # k
    BY <1>4, <1>5, <2>1
  <2>2. CASE j = k
    <3>1. PICK p \in DOMAIN files[k] : /\ Rest(k) = p .. Len(files[k]) /\ Rest(k)' = p + 1 .. Len(files[k])
                                       /\ Q' = files[k][p]
      BY <1>4, <1>5, <2>2
    <3>2. Len(files[k]) \in Nat /\ DOMAIN files[k] = 1 .. Len(files[k])
      BY <1>1, LeftType, RestType
    <3>. QED BY <1>5, <2>2, <3>1, <3>2
  <2>. QED BY <2>1, <2>2
<1>6. ASSUME NEW j \in Input, NEW n \in DOMAIN files[j]
      PROVE  \/ files[j][n].hash \in {0, SENTINEL}
             \/ \E m \in 1 .. Len(Out) : Out[m] = files[j][n].hash
             \/ files[j][n].hash = Q'.hash
             \/ \E t \in Losers : files[j][n].hash = loser[t].hash
             \/ n \in Rest(j)'
  BY <1>1, <1>5 DEF OutputInv, EmittedInv
<1>7. EmittedInv'
  BY <1>1, <1>6 DEF EmittedInv
<1>. QED BY <1>2, <1>7

(* Everything that is written is in order and all of it is. *)
LEMMA OutputStep == OutputInv /\ [Next]_vars => OutputInv'
<1> SUFFICES ASSUME OutputInv, [Next]_vars PROVE OutputInv'
  OBVIOUS
<1>1. OrderInv' /\ TypeOK
  BY OrderStep DEF OutputInv, OrderInv, Tree
<1>2. files' = files /\ Input' = Input /\ Losers' = Losers /\ Hashes' = Hashes
  BY DEF Next, Step, Exited, Emit, Fetch, Play, Champion, Finish, vars, Input, Losers, Hashes, Entries
<1>3. CASE Emit
  BY <1>1, <1>3, OutEmit DEF OutputInv
<1>4. CASE Fetch
  BY <1>1, <1>4, OutFetch DEF OutputInv
<1>5. CASE Play
  <2>1. /\ UNCHANGED <<f_in, buffer_in, Q_prev, pc, f_out, buffer_out>> /\ pc = "sift" /\ T \in Losers
        /\ \A j : Rest(j)' = Rest(j)
    BY <1>2, <1>5, NothingRead DEF Play, Losers, TypeOK, OutputInv, OrderInv, Tree
  <2>2. Out' = Out
    BY <2>1 DEF Out
  <2>3. OutInv' /\ DoneInv'
    BY <1>2, <2>1, <2>2 DEF OutputInv, OutInv, DoneInv
  <2>4. ASSUME NEW h, h = Q.hash \/ \E t \in Losers : h = loser[t].hash
        PROVE  h = Q'.hash \/ \E t \in Losers : h = loser'[t].hash
    <3>1. CASE UNCHANGED <<loser, Q>>
      BY <2>4, <3>1
    <3>2. CASE loser' = [loser EXCEPT ![T] = Q] /\ Q' = loser[T]
      <4>1. loser'[T] = Q /\ \A t \in Losers \ {T} : loser'[t] = loser[t]
        BY <1>1, <2>1, <3>2 DEF TypeOK, Losers
      <4>. QED BY <2>1, <2>4, <3>2, <4>1
    <3>. QED BY <1>5, <3>1, <3>2 DEF Play
  <2>5. EmittedInv'
    <3>1. ASSUME NEW j \in Input, NEW n \in DOMAIN files[j]
          PROVE  \/ files[j][n].hash \in {0, SENTINEL}
                 \/ \E m \in 1 .. Len(Out) : Out[m] = files[j][n].hash
                 \/ files[j][n].hash = Q'.hash
                 \/ \E t \in Losers : files[j][n].hash = loser'[t].hash
                 \/ n \in Rest(j)
      <4>1. CASE files[j][n].hash = Q.hash \/ \E t \in Losers : files[j][n].hash = loser[t].hash
        BY <2>4, <4>1
      <4>. QED BY <4>1 DEF OutputInv, EmittedInv
    <3>2. pc' # "fetch"
      BY <2>1
    <3>. QED BY <1>2, <2>1, <2>2, <3>1, <3>2 DEF EmittedInv
  <2>. QED BY <1>1, <2>3, <2>5 DEF OutputInv
<1>6. CASE Champion \/ UNCHANGED vars
  <2>1. /\ UNCHANGED <<files, f_in, buffer_in, loser, Q, Q_prev, f_out, buffer_out>> /\ Out' = Out
        /\ (pc' = "fetch" <=> pc = "fetch") /\ (pc' = "done" => pc = "done")
    BY <1>6 DEF Champion, vars, Out
  <2>2. OutInv' /\ DoneInv'
    BY <1>2, <2>1 DEF OutputInv, OutInv, DoneInv
  <2>3. EmittedInv'
    BY <1>2, <2>1, NothingRead DEF OutputInv, EmittedInv
  <2>. QED BY <1>1, <2>2, <2>3 DEF OutputInv
<1>7. CASE Finish
  <2>1. UNCHANGED <<files, f_in, buffer_in, loser, Q, Q_prev>> /\ pc = "emit" /\ pc' = "done" /\ Out' = Out
    BY <1>1, <1>7, FinishWrites DEF Finish
  <2>2. OutInv' /\ EmittedInv'
    BY <1>2, <2>1, NothingRead DEF OutputInv, OutInv, EmittedInv
  <2>3. DoneInv'
    BY <1>7 DEF Finish, DoneInv
  <2>. QED BY <1>1, <2>2, <2>3 DEF OutputInv
<1>. QED BY <1>3, <1>4, <1>5, <1>6, <1>7 DEF Next, Step, Exited

(* Nothing is written and everything is still to be read. *)
LEMMA OutputInit == Init => OutputInv
<1> SUFFICES ASSUME Init PROVE OutputInv
  OBVIOUS
<1>1. OrderInv /\ TypeOK
  BY OrderInit DEF OrderInv, Tree
<1>2. Out = << >> /\ Len(Out) = 0 /\ Q_prev.hash = 0
  BY ZeroType DEF Init, Out
<1>3. OutInv /\ DoneInv
  BY <1>2 DEF Init, OutInv, DoneInv
<1>4. ASSUME NEW j \in Input, NEW n \in DOMAIN files[j] PROVE n \in Rest(j)
  <2>1. f_in = files /\ buffer_in[j] = << >> /\ files[j] \in Seq(dict_t)
    BY <1>1, LeftType DEF Init
  <2>2. Left(j) = files[j]
    BY <2>1, ConcatEmptySeq DEF Left
  <2>3. DOMAIN files[j] = 1 .. Len(files[j]) /\ Len(files[j]) \in Nat
    BY <2>1
  <2>. QED BY <2>2, <2>3 DEF Rest
<1>. QED BY <1>1, <1>3, <1>4 DEF OutputInv, EmittedInv

(* At the end the tree and what is still to be read are sentinels. *)
LEMMA AllSentinels ==
  ASSUME OutputInv, pc = "done"
  PROVE  /\ ~(Q.hash < SENTINEL) /\ \A t \in Losers : ~(loser[t].hash < SENTINEL)
         /\ \A j \in Input : \A n \in Rest(j) : ~(files[j][n].hash < SENTINEL)
<1>1. TypeOK /\ ReadInv /\ Q.hash \in Nat /\ SENTINEL \in Nat /\ ~(Q.hash < SENTINEL)
  BY HashType, MergerAssumption DEF OutputInv, OrderInv, Tree, DoneInv
<1>2. \A t \in Losers : Q.hash <= loser[t].hash /\ loser[t].hash \in Nat
  BY HashType DEF OutputInv, OrderInv, Tree, LeastInv
<1>3. \A t \in Losers : ~(loser[t].hash < SENTINEL)
  BY <1>1, <1>2
<1>4. ASSUME NEW j \in Input, NEW n \in Rest(j) PROVE ~(files[j][n].hash < SENTINEL)
  <2>1. files[j][n].hash \in Nat
    BY <1>1, RestType
  <2>2. CASE j = i
    <3>1. Q.hash <= files[j][n].hash
      BY <2>2 DEF OutputInv, OrderInv, CurInv
    <3>. QED BY <1>1, <2>1, <3>1
  <2>3. CASE j # i
    <3>1. PICK t \in Losers : j = origin[t]
      BY <2>3 DEF OutputInv, OrderInv, Tree, EveryInputPlays, Losers
    <3>2. loser[t].hash <= files[j][n].hash
      BY <3>1 DEF OutputInv, OrderInv, CurInv
    <3>. QED BY <1>1, <1>2, <2>1, <3>1, <3>2
  <2>. QED BY <2>2, <2>3
<1>. QED BY <1>1, <1>3, <1>4

(* So the output is the set of the hashes, in order. *)
LEMMA OutputMeans ==
  ASSUME OutputInv, pc = "done"
  PROVE  ToSet(f_out) = Hashes \ {0, SENTINEL} /\ hash_checker(f_out)
<1>1. TypeOK /\ ReadInv /\ buffer_out = << >> /\ f_out \in Seq(Hash)
  BY DEF OutputInv, OrderInv, Tree, DoneInv, TypeOK
<1>2. Out = f_out
  BY <1>1, ConcatEmptySeq DEF Out
<1>3. /\ Len(f_out) \in Nat /\ DOMAIN f_out = 1 .. Len(f_out) /\ \A n \in 1 .. Len(f_out) : f_out[n] \in Nat
      /\ \A m, n \in 1 .. Len(f_out) : m < n => f_out[m] < f_out[n]
      /\ \A n \in 1 .. Len(f_out) : 0 < f_out[n] /\ f_out[n] \in Hashes \ {SENTINEL}
  BY <1>1, <1>2, OutType DEF OutputInv, OutInv
<1>4. ToSet(f_out) \subseteq Hashes \ {0, SENTINEL}
  BY <1>3 DEF ToSet
<1>5. ASSUME NEW h \in Hashes \ {0, SENTINEL} PROVE h \in ToSet(f_out)
  <2>1. PICK j \in Input : \E e \in ToSet(files[j]) : h = e.hash
    BY DEF Hashes, Entries
  <2>2. PICK n \in DOMAIN files[j] : h = files[j][n].hash
    BY <2>1 DEF ToSet
  <2>3. h \in Nat /\ h < SENTINEL
    <3>1. files[j][n].hash \in Hash
      BY <1>1, RestType DEF dict_t
    <3>. QED BY <2>2, <3>1, MergerAssumption DEF Hash
  <2>4. \E m \in 1 .. Len(f_out) : f_out[m] = h
    BY <1>2, <2>2, <2>3, AllSentinels DEF OutputInv, EmittedInv
  <2>. QED BY <1>3, <2>4 DEF ToSet
<1>6. hash_checker(f_out)
  <2> SUFFICES ASSUME NEW n \in 1 .. Len(f_out) PROVE f_out[n] > (IF n = 1 THEN 0 ELSE f_out[n - 1])
    BY <1>3 DEF hash_checker
  <2>1. CASE n = 1
    BY <1>3, <2>1
  <2>2. CASE n # 1
    <3>1. n - 1 \in 1 .. Len(f_out) /\ n - 1 < n
      BY <1>3, <2>2
    <3>2. f_out[n - 1] < f_out[n]
      BY <1>3, <3>1
    <3>. QED BY <1>3, <2>2, <3>1, <3>2
  <2>. QED BY <2>1, <2>2
<1>. QED BY <1>4, <1>5, <1>6

-----------------------------------------------------------------------------
(* The inputs whose entry in the tree can still be written, and the places that *)
(* have not been read.                                                          *)
Active == {j \in Input : \/ j = i /\ pc # "fetch" /\ Q.hash < SENTINEL
                         \/ \E t \in Losers : origin[t] = j /\ loser[t].hash < SENTINEL}
Unread == {m \in Places : m[2] \in Rest(m[1])}

(* An entry that has been read is in the tree or counted. *)
CountInv ==
    Len(Out) + collisions + duplicates + Cardinality(Active) + Cardinality(Unread)
        = P + Cardinality(Places)

(* The sets that are counted are finite. *)
LEMMA Counted ==
  ASSUME TypeOK
  PROVE  /\ IsFiniteSet(Places) /\ Cardinality(Places) \in Nat
         /\ IsFiniteSet(Active) /\ Cardinality(Active) \in Nat
         /\ IsFiniteSet(Unread) /\ Cardinality(Unread) \in Nat
<1>1. IsFiniteSet(Input) /\ \A j \in Input : files[j] \in Seq(dict_t)
  BY MergerAssumption, LeftType DEF TypeOK, Input
<1> DEFINE F == [j \in Input |-> {j} \X DOMAIN files[j]]
           SS == {{j} \X DOMAIN files[j] : j \in Input}
<1>2. F \in Surjection(Input, SS)
  BY DEF Surjection
<1>3. IsFiniteSet(SS)
  BY <1>1, <1>2, FS_Surjection
<1>4. ASSUME NEW X \in SS PROVE IsFiniteSet(X)
  <2>1. PICK j \in Input : X = {j} \X DOMAIN files[j]
    OBVIOUS
  <2>2. Len(files[j]) \in Nat /\ DOMAIN files[j] = 1 .. Len(files[j])
    BY <1>1
  <2>3. IsFiniteSet(DOMAIN files[j])
    BY <2>2, FS_Interval
  <2>4. IsFiniteSet({j})
    BY FS_Singleton
  <2>. QED BY <2>1, <2>3, <2>4, FS_Product
<1>5. IsFiniteSet(UNION SS)
  BY <1>3, <1>4, FS_UNION
<1>6. Places \subseteq UNION SS
  BY DEF Places
<1>7. IsFiniteSet(Places)
  BY <1>5, <1>6, FS_Subset
<1>8. IsFiniteSet(Active) /\ IsFiniteSet(Unread)
  BY <1>1, <1>7, FS_Subset DEF Active, Unread
<1>. QED BY <1>7, <1>8, FS_CardinalityType

(* An emitted entry leaves the tree for the output or a counter. *)
LEMMA CountEmit ==
  ASSUME OutputInv, CountInv, Emit
  PROVE  CountInv'
<1>1. /\ files' = files /\ Input' = Input /\ Losers' = Losers /\ P' = P /\ Places' = Places
      /\ loser' = loser /\ origin' = origin /\ i' = i /\ Q' = Q /\ pc = "emit" /\ pc' = "fetch" /\ Q.hash < SENTINEL
      /\ TypeOK /\ i \in Input /\ collisions \in Nat /\ duplicates \in Nat
  BY DEF Emit, Input, Losers, P, Places, OutputInv, OrderInv, Tree, TypeOK
<1>2. \A j : Rest(j)' = Rest(j)
  BY <1>1, NothingRead DEF Emit
<1>3. Unread' = Unread
  BY <1>1, <1>2 DEF Unread
<1>4. i \in Active /\ Active' = Active \ {i}
  <2>1. \A t \in Losers : origin[t] # i
    BY DEF OutputInv, OrderInv, Tree, EveryInputPlays, Losers
  <2>. QED BY <1>1, <2>1 DEF Active
<1>5. IsFiniteSet(Active) /\ Cardinality(Active) \in Nat /\ Cardinality(Unread) \in Nat
      /\ Cardinality(Places) \in Nat /\ Out \in Seq(Hash) /\ Len(Out) \in Nat /\ P \in Nat /\ Q.hash \in Hash
  BY <1>1, Counted, OutType, InputType DEF TypeOK, dict_t
<1>6. Cardinality(Active') = Cardinality(Active) - 1
  BY <1>4, <1>5, FS_RemoveElement
<1>7. Len(Out') + collisions' + duplicates' = Len(Out) + collisions + duplicates + 1
  <2>1. CASE Q.hash = Q_prev.hash
    <3>1. Out' = Out
      BY <1>1, <2>1, EmitWrites
    <3>2. CASE Q.preimage = Q_prev.preimage
      <4>1. duplicates' = duplicates + 1 /\ collisions' = collisions
        BY <2>1, <3>2 DEF Emit
      <4>. QED BY <1>1, <1>5, <3>1, <4>1
    <3>3. CASE Q.preimage # Q_prev.preimage
      <4>1. duplicates' = duplicates /\ collisions' = collisions + 1
        BY <2>1, <3>3 DEF Emit
      <4>. QED BY <1>1, <1>5, <3>1, <4>1
    <3>. QED BY <3>2, <3>3
  <2>2. CASE Q.hash # Q_prev.hash
    <3>1. Out' = Append(Out, Q.hash)
      BY <1>1, <2>2, EmitWrites
    <3>2. Len(Out') = Len(Out) + 1
      BY <1>5, <3>1, AppendProperties
    <3>3. duplicates' = duplicates /\ collisions' = collisions
      BY <2>2 DEF Emit
    <3>. QED BY <1>1, <1>5, <3>2, <3>3
  <2>. QED BY <2>1, <2>2
<1>8. Len(Out') \in Nat /\ collisions' \in Nat /\ duplicates' \in Nat
  <2>1. TypeOK'
    BY OutputStep DEF OutputInv, OrderInv, Tree, Next, Step
  <2>. QED BY <2>1, OutType DEF TypeOK
<1>9. Len(Out') + collisions' + duplicates' + Cardinality(Active') + Cardinality(Unread) = P + Cardinality(Places)
  BY <1>1, <1>5, <1>6, <1>7, <1>8 DEF CountInv
<1>. QED BY <1>1, <1>3, <1>9 DEF CountInv

(* A fetched entry goes to the tree, unless it is a sentinel. *)
LEMMA CountFetch ==
  ASSUME OutputInv, CountInv, Fetch
  PROVE  CountInv'
<1>1. /\ files' = files /\ Input' = Input /\ Losers' = Losers /\ P' = P /\ Places' = Places
      /\ loser' = loser /\ origin' = origin /\ i' = i /\ pc = "fetch" /\ pc' = "sift"
      /\ TypeOK /\ ReadInv /\ i \in Input /\ Out' = Out /\ collisions' = collisions /\ duplicates' = duplicates
  BY DEF Fetch, Input, Losers, P, Places, Out, OutputInv, OrderInv, Tree, TypeOK
<1>2. PICK k \in Input : k = i
  BY <1>1
<1>3. /\ \A j \in Input \ {k} : Rest(j)' = Rest(j)
      /\ \/ Rest(k) = {} /\ Rest(k)' = {} /\ Q'.hash = SENTINEL
         \/ \E n \in DOMAIN files[k] :
               /\ Rest(k) = n .. Len(files[k]) /\ Rest(k)' = n + 1 .. Len(files[k])
               /\ Q' = files[k][n]
  BY <1>1, <1>2, FetchReads
<1>4. k \notin Active /\ Active' = IF Q'.hash < SENTINEL THEN Active \cup {k} ELSE Active
  <2>1. \A t \in Losers : origin[t] # k
    BY <1>2 DEF OutputInv, OrderInv, Tree, EveryInputPlays, Losers
  <2>2. Active = {j \in Input : \E t \in Losers : origin[t] = j /\ loser[t].hash < SENTINEL}
    BY <1>1 DEF Active
  <2>3. Active' = {j \in Input : \/ j = k /\ Q'.hash < SENTINEL
                                 \/ \E t \in Losers : origin[t] = j /\ loser[t].hash < SENTINEL}
    BY <1>1, <1>2 DEF Active
  <2>. QED BY <2>1, <2>2, <2>3
<1>5. IsFiniteSet(Active) /\ Cardinality(Active) \in Nat /\ IsFiniteSet(Unread) /\ Cardinality(Unread) \in Nat
      /\ Cardinality(Places) \in Nat /\ Len(Out) \in Nat /\ P \in Nat /\ collisions \in Nat /\ duplicates \in Nat
  BY <1>1, Counted, OutType, InputType DEF TypeOK
<1>6. \A m \in Places : m[1] \in Input /\ m[2] \in DOMAIN files[m[1]] /\ m = <<m[1], m[2]>>
  BY DEF Places
<1>7. CASE Rest(k) = {} /\ Rest(k)' = {} /\ Q'.hash = SENTINEL
  <2>1. Active' = Active
    BY <1>4, <1>7, MergerAssumption
  <2>2. \A m \in Places : m[2] \in Rest(m[1])' <=> m[2] \in Rest(m[1])
    <3> SUFFICES ASSUME NEW m \in Places PROVE m[2] \in Rest(m[1])' <=> m[2] \in Rest(m[1])
      OBVIOUS
    <3>1. CASE m[1] = k
      BY <1>7, <3>1
    <3>2. CASE m[1] # k
      BY <1>3, <1>6, <3>2
    <3>. QED BY <3>1, <3>2
  <2>3. Unread' = Unread
    BY <1>1, <2>2 DEF Unread
  <2>. QED BY <1>1, <2>1, <2>3 DEF CountInv
<1>8. ASSUME NEW n \in DOMAIN files[k], Rest(k) = n .. Len(files[k]), Rest(k)' = n + 1 .. Len(files[k]),
             Q' = files[k][n]
      PROVE  CountInv'
  <2>1. DOMAIN files[k] = 1 .. Len(files[k]) /\ Len(files[k]) \in Nat /\ n \in Nat
    BY <1>1, LeftType, RestType
  <2>2. Rest(k)' = Rest(k) \ {n} /\ n \in Rest(k)
    BY <1>8, <2>1
  <2>3. \A m \in Places : m[2] \in Rest(m[1])' <=> m[2] \in Rest(m[1]) /\ m # <<k, n>>
    <3> SUFFICES ASSUME NEW m \in Places
                 PROVE m[2] \in Rest(m[1])' <=> m[2] \in Rest(m[1]) /\ m # <<k, n>>
      OBVIOUS
    <3>1. CASE m[1] = k
      BY <1>6, <2>2, <3>1
    <3>2. CASE m[1] # k
      BY <1>3, <1>6, <3>2
    <3>. QED BY <3>1, <3>2
  <2>4. Unread' = Unread \ {<<k, n>>}
    BY <1>1, <2>3 DEF Unread
  <2>5. <<k, n>> \in Unread <=> Q'.hash < SENTINEL
    BY <1>8, <2>2 DEF Unread, Places
  <2>6. CASE Q'.hash < SENTINEL
    <3>1. Cardinality(Active') = Cardinality(Active) + 1
      BY <1>4, <1>5, <2>6, FS_AddElement
    <3>2. Cardinality(Unread') = Cardinality(Unread) - 1
      BY <1>5, <2>4, <2>5, <2>6, FS_RemoveElement
    <3>3. Len(Out) + collisions + duplicates + Cardinality(Active') + Cardinality(Unread') = P + Cardinality(Places)
      BY <1>5, <3>1, <3>2 DEF CountInv
    <3>. QED BY <1>1, <3>3 DEF CountInv
  <2>7. CASE ~(Q'.hash < SENTINEL)
    <3>1. Active' = Active /\ Unread' = Unread
      BY <1>4, <2>4, <2>5, <2>7
    <3>. QED BY <1>1, <3>1 DEF CountInv
  <2>. QED BY <2>6, <2>7
<1>. QED BY <1>3, <1>7, <1>8

(* Whatever is read is counted. *)
LEMMA CountStep == OutputInv /\ CountInv /\ [Next]_vars => CountInv'
<1> SUFFICES ASSUME OutputInv, CountInv, [Next]_vars PROVE CountInv'
  OBVIOUS
<1>1. files' = files /\ Input' = Input /\ Losers' = Losers /\ P' = P /\ Places' = Places
  BY DEF Next, Step, Exited, Emit, Fetch, Play, Champion, Finish, vars, Input, Losers, P, Places
<1>2. TypeOK
  BY DEF OutputInv, OrderInv, Tree
<1>3. ASSUME UNCHANGED <<f_in, buffer_in, collisions, duplicates>>, Out' = Out, Active' = Active
      PROVE  CountInv'
  <2>1. \A j : Rest(j)' = Rest(j)
    BY <1>1, <1>3, NothingRead
  <2>2. Unread' = Unread
    BY <1>1, <2>1 DEF Unread
  <2>. QED BY <1>1, <1>3, <2>2 DEF CountInv
<1>4. CASE Play
  <2>1. /\ UNCHANGED <<f_in, buffer_in, pc, f_out, buffer_out, collisions, duplicates>>
        /\ pc = "sift" /\ T \in Losers
    BY <1>2, <1>4 DEF Play, Losers, TypeOK
  <2>2. CASE UNCHANGED <<loser, origin, Q, i>>
    <3>1. Active' = Active
      BY <1>1, <2>1, <2>2 DEF Active
    <3>. QED BY <1>3, <2>1, <3>1 DEF Out
  <2>3. CASE /\ loser' = [loser EXCEPT ![T] = Q] /\ origin' = [origin EXCEPT ![T] = i]
             /\ Q' = loser[T] /\ i' = origin[T]
    <3>1. /\ loser'[T] = Q /\ origin'[T] = i
          /\ \A t \in Losers \ {T} : loser'[t] = loser[t] /\ origin'[t] = origin[t]
      BY <1>2, <2>1, <2>3 DEF TypeOK, Losers
    <3>2. ASSUME NEW j \in Input
          PROVE  (j = i /\ Q.hash < SENTINEL) \/ (\E t \in Losers : origin[t] = j /\ loser[t].hash < SENTINEL)
                 <=> (j = i' /\ Q'.hash < SENTINEL)
                     \/ (\E t \in Losers : origin'[t] = j /\ loser'[t].hash < SENTINEL)
      <4>1. ASSUME (j = i /\ Q.hash < SENTINEL) \/ (\E t \in Losers : origin[t] = j /\ loser[t].hash < SENTINEL)
            PROVE  (j = i' /\ Q'.hash < SENTINEL)
                   \/ (\E t \in Losers : origin'[t] = j /\ loser'[t].hash < SENTINEL)
        BY <2>1, <2>3, <3>1, <4>1
      <4>2. ASSUME (j = i' /\ Q'.hash < SENTINEL)
                   \/ (\E t \in Losers : origin'[t] = j /\ loser'[t].hash < SENTINEL)
            PROVE  (j = i /\ Q.hash < SENTINEL) \/ (\E t \in Losers : origin[t] = j /\ loser[t].hash < SENTINEL)
        BY <2>1, <2>3, <3>1, <4>2
      <4>. QED BY <4>1, <4>2
    <3>3. Active' = Active
      BY <1>1, <2>1, <3>2 DEF Active
    <3>. QED BY <1>3, <2>1, <3>3 DEF Out
  <2>. QED BY <1>4, <2>2, <2>3 DEF Play, OriginSwapped
<1>5. CASE Champion \/ UNCHANGED vars
  <2>1. /\ UNCHANGED <<f_in, buffer_in, collisions, duplicates, f_out, buffer_out, loser, origin, Q, i>>
        /\ (pc' = "fetch" <=> pc = "fetch")
    BY <1>5 DEF Champion, vars
  <2>2. Active' = Active
    BY <1>1, <2>1 DEF Active
  <2>. QED BY <1>3, <2>1, <2>2 DEF Out
<1>6. CASE Finish
  <2>1. /\ UNCHANGED <<f_in, buffer_in, collisions, duplicates, loser, origin, Q, i>>
        /\ pc' # "fetch" /\ pc # "fetch"
    BY <1>6 DEF Finish
  <2>2. Active' = Active
    BY <1>1, <2>1 DEF Active
  <2>. QED BY <1>2, <1>3, <1>6, <2>1, <2>2, FinishWrites
<1>. QED BY <1>4, <1>5, <1>6, CountEmit, CountFetch DEF Next, Step, Exited

(* The entries that the tree starts with will be counted. *)
LEMMA CountInit == Init => CountInv
<1> SUFFICES ASSUME Init PROVE CountInv
  OBVIOUS
<1>1. OutputInv /\ TypeOK
  BY OutputInit DEF OutputInv, OrderInv, Tree
<1>2. Len(Out) = 0 /\ collisions = 0 /\ duplicates = 0
  BY DEF Init, Out
<1>3. SENTINEL \in Nat \ {0} /\ 0 < SENTINEL
  BY MergerAssumption
<1>4. Active = Input
  <2>1. Q.hash = 0 /\ i = 0 /\ pc # "fetch"
    BY ZeroType DEF Init
  <2>2. ASSUME NEW j \in Input, j # 0 PROVE j \in Losers /\ origin[j] = j /\ loser[j].hash < SENTINEL
    BY <1>3, <2>2, ZeroType DEF Init, Losers
  <2>3. ASSUME NEW j \in Input PROVE j \in Active
    BY <1>3, <2>1, <2>2 DEF Active
  <2>. QED BY <2>3 DEF Active
<1>5. Cardinality(Active) = P /\ P \in Nat
  BY <1>1, <1>4, InputType DEF P, TypeOK
<1>6. Unread = Places
  <2>1. ASSUME NEW j \in Input, NEW n \in DOMAIN files[j] PROVE n \in Rest(j)
    <3>1. f_in = files /\ buffer_in[j] = << >> /\ files[j] \in Seq(dict_t)
      BY <1>1, LeftType DEF Init
    <3>2. Left(j) = files[j]
      BY <3>1, ConcatEmptySeq DEF Left
    <3>3. DOMAIN files[j] = 1 .. Len(files[j]) /\ Len(files[j]) \in Nat
      BY <3>1
    <3>. QED BY <3>2, <3>3 DEF Rest
  <2>. QED BY <2>1 DEF Unread, Places
<1>7. Cardinality(Places) \in Nat
  BY <1>1, Counted
<1>. QED BY <1>2, <1>5, <1>6, <1>7 DEF CountInv

(* So the counters account for all. *)
LEMMA CountMeans == OutputInv /\ CountInv => EntriesAccounted
<1> SUFFICES ASSUME OutputInv, CountInv, pc = "done"
             PROVE  Len(f_out) + collisions + (duplicates - P) = Cardinality(Places)
  BY DEF EntriesAccounted
<1>1. TypeOK /\ buffer_out = << >> /\ f_out \in Seq(Hash) /\ collisions \in Nat /\ duplicates \in Nat
  BY DEF OutputInv, OrderInv, Tree, DoneInv, TypeOK
<1>2. Out = f_out /\ Len(f_out) \in Nat
  BY <1>1, ConcatEmptySeq DEF Out
<1>3. Active = {}
  BY AllSentinels DEF Active
<1>4. Unread = {}
  BY AllSentinels DEF Unread, Places
<1>5. Cardinality(Places) \in Nat /\ P \in Nat
  BY <1>1, Counted, InputType DEF TypeOK
<1>. QED BY <1>1, <1>2, <1>3, <1>4, <1>5, FS_EmptySet DEF CountInv

(* The merger is exact: a champion is the least entry that is left, the output is   *)
(* the list of all hashes in the inputs, each once and in order, and the numbers    *)
(* it reports account for every entry.                                              *)
THEOREM MergeExactHolds == Spec => []MergeExact
<1> DEFINE IInv == OutputInv /\ CountInv
<1>1. Init => IInv
  BY OutputInit, CountInit
<1>2. IInv /\ [Next]_vars => IInv'
  BY OutputStep, CountStep
<1>3. IInv => MergeExact
  BY OrderMeans, OutputMeans, CountMeans DEF MergeExact, OutputInv
<1>. QED BY <1>1, <1>2, <1>3, PTL DEF Spec

=============================================================================
