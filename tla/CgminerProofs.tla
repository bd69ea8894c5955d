--------------------------- MODULE CgminerProofs ---------------------------
(***************************************************************************)
(* Four parts of the custom cgminer, for any values of their constants.    *)
(*                                                                         *)
(* RxBuffer: packets are accepted in order and none twice, for any packets,*)
(* buffer, pieces, noise and resets.  PacketsExact is not inductive: its   *)
(* first half needs to know that the first bytes of packets that are still *)
(* to be looked at are in order and later than all that was accepted, its  *)
(* second half that packets were accepted from the first one on.           *)
(*                                                                         *)
(* Api: a client of group R changes nothing, and the reply to a JSON       *)
(* request is one object, for any miner, options, addresses and requests.  *)
(* A reply is followed mark by mark: what a handler, or one of the         *)
(* functions around it, adds leads from one state of a reader of JSON to   *)
(* another, whatever else is open.                                         *)
(*                                                                         *)
(* Locks: a cglock excludes, for any number of threads.                    *)
(*                                                                         *)
(* ApiData: lists of values are printed whole, for any values and sizes.   *)
(* A circular list is shown to be a sequence of nodes that each operation  *)
(* extends, joins to another or shortens; what recursions and folds of the *)
(* model return is found by a least counterexample.                        *)
(***************************************************************************)
EXTENDS MCCgminer, SequenceTheorems, FiniteSetTheorems, WellFoundedInduction, TLAPS

(***************************************************************************)
(* RxBuffer: the invariant                                                 *)
(***************************************************************************)
Byte == (0 .. Len(Length)) \X Nat

\* The bytes read and not parsed yet, and all bytes that are still to be parsed.
Fresh == [i \in 1 .. offset |-> readbuf[i - 1]]
Flow == Fresh \o wire

RxTypeOK ==
    /\ readbuf \in [0 .. BUF_SIZE - 1 -> Byte]
    /\ offset \in 0 .. BUF_SIZE - 1
    /\ rx \in {"parse", "read"}
    /\ wire \in Seq(Byte)
    /\ begun \in 0 .. Len(Length)
    /\ dropped \in BOOLEAN
    /\ parsed \in Seq(Nat)

\* The first byte of a packet.
Opens(byte) == byte[1] # 0 /\ byte[2] = 0

\* Packets begin in order, and none that was accepted, or one before it, begins again.
InOrder(flow, accepted, b) ==
    /\ \A i, j \in 1 .. Len(flow) : i < j /\ Opens(flow[i]) /\ Opens(flow[j]) => flow[i][1] < flow[j][1]
    /\ \A i \in 1 .. Len(flow) : Opens(flow[i]) => flow[i][1] <= b
    /\ \A n \in 1 .. Len(accepted) : accepted[n] <= b
    /\ \A n \in 1 .. Len(accepted), i \in 1 .. Len(flow) : Opens(flow[i]) => accepted[n] < flow[i][1]
    /\ \A m, n \in 1 .. Len(accepted) : m < n => accepted[m] < accepted[n]

\* What the device sends.
Packet(p) == [k \in 1 .. Length[p] |-> <<p, k - 1>>]
Stream(n) == R!FlattenSeq([p \in 1 .. n |-> Packet(p)])

\* Packets were accepted from the first one on, and the flow is the rest of what was sent.
Intact(flow, accepted, b) ==
    /\ Len(accepted) <= b
    /\ accepted = [n \in 1 .. Len(accepted) |-> n]
    /\ Stream(Len(accepted)) \o flow = Stream(b)

RxInv ==
    /\ RxTypeOK
    /\ InOrder(Flow, parsed, begun)
    /\ ~dropped => Intact(Flow, parsed, begun)

(***************************************************************************)
(* Sequences                                                               *)
(***************************************************************************)
\* Induction over the packets is by a least counterexample.
LEMMA Least ==
  ASSUME NEW X \in SUBSET Nat, X # {}
  PROVE  \E m \in X : \A n \in X : m <= n
<1> DEFINE Below == {ss \in Nat \X Nat : ss[1] < ss[2]}
<1>1. IsWellFoundedOn(Below, Nat)
  BY NatLessThanWellFounded DEF OpToRel
<1>2. \A x, y \in Nat : x < y => <<x, y>> \in Below
  OBVIOUS
<1> HIDE DEF Below
<1>3. PICK m \in X : \A n \in X : ~(<<n, m>> \in Below)
  BY <1>1, WFMin
<1>4. ASSUME NEW n \in X PROVE m <= n
  <2>1. n \in Nat /\ m \in Nat
    OBVIOUS
  <2>2. ~(n < m)
    BY <1>2, <1>3, <2>1
  <2> QED
    BY <2>1, <2>2
<1> QED
  BY <1>4

\* What is left of a sequence when its first s elements are gone.
LEMMA DropElements ==
  ASSUME NEW T, NEW f \in Seq(T), NEW s \in 0 .. Len(f)
  PROVE  /\ SubSeq(f, s + 1, Len(f)) \in Seq(T)
         /\ Len(SubSeq(f, s + 1, Len(f))) = Len(f) - s
         /\ \A i \in 1 .. Len(f) - s : SubSeq(f, s + 1, Len(f))[i] = f[i + s]
<1>1. \A i \in s + 1 .. Len(f) : f[i] \in T
  OBVIOUS
<1>2. /\ SubSeq(f, s + 1, Len(f)) \in Seq(T)
      /\ Len(SubSeq(f, s + 1, Len(f))) = IF s + 1 <= Len(f) THEN Len(f) - (s + 1) + 1 ELSE 0
      /\ \A i \in 1 .. Len(f) - (s + 1) + 1 : SubSeq(f, s + 1, Len(f))[i] = f[s + 1 + i - 1]
  BY <1>1, SubSeqProperties
<1> QED
  BY <1>2

LEMMA SameSequence ==
  ASSUME NEW T, NEW f \in Seq(T), NEW g \in Seq(T), Len(f) = Len(g),
         \A i \in 1 .. Len(f) : f[i] = g[i]
  PROVE  f = g
OBVIOUS

\* Order is kept when bytes go and when bytes that open no packet come.
LEMMA DropInOrder ==
  ASSUME NEW f \in Seq(Byte), NEW s \in 0 .. Len(f), NEW a \in Seq(Nat), NEW b \in Nat,
         InOrder(f, a, b)
  PROVE  InOrder(SubSeq(f, s + 1, Len(f)), a, b)
<1> DEFINE g == SubSeq(f, s + 1, Len(f))
<1>1. Len(g) = Len(f) - s /\ \A i \in 1 .. Len(f) - s : g[i] = f[i + s]
  BY DropElements
<1> HIDE DEF g
<1>2. \A i \in 1 .. Len(g) : i + s \in 1 .. Len(f) /\ g[i] = f[i + s]
  BY <1>1
<1>3. \A i, j \in 1 .. Len(g) : i < j => i + s < j + s
  BY <1>1
<1>4. InOrder(g, a, b)
  BY <1>2, <1>3 DEF InOrder
<1> QED
  BY <1>4 DEF g

\* A packet comes after all others.
LEMMA PacketInOrder ==
  ASSUME NEW f \in Seq(Byte), NEW a \in Seq(Nat), NEW b \in Nat, NEW g \in Seq(Byte),
         InOrder(f, a, b),
         \A i \in 1 .. Len(g) : Opens(g[i]) => i = 1 /\ g[i][1] = b + 1
  PROVE  InOrder(f \o g, a, b + 1)
<1> DEFINE h == f \o g
<1>1. /\ Len(h) = Len(f) + Len(g)
      /\ \A i \in 1 .. Len(h) : h[i] = IF i <= Len(f) THEN f[i] ELSE g[i - Len(f)]
  BY ConcatProperties
<1> HIDE DEF h
<1>2. \A i \in 1 .. Len(h) : i <= Len(f) => i \in 1 .. Len(f) /\ h[i] = f[i]
  BY <1>1
<1>3. \A i \in 1 .. Len(h) : ~(i <= Len(f)) /\ Opens(h[i]) => i = Len(f) + 1 /\ h[i][1] = b + 1
  <2> SUFFICES ASSUME NEW i \in 1 .. Len(h), ~(i <= Len(f)), Opens(h[i])
               PROVE  i = Len(f) + 1 /\ h[i][1] = b + 1
    OBVIOUS
  <2>1. i - Len(f) \in 1 .. Len(g) /\ h[i] = g[i - Len(f)]
    BY <1>1
  <2>2. i - Len(f) = 1 /\ h[i][1] = b + 1
    BY <2>1
  <2> QED
    BY <2>2
<1>4. \A i \in 1 .. Len(f) : f[i][1] \in Nat
  BY DEF Byte
<1>5. \A n \in 1 .. Len(a) : a[n] \in Nat
  OBVIOUS
<1>6. \A i, j \in 1 .. Len(h) : i < j /\ Opens(h[i]) /\ Opens(h[j]) => h[i][1] < h[j][1]
  <2> SUFFICES ASSUME NEW i \in 1 .. Len(h), NEW j \in 1 .. Len(h), i < j, Opens(h[i]), Opens(h[j])
               PROVE  h[i][1] < h[j][1]
    OBVIOUS
  <2>1. CASE j <= Len(f)
    <3>1. i <= Len(f)
      BY <2>1
    <3> QED
      BY <2>1, <3>1, <1>2 DEF InOrder
  <2>2. CASE ~(j <= Len(f))
    <3>1. j = Len(f) + 1 /\ h[j][1] = b + 1
      BY <2>2, <1>3
    <3>2. i <= Len(f)
      BY <3>1
    <3>3. h[i] = f[i] /\ i \in 1 .. Len(f)
      BY <3>2, <1>2
    <3>4. f[i][1] <= b
      BY <3>3 DEF InOrder
    <3> QED
      BY <3>1, <3>3, <3>4, <1>4
  <2> QED
    BY <2>1, <2>2
<1>7. \A i \in 1 .. Len(h) : Opens(h[i]) => h[i][1] <= b + 1
  <2> SUFFICES ASSUME NEW i \in 1 .. Len(h), Opens(h[i]) PROVE h[i][1] <= b + 1
    OBVIOUS
  <2>1. CASE i <= Len(f)
    <3>1. h[i] = f[i] /\ i \in 1 .. Len(f)
      BY <2>1, <1>2
    <3>2. f[i][1] <= b
      BY <3>1 DEF InOrder
    <3> QED
      BY <3>1, <3>2, <1>4
  <2>2. CASE ~(i <= Len(f))
    <3>1. h[i][1] = b + 1 /\ b + 1 \in Nat
      BY <2>2, <1>3
    <3> QED
      BY <3>1
  <2> QED
    BY <2>1, <2>2
<1>8. \A n \in 1 .. Len(a) : a[n] <= b + 1
  BY <1>5 DEF InOrder
<1>9. \A n \in 1 .. Len(a), i \in 1 .. Len(h) : Opens(h[i]) => a[n] < h[i][1]
  <2> SUFFICES ASSUME NEW n \in 1 .. Len(a), NEW i \in 1 .. Len(h), Opens(h[i]) PROVE a[n] < h[i][1]
    OBVIOUS
  <2>1. CASE i <= Len(f)
    BY <2>1, <1>2 DEF InOrder
  <2>2. CASE ~(i <= Len(f))
    <3>1. h[i][1] = b + 1
      BY <2>2, <1>3
    <3>2. a[n] <= b
      BY DEF InOrder
    <3> QED
      BY <3>1, <3>2, <1>5
  <2> QED
    BY <2>1, <2>2
<1>10. InOrder(h, a, b + 1)
  BY <1>6, <1>7, <1>8, <1>9 DEF InOrder
<1> QED
  BY <1>10 DEF h

\* Noise opens no packet.
LEMMA NoiseInOrder ==
  ASSUME NEW f \in Seq(Byte), NEW a \in Seq(Nat), NEW b \in Nat, NEW x \in Byte, ~Opens(x),
         InOrder(f, a, b)
  PROVE  InOrder(Append(f, x), a, b)
<1> DEFINE h == Append(f, x)
<1>1. Len(h) = Len(f) + 1 /\ h[Len(f) + 1] = x /\ \A i \in 1 .. Len(f) : h[i] = f[i]
  BY AppendProperties
<1> HIDE DEF h
<1>2. \A i \in 1 .. Len(h) : Opens(h[i]) => i \in 1 .. Len(f) /\ h[i] = f[i]
  BY <1>1
<1>3. InOrder(h, a, b)
  BY <1>2 DEF InOrder
<1> QED
  BY <1>3 DEF h

\* Accepting the packet whose first byte is at position i, and dropping it.
LEMMA AcceptInOrder ==
  ASSUME NEW f \in Seq(Byte), NEW a \in Seq(Nat), NEW b \in Nat, InOrder(f, a, b),
         NEW i \in 1 .. Len(f), Opens(f[i]), NEW s \in i .. Len(f)
  PROVE  InOrder(SubSeq(f, s + 1, Len(f)), Append(a, f[i][1]), b)
<1> DEFINE p == f[i][1]
<1> DEFINE g == SubSeq(f, s + 1, Len(f))
<1> DEFINE c == Append(a, p)
<1>1. p \in Nat /\ p <= b
  BY DEF Byte, InOrder
<1>2. s \in 0 .. Len(f)
  OBVIOUS
<1>3. Len(g) = Len(f) - s /\ \A j \in 1 .. Len(f) - s : g[j] = f[j + s]
  BY <1>2, DropElements
<1>4. InOrder(g, a, b)
  BY <1>2, DropInOrder
<1>5. Len(c) = Len(a) + 1 /\ c[Len(a) + 1] = p /\ \A n \in 1 .. Len(a) : c[n] = a[n]
  BY <1>1, AppendProperties
<1>6. \A n \in 1 .. Len(a) : a[n] < p
  BY DEF InOrder
<1>7. \A j \in 1 .. Len(g) : Opens(g[j]) => p < g[j][1]
  <2> SUFFICES ASSUME NEW j \in 1 .. Len(g), Opens(g[j]) PROVE p < g[j][1]
    OBVIOUS
  <2>1. j + s \in 1 .. Len(f) /\ i < j + s /\ g[j] = f[j + s]
    BY <1>3
  <2> QED
    BY <2>1 DEF InOrder
<1> HIDE DEF p, g, c
<1>8. \A n \in 1 .. Len(c) : n \in 1 .. Len(a) \/ n = Len(a) + 1
  BY <1>5
<1>9. \A m, n \in 1 .. Len(c) : m < n => m \in 1 .. Len(a)
  BY <1>5
<1>10. \A n \in 1 .. Len(c) : c[n] <= b
  BY <1>1, <1>4, <1>5, <1>8 DEF InOrder
<1>11. \A n \in 1 .. Len(c), j \in 1 .. Len(g) : Opens(g[j]) => c[n] < g[j][1]
  BY <1>4, <1>5, <1>7, <1>8 DEF InOrder
<1>12. \A m, n \in 1 .. Len(c) : m < n => c[m] < c[n]
  BY <1>4, <1>5, <1>6, <1>8, <1>9 DEF InOrder
<1>13. InOrder(g, c, b)
  BY <1>4, <1>10, <1>11, <1>12 DEF InOrder
<1> QED
  BY <1>13 DEF g, c, p

(***************************************************************************)
(* What the device sends                                                   *)
(***************************************************************************)
LEMMA RxAssumed ==
  /\ HEAD \in Nat /\ READ_SIZE \in Nat /\ RSIZE \in Nat /\ BUF_SIZE \in Nat /\ MAX_LENGTH \in Nat
  /\ 2 <= HEAD /\ HEAD <= READ_SIZE /\ RSIZE < BUF_SIZE /\ READ_SIZE + 1 < BUF_SIZE
  /\ Length \in Seq(Nat) /\ Len(Length) \in Nat /\ DOMAIN Length = 1 .. Len(Length)
  /\ \A p \in 1 .. Len(Length) :
        Length[p] \in Nat /\ READ_SIZE + 1 <= Length[p] /\ Length[p] <= MAX_LENGTH
  /\ Noise \subseteq Nat
  /\ StatusPackets \subseteq 1 .. Len(Length)
<1>1. R!RxBufferAssumption
  BY MCCgminerAssumption
<1>2. Length \in Seq(Nat)
  BY <1>1 DEF R!RxBufferAssumption
<1>3. Len(Length) \in Nat /\ DOMAIN Length = 1 .. Len(Length)
  BY <1>2
<1>4. /\ HEAD \in Nat /\ READ_SIZE \in Nat /\ RSIZE \in Nat /\ BUF_SIZE \in Nat
      /\ MAX_LENGTH \in Nat
  BY <1>1 DEF R!RxBufferAssumption
<1>5. 2 <= HEAD /\ HEAD <= READ_SIZE /\ RSIZE < BUF_SIZE /\ READ_SIZE + 1 < BUF_SIZE
  BY <1>1, <1>4 DEF R!RxBufferAssumption
<1>6. \A p \in 1 .. Len(Length) : Length[p] \in READ_SIZE + 1 .. MAX_LENGTH
  BY <1>1, <1>3 DEF R!RxBufferAssumption
<1>7. \A p \in 1 .. Len(Length) :
        Length[p] \in Nat /\ READ_SIZE + 1 <= Length[p] /\ Length[p] <= MAX_LENGTH
  BY <1>4, <1>6
<1>8. Noise \subseteq Nat /\ StatusPackets \subseteq 1 .. Len(Length)
  BY <1>1, <1>3 DEF R!RxBufferAssumption
<1> QED
  BY <1>2, <1>3, <1>4, <1>5, <1>7, <1>8

LEMMA PacketBytes ==
  ASSUME NEW p \in 1 .. Len(Length)
  PROVE  /\ Packet(p) \in Seq(Byte)
         /\ Len(Packet(p)) = Length[p]
         /\ \A k \in 1 .. Length[p] : Packet(p)[k] = <<p, k - 1>>
<1>1. Length[p] \in Nat /\ p \in 0 .. Len(Length)
  BY RxAssumed
<1>2. \A k \in 1 .. Length[p] : <<p, k - 1>> \in Byte
  BY <1>1 DEF Byte
<1> QED
  BY <1>1, <1>2 DEF Packet

FlatBy(g, i) == IF i = 1 THEN Packet(i) ELSE g[i - 1] \o Packet(i)
IsFlat(n, g) == g = [i \in 1 .. n |-> FlatBy(g, i)]

\* The recursion of FlattenSeq is well founded.
LEMMA FlatExists == \A n \in Nat : \E g : IsFlat(n, g)
<1> SUFFICES ASSUME NEW n0 \in Nat, ~ \E g : IsFlat(n0, g) PROVE FALSE
  OBVIOUS
<1> DEFINE X == {n \in Nat : ~ \E g : IsFlat(n, g)}
<1>1. PICK m \in X : \A n \in X : m <= n
  <2>1. X \in SUBSET Nat /\ X # {}
    OBVIOUS
  <2> QED
    BY <2>1, Least
<1>2. CASE m = 0
  <2> DEFINE g == [i \in 1 .. 0 |-> <<>>]
  <2>1. g = [i \in 1 .. 0 |-> FlatBy(g, i)]
    OBVIOUS
  <2> QED
    BY <1>2, <2>1 DEF IsFlat
<1>3. CASE m # 0
  <2>1. m - 1 \in Nat /\ ~(m <= m - 1)
    BY <1>3
  <2>2. PICK g : IsFlat(m - 1, g)
    BY <1>1, <2>1
  <2> DEFINE h == [i \in 1 .. m |-> IF i < m THEN g[i] ELSE FlatBy(g, m)]
  <2>3. \A i \in 1 .. m : h[i] = FlatBy(h, i)
    <3> TAKE i \in 1 .. m
    <3>1. i # 1 => h[i - 1] = g[i - 1]
      BY <1>3
    <3>2. FlatBy(h, i) = FlatBy(g, i)
      BY <3>1 DEF FlatBy
    <3>3. i < m => g[i] = FlatBy(g, i)
      BY <2>2, <1>3 DEF IsFlat
    <3> QED
      BY <3>2, <3>3, <1>3
  <2>4. IsFlat(m, h)
    BY <2>3 DEF IsFlat
  <2> QED
    BY <2>4
<1> QED
  BY <1>2, <1>3

LEMMA StreamIs ==
  ASSUME NEW n \in Nat, n # 0
  PROVE  \E g : IsFlat(n, g) /\ Stream(n) = g[n]
<1> DEFINE s == [p \in 1 .. n |-> Packet(p)]
<1>1. Len(s) = n /\ \A i \in 1 .. n : s[i] = Packet(i)
  OBVIOUS
<1>2. Stream(n) = R!FlattenSeq(s)
  BY DEF Stream
<1> HIDE DEF s
<1> DEFINE Flat(g) == g = [i \in 1 .. Len(s) |-> IF i = 1 THEN s[i] ELSE g[i - 1] \o s[i]]
<1>3. R!FlattenSeq(s) = (CHOOSE g : Flat(g))[Len(s)]
  BY <1>1 DEF R!FlattenSeq
<1>4. \A g : IsFlat(n, g) => Flat(g)
  BY <1>1 DEF IsFlat, FlatBy
<1>5. \A g : Flat(g) => IsFlat(n, g)
  BY <1>1 DEF IsFlat, FlatBy
<1>6. \E g : Flat(g)
  BY <1>4, FlatExists
<1> HIDE DEF Flat
<1>7. Flat(CHOOSE g : Flat(g))
  BY <1>6
<1> QED
  BY <1>1, <1>2, <1>3, <1>5, <1>7

\* It is the same recursion for every length.
LEMMA FlatAgrees ==
  ASSUME NEW m \in Nat, NEW n \in Nat, NEW g, NEW h, IsFlat(m, g), IsFlat(n, h), m <= n
  PROVE  \A i \in 1 .. m : g[i] = h[i]
<1> DEFINE X == {i \in Nat : i \in 1 .. m /\ g[i] # h[i]}
<1> SUFFICES ASSUME X # {} PROVE FALSE
  OBVIOUS
<1>1. PICK k \in X : \A i \in X : k <= i
  BY Least
<1>2. g[k] = FlatBy(g, k) /\ h[k] = FlatBy(h, k)
  <2>1. k \in 1 .. m /\ k \in 1 .. n
    BY <1>1
  <2>2. g = [i \in 1 .. m |-> FlatBy(g, i)]
    BY DEF IsFlat
  <2>3. h = [i \in 1 .. n |-> FlatBy(h, i)]
    BY DEF IsFlat
  <2>4. g[k] = FlatBy(g, k)
    BY <2>1, <2>2
  <2> QED
    BY <2>1, <2>3, <2>4
<1>3. k # 1
  BY <1>1, <1>2 DEF FlatBy
<1>4. k - 1 \in Nat /\ k - 1 \in 1 .. m /\ ~(k <= k - 1)
  BY <1>3
<1>5. g[k - 1] = h[k - 1]
  BY <1>1, <1>4
<1> QED
  BY <1>1, <1>2, <1>5 DEF FlatBy

LEMMA FlatBytes ==
  ASSUME NEW n \in Nat, n <= Len(Length), NEW g, IsFlat(n, g)
  PROVE  \A i \in 1 .. n : g[i] \in Seq(Byte)
<1> DEFINE X == {i \in Nat : i \in 1 .. n /\ ~(g[i] \in Seq(Byte))}
<1> SUFFICES ASSUME X # {} PROVE FALSE
  OBVIOUS
<1>1. PICK k \in X : \A i \in X : k <= i
  BY Least
<1>2. g[k] = FlatBy(g, k)
  BY <1>1 DEF IsFlat
<1>3. k \in 1 .. Len(Length)
  BY <1>1, RxAssumed
<1>4. Packet(k) \in Seq(Byte)
  BY <1>3, PacketBytes
<1>5. k # 1
  BY <1>1, <1>2, <1>4 DEF FlatBy
<1>6. k - 1 \in Nat /\ k - 1 \in 1 .. n /\ ~(k <= k - 1)
  BY <1>5
<1>7. g[k - 1] \in Seq(Byte)
  BY <1>1, <1>6
<1>8. g[k - 1] \o Packet(k) \in Seq(Byte)
  BY <1>4, <1>7, ConcatProperties
<1> QED
  BY <1>1, <1>2, <1>5, <1>8 DEF FlatBy

LEMMA StreamZero == Stream(0) = <<>>
<1> DEFINE s == [p \in 1 .. 0 |-> Packet(p)]
<1>1. s = <<>> /\ Len(s) = 0
  OBVIOUS
<1>2. Stream(0) = R!FlattenSeq(s)
  BY DEF Stream
<1> HIDE DEF s
<1>3. R!FlattenSeq(s) = s
  BY <1>1 DEF R!FlattenSeq
<1> QED
  BY <1>1, <1>2, <1>3

LEMMA StreamBytes ==
  ASSUME NEW n \in 0 .. Len(Length)
  PROVE  Stream(n) \in Seq(Byte)
<1>1. n \in Nat /\ n <= Len(Length)
  BY RxAssumed
<1>2. CASE n = 0
  BY <1>2, StreamZero, EmptySeq
<1>3. CASE n # 0
  <2>1. PICK g : IsFlat(n, g) /\ Stream(n) = g[n]
    BY <1>1, <1>3, StreamIs
  <2>2. n \in 1 .. n
    BY <1>1, <1>3
  <2> QED
    BY <1>1, <2>1, <2>2, FlatBytes
<1> QED
  BY <1>2, <1>3

LEMMA StreamNext ==
  ASSUME NEW n \in 1 .. Len(Length)
  PROVE  Stream(n) = Stream(n - 1) \o Packet(n)
<1>1. n \in Nat /\ n - 1 \in Nat /\ n # 0 /\ n - 1 <= n /\ n \in 1 .. n
  BY RxAssumed
<1>2. PICK h : IsFlat(n, h) /\ Stream(n) = h[n]
  BY <1>1, StreamIs
<1>3. h[n] = FlatBy(h, n)
  BY <1>1, <1>2 DEF IsFlat
<1>4. CASE n = 1
  <2>1. Stream(n) = Packet(n)
    BY <1>2, <1>3, <1>4 DEF FlatBy
  <2>2. Stream(n - 1) = <<>>
    BY <1>4, StreamZero
  <2>3. Packet(n) \in Seq(Byte)
    BY PacketBytes
  <2>4. <<>> \o Packet(n) = Packet(n)
    BY ONLY <2>3, ConcatEmptySeq
  <2> QED
    BY <2>1, <2>2, <2>4
<1>5. CASE n # 1
  <2>1. n - 1 # 0 /\ n - 1 \in 1 .. n - 1
    BY <1>1, <1>5
  <2>2. PICK g : IsFlat(n - 1, g) /\ Stream(n - 1) = g[n - 1]
    BY <1>1, <2>1, StreamIs
  <2>3. g[n - 1] = h[n - 1]
    BY <1>1, <1>2, <2>1, <2>2, FlatAgrees
  <2>4. h[n] = h[n - 1] \o Packet(n)
    BY <1>3, <1>5 DEF FlatBy
  <2> QED
    BY <1>2, <2>2, <2>3, <2>4
<1> QED
  BY <1>4, <1>5

\* What was sent begins with what was sent before.
LEMMA StreamSplit ==
  ASSUME NEW m \in 0 .. Len(Length), NEW b \in 0 .. Len(Length), m <= b
  PROVE  \E r \in Seq(Byte) : Stream(b) = Stream(m) \o r
<1> DEFINE X == {k \in Nat : /\ m <= k /\ k <= Len(Length)
                             /\ ~ \E r \in Seq(Byte) : Stream(k) = Stream(m) \o r}
<1>0. b \in Nat /\ b <= Len(Length) /\ m \in Nat /\ Len(Length) \in Nat
  BY RxAssumed
<1> SUFFICES ASSUME X # {} PROVE FALSE
  BY <1>0
<1>1. PICK k \in X : \A i \in X : k <= i
  BY Least
<1>2. k # m
  <2>1. Stream(m) \o <<>> = Stream(m) /\ <<>> \in Seq(Byte)
    BY StreamBytes, ConcatEmptySeq
  <2> QED
    BY <1>1, <2>1
<1>3. /\ k - 1 \in Nat /\ m <= k - 1 /\ k - 1 <= Len(Length) /\ ~(k <= k - 1)
      /\ k \in 1 .. Len(Length)
  BY <1>0, <1>1, <1>2
<1>4. PICK r \in Seq(Byte) : Stream(k - 1) = Stream(m) \o r
  BY <1>1, <1>3
<1>5. Stream(k) = Stream(k - 1) \o Packet(k)
  BY <1>3, StreamNext
<1>6. Packet(k) \in Seq(Byte) /\ Stream(m) \in Seq(Byte)
  BY <1>3, PacketBytes, StreamBytes
<1>7. (Stream(m) \o r) \o Packet(k) = Stream(m) \o (r \o Packet(k))
  <2> DEFINE s == Stream(m)
             u == Packet(k)
  <2>1. s \in Seq(Byte) /\ r \in Seq(Byte) /\ u \in Seq(Byte)
    BY <1>6
  <2> HIDE DEF s, u
  <2>2. (s \o r) \o u = s \o (r \o u)
    BY ONLY <2>1, ConcatAssociative, SMTT(60)
  <2> QED
    BY <2>2 DEF s, u
<1>8. r \o Packet(k) \in Seq(Byte)
  BY <1>6, ConcatProperties
<1>9. Stream(k) = Stream(m) \o (r \o Packet(k))
  BY <1>4, <1>5, <1>7
<1>10. \E q \in Seq(Byte) : Stream(k) = Stream(m) \o q
  <2> WITNESS r \o Packet(k) \in Seq(Byte)
  <2> QED
    BY <1>9
<1>11. ~ \E q \in Seq(Byte) : Stream(k) = Stream(m) \o q
  BY <1>1
<1> QED
  BY <1>10, <1>11

(***************************************************************************)
(* The parser                                                              *)
(***************************************************************************)
FlowOf(buf, o, w) == [i \in 1 .. o |-> buf[i - 1]] \o w

LEMMA FlowOfIs ==
  ASSUME NEW buf \in [0 .. BUF_SIZE - 1 -> Byte], NEW o \in 0 .. BUF_SIZE - 1, NEW w \in Seq(Byte)
  PROVE  /\ FlowOf(buf, o, w) \in Seq(Byte) /\ Len(FlowOf(buf, o, w)) = o + Len(w)
         /\ \A i \in 1 .. o : FlowOf(buf, o, w)[i] = buf[i - 1]
         /\ \A i \in 1 .. Len(w) : FlowOf(buf, o, w)[o + i] = w[i]
<1> DEFINE g == [i \in 1 .. o |-> buf[i - 1]]
<1> DEFINE f == g \o w
<1>1. BUF_SIZE \in Nat /\ o \in Nat /\ o <= BUF_SIZE - 1 /\ Len(w) \in Nat
  BY RxAssumed
<1>2. \A i \in 1 .. o : buf[i - 1] \in Byte
  <2>1. \A i \in 1 .. o : i - 1 \in 0 .. BUF_SIZE - 1
    BY <1>1
  <2> QED
    BY <2>1
<1>3. g \in Seq(Byte) /\ Len(g) = o /\ \A i \in 1 .. o : g[i] = buf[i - 1]
  BY <1>1, <1>2
<1> HIDE DEF g
<1>4. /\ f \in Seq(Byte) /\ Len(f) = Len(g) + Len(w)
      /\ \A i \in 1 .. Len(g) + Len(w) : f[i] = IF i <= Len(g) THEN g[i] ELSE w[i - Len(g)]
  BY <1>3, ConcatProperties
<1>5. FlowOf(buf, o, w) = f
  BY DEF FlowOf, g
<1> HIDE DEF f
<1>6. \A i \in 1 .. o : f[i] = buf[i - 1]
  BY <1>1, <1>3, <1>4
<1>7. \A i \in 1 .. Len(w) : f[o + i] = w[i]
  <2> SUFFICES ASSUME NEW i \in 1 .. Len(w) PROVE f[o + i] = w[i]
    OBVIOUS
  <2>1. PICK j \in Nat : j = o + i
    BY <1>1
  <2>2. j \in 1 .. Len(g) + Len(w) /\ ~(j <= Len(g)) /\ j - Len(g) = i
    BY <1>1, <1>3, <2>1
  <2>3. f[j] = w[j - Len(g)]
    BY <1>4, <2>2
  <2>4. f[j] = w[i]
    BY ONLY <2>2, <2>3
  <2> QED
    BY ONLY <2>1, <2>4
<1> QED
  BY <1>3, <1>4, <1>5, <1>6, <1>7

LEMMA FlowIs ==
  ASSUME RxTypeOK
  PROVE  /\ Flow \in Seq(Byte) /\ Len(Flow) = offset + Len(wire)
         /\ \A i \in 1 .. offset : Flow[i] = readbuf[i - 1]
         /\ \A i \in 1 .. Len(wire) : Flow[offset + i] = wire[i]
<1>1. readbuf \in [0 .. BUF_SIZE - 1 -> Byte] /\ offset \in 0 .. BUF_SIZE - 1 /\ wire \in Seq(Byte)
  BY DEF RxTypeOK
<1>2. Flow = FlowOf(readbuf, offset, wire)
  BY DEF Flow, Fresh, FlowOf
<1> QED
  BY <1>1, <1>2, FlowOfIs

\* memmove: the first spare bytes go, the others stay what they are.
LEMMA MovedFlow ==
  ASSUME RxTypeOK, NEW spare \in 0 .. offset, readbuf' = R!Moved(spare), offset' = offset - spare,
         UNCHANGED wire
  PROVE  /\ Flow' = SubSeq(Flow, spare + 1, Len(Flow))
         /\ readbuf' \in [0 .. BUF_SIZE - 1 -> Byte]
         /\ offset' \in 0 .. BUF_SIZE - 1
<1>1. BUF_SIZE \in Nat /\ offset \in Nat /\ offset <= BUF_SIZE - 1 /\ spare \in Nat /\ spare <= offset
      /\ Len(wire) \in Nat /\ wire \in Seq(Byte)
  BY RxAssumed DEF RxTypeOK
<1>2. DOMAIN readbuf = 0 .. BUF_SIZE - 1
  BY DEF RxTypeOK
<1>3. \A i \in 0 .. BUF_SIZE - 1 :
        readbuf'[i] = IF i < offset - spare THEN readbuf[i + spare] ELSE readbuf[i]
  BY <1>2 DEF R!Moved
<1>4. \A i \in 0 .. BUF_SIZE - 1 : i < offset - spare => i + spare \in 0 .. BUF_SIZE - 1
  BY <1>1
<1>5. readbuf' \in [0 .. BUF_SIZE - 1 -> Byte]
  <2>1. readbuf' = [i \in 0 .. BUF_SIZE - 1 |->
                        IF i < offset - spare THEN readbuf[i + spare] ELSE readbuf[i]]
    BY <1>2 DEF R!Moved
  <2>2. \A i \in 0 .. BUF_SIZE - 1 : readbuf[i] \in Byte
    BY DEF RxTypeOK
  <2> QED
    BY <1>4, <2>1, <2>2
<1>6. offset' \in 0 .. BUF_SIZE - 1 /\ offset' \in Nat
  BY <1>1
<1> DEFINE g == [i \in 1 .. offset' |-> readbuf'[i - 1]]
<1> DEFINE f == g \o wire
<1>7. Flow' = f
  BY DEF Flow, Fresh
<1>8. \A i \in 1 .. offset' : i - 1 \in 0 .. BUF_SIZE - 1 /\ i - 1 < offset - spare
  BY <1>1
<1>9. \A i \in 1 .. offset' : g[i] = readbuf[i - 1 + spare]
  BY <1>3, <1>8
<1>10. g \in Seq(Byte) /\ Len(g) = offset'
  <2>1. \A i \in 1 .. offset' : readbuf'[i - 1] \in Byte
    BY <1>5, <1>8
  <2> QED
    BY <1>6, <2>1
<1> HIDE DEF g
<1>11. /\ f \in Seq(Byte) /\ Len(f) = offset' + Len(wire)
       /\ \A i \in 1 .. offset' + Len(wire) : f[i] = IF i <= offset' THEN g[i] ELSE wire[i - offset']
  <2>1. wire \in Seq(Byte)
    BY <1>1
  <2>2. /\ f \in Seq(Byte) /\ Len(f) = Len(g) + Len(wire)
        /\ \A i \in 1 .. Len(g) + Len(wire) : f[i] = IF i <= Len(g) THEN g[i] ELSE wire[i - Len(g)]
    BY <1>10, <2>1, ConcatProperties
  <2> HIDE DEF f
  <2> QED
    BY <1>10, <2>2
<1> HIDE DEF f
<1> DEFINE h == SubSeq(Flow, spare + 1, Len(Flow))
<1>12. spare \in 0 .. Len(Flow) /\ Flow \in Seq(Byte) /\ Len(Flow) = offset + Len(wire)
  BY <1>1, FlowIs
<1>13. h \in Seq(Byte) /\ Len(h) = Len(Flow) - spare
       /\ \A i \in 1 .. Len(Flow) - spare : h[i] = Flow[i + spare]
  BY <1>12, DropElements
<1> HIDE DEF h
<1>14. Len(f) = Len(h)
  BY <1>1, <1>11, <1>12, <1>13
<1>15. \A i \in 1 .. Len(f) : f[i] = h[i]
  <2> SUFFICES ASSUME NEW i \in 1 .. Len(f) PROVE f[i] = h[i]
    OBVIOUS
  <2>1. i \in 1 .. offset' + Len(wire) /\ i \in Nat
    BY <1>1, <1>11
  <2>2. h[i] = Flow[i + spare]
    BY <1>1, <1>12, <1>13, <2>1
  <2>3. CASE i <= offset'
    <3>1. i \in 1 .. offset' /\ i + spare \in 1 .. offset /\ i + spare - 1 = i - 1 + spare
      BY <1>1, <2>1, <2>3
    <3>2. Flow[i + spare] = readbuf[i + spare - 1]
      BY <3>1, FlowIs
    <3> QED
      BY <1>9, <1>11, <2>1, <2>2, <2>3, <3>1, <3>2
  <2>4. CASE ~(i <= offset')
    <3>1. i - offset' \in 1 .. Len(wire) /\ i + spare = offset + (i - offset')
      BY <1>1, <2>1, <2>4
    <3>2. Flow[offset + (i - offset')] = wire[i - offset']
      BY <3>1, FlowIs
    <3> QED
      BY <1>11, <2>1, <2>2, <2>4, <3>1, <3>2
  <2> QED
    BY <2>3, <2>4
<1>16. f = h
  BY <1>11, <1>13, <1>14, <1>15, SameSequence
<1> QED
  BY <1>5, <1>6, <1>7, <1>16 DEF h

\* The first place that looks like a packet is a place that does, and none before it does.
LEMMA StartIs ==
  ASSUME RxTypeOK, R!Start >= 0
  PROVE  /\ R!Start \in 0 .. READ_SIZE
         /\ readbuf[R!Start][2] = 0
         /\ \A j \in 0 .. READ_SIZE :
                readbuf[j][2] = 0 /\ R!LengthAt(j) <= MAX_LENGTH => R!Start <= j
<1> DEFINE places == {i \in 0 .. READ_SIZE : R!LooksLikeType(readbuf[i]) /\ R!LengthAt(i) <= MAX_LENGTH}
<1>1. R!Start = IF places = {} THEN -1 ELSE CHOOSE i \in places : \A j \in places : i <= j
  BY DEF R!Start
<1>2. places # {}
  BY <1>1
<1>3. places \in SUBSET Nat
  BY RxAssumed
<1> HIDE DEF places
<1>4. \E i \in places : \A j \in places : i <= j
  BY <1>2, <1>3, Least
<1>5. R!Start \in places /\ \A j \in places : R!Start <= j
  BY <1>1, <1>2, <1>4
<1> QED
  BY <1>5 DEF places, R!LooksLikeType

LEMMA StartFound ==
  ASSUME RxTypeOK, NEW i \in 0 .. READ_SIZE, readbuf[i][2] = 0, R!LengthAt(i) <= MAX_LENGTH
  PROVE  R!Start >= 0
<1> DEFINE places == {j \in 0 .. READ_SIZE : R!LooksLikeType(readbuf[j]) /\ R!LengthAt(j) <= MAX_LENGTH}
<1>1. R!Start = IF places = {} THEN -1 ELSE CHOOSE j \in places : \A n \in places : j <= n
  BY DEF R!Start
<1>2. i \in places
  BY DEF R!LooksLikeType
<1>3. places \in SUBSET Nat
  BY RxAssumed
<1> HIDE DEF places
<1>4. \E j \in places : \A n \in places : j <= n
  BY <1>2, <1>3, Least
<1>5. R!Start \in places
  BY <1>1, <1>2, <1>4
<1> QED
  BY <1>3, <1>5

\* A header has a length, whatever it looks like.
LEMMA LengthIs ==
  ASSUME RxTypeOK, NEW i \in 0 .. READ_SIZE
  PROVE  R!LengthAt(i) \in Nat /\ R!LengthAt(i) >= 2
<1>1. HEAD \in Nat /\ READ_SIZE \in Nat /\ BUF_SIZE \in Nat /\ 2 <= HEAD /\ HEAD <= READ_SIZE
      /\ READ_SIZE + 1 < BUF_SIZE /\ Len(Length) \in Nat
  BY RxAssumed
<1>2. i + 1 \in 0 .. BUF_SIZE - 1
  BY <1>1
<1>3. readbuf[i + 1] \in Byte
  BY <1>2 DEF RxTypeOK
<1> DEFINE byte == readbuf[i + 1]
<1>4. byte[1] \in 0 .. Len(Length) /\ byte[2] \in Nat
  BY <1>3 DEF Byte
<1>5. R!LengthAt(i) = IF byte[1] # 0 /\ byte[2] = 1 THEN Length[byte[1]] ELSE byte[2] + HEAD
  BY DEF R!LengthAt
<1> HIDE DEF byte
<1>6. CASE byte[1] # 0 /\ byte[2] = 1
  <2>1. byte[1] \in 1 .. Len(Length)
    BY <1>1, <1>4, <1>6
  <2>2. Length[byte[1]] \in Nat /\ READ_SIZE + 1 <= Length[byte[1]]
    BY <2>1, RxAssumed
  <2> QED
    BY <1>1, <1>5, <1>6, <2>2
<1>7. CASE ~(byte[1] # 0 /\ byte[2] = 1)
  BY <1>1, <1>4, <1>5, <1>7
<1> QED
  BY <1>6, <1>7

\* The CRC is only right for a packet that begins at i, and the length is then the packet's.
LEMMA ValidIs ==
  ASSUME RxTypeOK, NEW i \in 0 .. READ_SIZE, R!Valid(i)
  PROVE  /\ readbuf[i][1] \in 1 .. Len(Length)
         /\ R!LengthAt(i) = Length[readbuf[i][1]]
<1> DEFINE p == readbuf[i][1]
<1>1. p \in 1 .. Len(Length) /\ R!CrcRight(i)
  BY RxAssumed DEF R!Valid, R!parse_rxstatus, R!parse_rxnonce
<1>2. R!LengthAt(i) \in Nat /\ R!LengthAt(i) >= 2
  BY LengthIs
<1>3. 1 \in 0 .. R!LengthAt(i) - 1
  BY <1>2
<1>4. readbuf[i + 1] = <<p, 1>>
  BY <1>1, <1>3 DEF R!CrcRight
<1>5. p # 0
  BY <1>1, RxAssumed
<1>6. R!LengthAt(i) = Length[p]
  BY <1>4, <1>5 DEF R!LengthAt
<1> QED
  BY <1>1, <1>6

\* Nothing was dropped and bytes are left: they begin with the packet after the last one accepted.
LEMMA NextPacket ==
  ASSUME RxTypeOK, Intact(Flow, parsed, begun), Flow # <<>>
  PROVE  LET q == Len(parsed) + 1
         IN  /\ q \in 1 .. Len(Length) /\ q <= begun
             /\ \E r \in Seq(Byte) : Flow = Packet(q) \o r /\ Stream(begun) = Stream(q) \o r
<1> DEFINE m == Len(parsed)
<1> DEFINE q == m + 1
<1>1. m \in Nat /\ begun \in Nat /\ begun <= Len(Length) /\ m <= begun /\ Len(Length) \in Nat
  BY RxAssumed DEF RxTypeOK, Intact
<1>2. Stream(m) \o Flow = Stream(begun)
  BY DEF Intact
<1> HIDE DEF m
<1>3. m \in 0 .. Len(Length) /\ begun \in 0 .. Len(Length)
  BY <1>1
<1>4. Stream(m) \in Seq(Byte) /\ Stream(begun) \in Seq(Byte) /\ Flow \in Seq(Byte)
  BY <1>3, StreamBytes, FlowIs
<1>5. m # begun
  <2> SUFFICES ASSUME m = begun PROVE FALSE
    OBVIOUS
  <2>1. Stream(m) \o Flow = Stream(m)
    BY <1>2
  <2>2. Flow = <<>>
    BY ONLY <1>4, <2>1, ConcatEqualIffEmpty
  <2> QED
    BY <2>2
<1>6. q \in 1 .. Len(Length) /\ q \in 0 .. Len(Length) /\ q <= begun /\ q - 1 = m
  BY <1>1, <1>5
<1> HIDE DEF q
<1>7. PICK r \in Seq(Byte) : Stream(begun) = Stream(q) \o r
  BY <1>3, <1>6, StreamSplit
<1>8. Stream(q) = Stream(m) \o Packet(q)
  BY <1>6, StreamNext
<1>9. Packet(q) \in Seq(Byte) /\ Packet(q) \o r \in Seq(Byte)
  BY <1>6, PacketBytes, ConcatProperties
<1>10. (Stream(m) \o Packet(q)) \o r = Stream(m) \o (Packet(q) \o r)
  BY <1>4, <1>9, ConcatAssociative, SMTT(60)
<1>11. Stream(m) \o Flow = Stream(m) \o (Packet(q) \o r)
  BY <1>2, <1>7, <1>8, <1>10
<1>12. Flow = Packet(q) \o r
  BY ONLY <1>4, <1>9, <1>11, ConcatSimplifications
<1>13. \E t \in Seq(Byte) : Flow = Packet(q) \o t /\ Stream(begun) = Stream(q) \o t
  BY <1>7, <1>12
<1> QED
  BY <1>6, <1>13 DEF q, m

\* A packet accepted or a packet refused, in order.
LEMMA ParseOrder ==
  ASSUME RxTypeOK, InOrder(Flow, parsed, begun), R!Start >= 0, ~R!Incomplete(R!Start),
         NEW spare, spare = (IF R!EndOf(R!Start) > offset THEN offset ELSE R!EndOf(R!Start))
  PROVE  /\ spare \in 0 .. offset
         /\ InOrder(SubSeq(Flow, spare + 1, Len(Flow)),
                    IF R!Valid(R!Start) THEN Append(parsed, readbuf[R!Start][1]) ELSE parsed, begun)
         /\ R!Valid(R!Start) => readbuf[R!Start][1] \in Nat
<1> DEFINE i == R!Start
<1>1. i \in 0 .. READ_SIZE /\ readbuf[i][2] = 0
  BY StartIs
<1> HIDE DEF i
<1>2. R!LengthAt(i) \in Nat /\ R!LengthAt(i) >= 2
  BY <1>1, LengthIs
<1>3. READ_SIZE \in Nat /\ offset \in Nat /\ i \in Nat /\ begun \in Nat /\ Len(wire) \in Nat
      /\ parsed \in Seq(Nat)
  BY <1>1, RxAssumed DEF RxTypeOK
<1>4. R!EndOf(i) = R!LengthAt(i) + i
  BY DEF R!EndOf
<1>5. spare = IF R!EndOf(i) > offset THEN offset ELSE R!EndOf(i)
  BY DEF i
<1>6. offset >= R!LengthAt(i)
  BY <1>2, <1>3 DEF R!Incomplete, i
<1>7. spare \in 0 .. offset
  BY <1>2, <1>3, <1>4, <1>5
<1>8. Flow \in Seq(Byte) /\ Len(Flow) = offset + Len(wire)
  BY FlowIs
<1>9. spare \in 0 .. Len(Flow)
  BY <1>3, <1>7, <1>8
<1>10. CASE ~R!Valid(i)
  <2>1. InOrder(SubSeq(Flow, spare + 1, Len(Flow)), parsed, begun)
    BY <1>3, <1>8, <1>9, DropInOrder
  <2> QED
    BY <1>7, <1>10, <2>1 DEF i
<1>11. CASE R!Valid(i)
  <2> DEFINE p == readbuf[i][1]
  <2>1. p \in 1 .. Len(Length) /\ R!LengthAt(i) = Length[p]
    BY <1>1, <1>11, ValidIs
  <2>2. Length[p] \in Nat /\ READ_SIZE + 1 <= Length[p] /\ p \in Nat /\ p # 0
    BY <2>1, RxAssumed
  <2>3. PICK j \in Nat : j = i + 1
    BY <1>3
  <2>4. j \in 1 .. offset /\ j \in 1 .. Len(Flow) /\ j - 1 = i
    BY <1>1, <1>3, <1>6, <1>8, <2>1, <2>2, <2>3
  <2>5. Opens(Flow[j]) /\ Flow[j][1] = p
    <3>1. Flow[j] = readbuf[j - 1]
      BY <2>4, FlowIs
    <3>2. Flow[j] = readbuf[i]
      BY ONLY <2>4, <3>1
    <3> QED
      BY <1>1, <2>2, <3>2 DEF Opens
  <2>6. spare \in j .. Len(Flow)
    BY <1>2, <1>3, <1>4, <1>5, <1>7, <1>8, <2>3, <2>4
  <2>7. InOrder(SubSeq(Flow, spare + 1, Len(Flow)), Append(parsed, Flow[j][1]), begun)
    BY <1>3, <1>8, <2>4, <2>5, <2>6, AcceptInOrder
  <2>8. InOrder(SubSeq(Flow, spare + 1, Len(Flow)), Append(parsed, p), begun)
    BY <2>5, <2>7
  <2> QED
    BY <1>7, <1>11, <2>2, <2>8 DEF i
<1> QED
  BY <1>10, <1>11

\* Without noise the packet that comes next begins the buffer, is whole and is accepted, unless
\* bytes of it are missing.
LEMMA ParseIntact ==
  ASSUME RxTypeOK, Intact(Flow, parsed, begun), offset >= READ_SIZE
  PROVE  /\ R!Start = 0
         /\ ~R!Incomplete(0) =>
               /\ R!Valid(0) /\ R!EndOf(0) <= offset
               /\ Intact(SubSeq(Flow, R!EndOf(0) + 1, Len(Flow)), Append(parsed, readbuf[0][1]), begun)
<1> DEFINE q == Len(parsed) + 1
<1>1. /\ READ_SIZE \in Nat /\ 2 <= READ_SIZE /\ 2 <= HEAD /\ HEAD \in Nat /\ Len(Length) \in Nat
      /\ MAX_LENGTH \in Nat
  BY RxAssumed
<1>2. offset \in Nat /\ Len(wire) \in Nat /\ begun \in Nat /\ Len(parsed) \in Nat
  BY RxAssumed DEF RxTypeOK
<1>3. Flow \in Seq(Byte) /\ Len(Flow) = offset + Len(wire) /\ \A i \in 1 .. offset : Flow[i] = readbuf[i - 1]
  BY FlowIs
<1>4. Flow # <<>>
  BY <1>1, <1>2, <1>3
<1>5. /\ q \in 1 .. Len(Length) /\ q <= begun
      /\ \E r \in Seq(Byte) : Flow = Packet(q) \o r /\ Stream(begun) = Stream(q) \o r
  BY <1>4, NextPacket
<1> HIDE DEF q
<1>6. PICK r \in Seq(Byte) : Flow = Packet(q) \o r /\ Stream(begun) = Stream(q) \o r
  BY <1>5
<1>7. Length[q] \in Nat /\ READ_SIZE + 1 <= Length[q] /\ Length[q] <= MAX_LENGTH /\ q \in Nat /\ q # 0
  BY <1>5, RxAssumed
<1>8. Packet(q) \in Seq(Byte) /\ Len(Packet(q)) = Length[q]
      /\ \A k \in 1 .. Length[q] : Packet(q)[k] = <<q, k - 1>>
  BY <1>5, PacketBytes
<1>9. Len(Flow) = Length[q] + Len(r)
      /\ \A k \in 1 .. Length[q] + Len(r) : Flow[k] = IF k <= Length[q] THEN Packet(q)[k] ELSE r[k - Length[q]]
  <2>1. /\ Len(Packet(q) \o r) = Len(Packet(q)) + Len(r)
        /\ \A k \in 1 .. Len(Packet(q)) + Len(r) :
              (Packet(q) \o r)[k] = IF k <= Len(Packet(q)) THEN Packet(q)[k] ELSE r[k - Len(Packet(q))]
    BY ONLY <1>8, r \in Seq(Byte), ConcatProperties
  <2> QED
    BY ONLY <1>6, <1>8, <2>1
<1>10. ASSUME NEW k \in 0 .. Length[q] - 1, k < offset
       PROVE  readbuf[k] = <<q, k>>
  <2>1. k + 1 \in 1 .. offset /\ k + 1 \in 1 .. Length[q] /\ k + 1 \in 1 .. Length[q] + Len(r)
        /\ k + 1 - 1 = k
    BY <1>2, <1>7, <1>10
  <2>2. Flow[k + 1] = readbuf[k]
    BY <1>3, <2>1
  <2>3. Flow[k + 1] = Packet(q)[k + 1]
    BY <1>9, <2>1
  <2>4. Packet(q)[k + 1] = <<q, k>>
    BY <1>8, <2>1
  <2> QED
    BY <2>2, <2>3, <2>4
<1>11. readbuf[0] = <<q, 0>> /\ readbuf[1] = <<q, 1>>
  <2>1. 0 \in 0 .. Length[q] - 1 /\ 1 \in 0 .. Length[q] - 1 /\ 0 < offset /\ 1 < offset
    BY <1>1, <1>2, <1>7
  <2> QED
    BY <1>10, <2>1
<1>12. R!LengthAt(0) = Length[q]
  BY <1>7, <1>11 DEF R!LengthAt
<1>13. R!Start = 0
  <2>1. 0 \in 0 .. READ_SIZE /\ readbuf[0][2] = 0 /\ R!LengthAt(0) <= MAX_LENGTH
    BY <1>1, <1>7, <1>11, <1>12
  <2>2. R!Start >= 0
    BY <2>1, StartFound
  <2>3. R!Start \in 0 .. READ_SIZE /\ R!Start <= 0
    BY <2>1, <2>2, StartIs
  <2> QED
    BY <1>1, <2>3
<1>14. ASSUME ~R!Incomplete(0)
       PROVE  /\ R!Valid(0) /\ R!EndOf(0) <= offset
              /\ Intact(SubSeq(Flow, R!EndOf(0) + 1, Len(Flow)), Append(parsed, readbuf[0][1]), begun)
  <2>1. offset >= Length[q]
    BY <1>2, <1>7, <1>12, <1>14 DEF R!Incomplete
  <2>2. R!EndOf(0) = Length[q]
    BY <1>7, <1>12 DEF R!EndOf
  <2>3. R!CrcRight(0)
    <3> SUFFICES ASSUME NEW k \in 0 .. Length[q] - 1 PROVE readbuf[0 + k] = <<readbuf[0][1], k>>
      BY <1>12 DEF R!CrcRight
    <3>1. 0 + k = k /\ k < offset
      BY <1>2, <1>7, <2>1
    <3> QED
      BY <1>10, <1>11, <3>1
  <2>4. R!Valid(0)
    BY <1>5, <1>11, <2>3, RxAssumed DEF R!Valid, R!parse_rxstatus, R!parse_rxnonce
  <2>5. SubSeq(Flow, Length[q] + 1, Len(Flow)) = r
    <3> DEFINE h == SubSeq(Flow, Length[q] + 1, Len(Flow))
    <3>1. Length[q] \in 0 .. Len(Flow) /\ Len(r) \in Nat
      BY <1>7, <1>9
    <3>2. h \in Seq(Byte) /\ Len(h) = Len(Flow) - Length[q]
          /\ \A j \in 1 .. Len(Flow) - Length[q] : h[j] = Flow[j + Length[q]]
      BY <1>3, <3>1, DropElements
    <3> HIDE DEF h
    <3>3. Len(h) = Len(r) /\ Len(Flow) - Length[q] = Len(r)
      BY <1>7, <1>9, <3>1, <3>2
    <3>4. \A j \in 1 .. Len(r) : h[j] = r[j]
      <4> SUFFICES ASSUME NEW j \in 1 .. Len(r) PROVE h[j] = r[j]
        OBVIOUS
      <4>1. PICK n \in Nat : n = j + Length[q]
        BY <1>7
      <4>2. n \in 1 .. Length[q] + Len(r) /\ ~(n <= Length[q]) /\ n - Length[q] = j
        BY <1>7, <3>1, <4>1
      <4>3. Flow[n] = r[n - Length[q]]
        BY <1>9, <4>2
      <4>4. h[j] = Flow[n]
        BY <3>2, <3>3, <4>1
      <4> QED
        BY ONLY <4>2, <4>3, <4>4
    <3>5. h = r
      BY <3>2, <3>3, <3>4, SameSequence
    <3> QED
      BY <3>5 DEF h
  <2>6. Append(parsed, q) = [n \in 1 .. q |-> n] /\ Len(Append(parsed, q)) = q
    <3> DEFINE a == Append(parsed, q)
    <3>1. parsed \in Seq(Nat)
      BY DEF RxTypeOK
    <3>2. a \in Seq(Nat) /\ Len(a) = Len(parsed) + 1 /\ a[Len(parsed) + 1] = q
          /\ \A n \in 1 .. Len(parsed) : a[n] = parsed[n]
      BY <1>7, <3>1, AppendProperties
    <3> HIDE DEF a
    <3>3. Len(a) = q
      BY <3>2 DEF q
    <3>4. \A n \in 1 .. Len(parsed) : parsed[n] = n
      <4>1. parsed = [n \in 1 .. Len(parsed) |-> n]
        BY DEF Intact
      <4> QED
        BY <4>1
    <3>5. \A n \in 1 .. q : a[n] = n
      <4>1. \A n \in 1 .. q : n \in 1 .. Len(parsed) \/ n = q
        BY <1>2 DEF q
      <4>2. a[q] = q
        BY <3>2 DEF q
      <4> QED
        BY <3>2, <3>4, <4>1, <4>2
    <3>6. a = [n \in 1 .. q |-> a[n]]
      BY <3>2, <3>3
    <3>7. a = [n \in 1 .. q |-> n]
      BY <3>5, <3>6
    <3> QED
      BY <3>3, <3>7 DEF a
  <2>7. Intact(r, Append(parsed, q), begun)
    BY <1>5, <1>6, <2>6 DEF Intact
  <2>8. readbuf[0][1] = q
    BY <1>11
  <2>9. SubSeq(Flow, R!EndOf(0) + 1, Len(Flow)) = r
    BY ONLY <2>2, <2>5
  <2>10. R!EndOf(0) <= offset
    BY ONLY <2>1, <2>2, <1>2, <1>7
  <2>11. Intact(SubSeq(Flow, R!EndOf(0) + 1, Len(Flow)), Append(parsed, readbuf[0][1]), begun)
    BY ONLY <2>7, <2>8, <2>9
  <2> QED
    BY <2>4, <2>10, <2>11
<1> QED
  BY <1>13, <1>14

(***************************************************************************)
(* RxBuffer: the steps                                                     *)
(***************************************************************************)
LEMMA RxInitInv ==
  ASSUME R!Init
  PROVE  RxInv
<1>1. /\ readbuf = [i \in 0 .. BUF_SIZE - 1 |-> <<0, 1>>] /\ offset = 0 /\ rx = "parse" /\ wire = <<>>
      /\ begun = 0 /\ dropped = FALSE /\ parsed = <<>>
  BY DEF R!Init
<1>2. BUF_SIZE \in Nat /\ 1 < BUF_SIZE /\ Len(Length) \in Nat
  BY RxAssumed
<1>3. RxTypeOK
  <2>1. <<0, 1>> \in Byte /\ begun \in 0 .. Len(Length) /\ offset \in 0 .. BUF_SIZE - 1
    BY <1>1, <1>2 DEF Byte
  <2>2. wire \in Seq(Byte) /\ parsed \in Seq(Nat)
    BY <1>1, EmptySeq
  <2> QED
    BY <1>1, <2>1, <2>2 DEF RxTypeOK
<1>4. Flow \in Seq(Byte) /\ Len(Flow) = 0
  BY <1>1, <1>3, FlowIs
<1>5. Flow = <<>>
  BY <1>4
<1>6. InOrder(Flow, parsed, begun)
  BY <1>1, <1>4 DEF InOrder
<1>7. Intact(Flow, parsed, begun)
  <2>1. <<>> \o <<>> = <<>>
    OBVIOUS
  <2>2. Stream(Len(parsed)) \o Flow = Stream(begun)
    BY <1>1, <1>5, <2>1, StreamZero
  <2>3. Len(parsed) <= begun /\ parsed = [n \in 1 .. Len(parsed) |-> n]
    BY <1>1
  <2> QED
    BY <2>2, <2>3 DEF Intact
<1> QED
  BY <1>3, <1>6, <1>7 DEF RxInv

LEMMA ParseInv ==
  ASSUME RxInv, R!Parse
  PROVE  RxInv'
<1>1. RxTypeOK /\ InOrder(Flow, parsed, begun) /\ (~dropped => Intact(Flow, parsed, begun))
  BY DEF RxInv
<1>2. UNCHANGED <<wire, begun, noise, dropped>> /\ rx' = "read"
  BY DEF R!Parse
<1>3. /\ READ_SIZE \in Nat /\ offset \in Nat /\ begun \in Nat /\ parsed \in Seq(Nat)
      /\ Flow \in Seq(Byte) /\ Len(Flow) = offset + Len(wire) /\ Len(wire) \in Nat
  BY <1>1, FlowIs, RxAssumed DEF RxTypeOK
<1>4. CASE UNCHANGED <<readbuf, offset, parsed>>
  <2>1. Flow' = Flow
    BY <1>2, <1>4 DEF Flow, Fresh
  <2>2. RxTypeOK'
    BY <1>1, <1>2, <1>4 DEF RxTypeOK
  <2>3. InOrder(Flow', parsed', begun') /\ (~dropped' => Intact(Flow', parsed', begun'))
    BY <1>1, <1>2, <1>4, <2>1
  <2> QED
    BY <2>2, <2>3 DEF RxInv
<1>5. CASE /\ offset >= READ_SIZE /\ R!Start >= 0 /\ ~R!Incomplete(R!Start)
           /\ LET spare == IF R!EndOf(R!Start) > offset THEN offset ELSE R!EndOf(R!Start)
              IN  /\ parsed' = IF R!Valid(R!Start) THEN Append(parsed, readbuf[R!Start][1]) ELSE parsed
                  /\ readbuf' = R!Moved(spare)
                  /\ offset' = offset - spare
  <2>1. PICK spare : /\ spare = (IF R!EndOf(R!Start) > offset THEN offset ELSE R!EndOf(R!Start))
                     /\ parsed' = IF R!Valid(R!Start) THEN Append(parsed, readbuf[R!Start][1]) ELSE parsed
                     /\ readbuf' = R!Moved(spare)
                     /\ offset' = offset - spare
    BY <1>5
  <2>2. /\ spare \in 0 .. offset
        /\ InOrder(SubSeq(Flow, spare + 1, Len(Flow)), parsed', begun)
        /\ R!Valid(R!Start) => readbuf[R!Start][1] \in Nat
    BY <1>1, <1>5, <2>1, ParseOrder
  <2>3. /\ Flow' = SubSeq(Flow, spare + 1, Len(Flow))
        /\ readbuf' \in [0 .. BUF_SIZE - 1 -> Byte] /\ offset' \in 0 .. BUF_SIZE - 1
    BY <1>1, <1>2, <2>1, <2>2, MovedFlow
  <2>4. parsed' \in Seq(Nat)
    BY <1>3, <2>1, <2>2, AppendProperties
  <2>5. RxTypeOK'
    BY <1>1, <1>2, <2>3, <2>4 DEF RxTypeOK
  <2>6. InOrder(Flow', parsed', begun')
    BY <1>2, <2>2, <2>3
  <2>7. ASSUME ~dropped' PROVE Intact(Flow', parsed', begun')
    <3>1. Intact(Flow, parsed, begun)
      BY <1>1, <1>2, <2>7
    <3>2. /\ R!Start = 0
          /\ ~R!Incomplete(0) =>
                 /\ R!Valid(0) /\ R!EndOf(0) <= offset
                 /\ Intact(SubSeq(Flow, R!EndOf(0) + 1, Len(Flow)), Append(parsed, readbuf[0][1]), begun)
      BY <1>1, <1>5, <3>1, ParseIntact
    <3>3. ~R!Incomplete(0)
      BY <1>5, <3>2
    <3>4. R!Valid(0) /\ ~(R!EndOf(0) > offset)
      <4>1. R!EndOf(0) \in Nat
        <5>1. R!LengthAt(0) \in Nat
          BY <1>1, <1>3, LengthIs
        <5> QED
          BY <5>1 DEF R!EndOf
      <4> QED
        BY <1>3, <3>2, <3>3, <4>1
    <3>5. spare = R!EndOf(0) /\ parsed' = Append(parsed, readbuf[0][1])
      BY <2>1, <3>2, <3>4
    <3> QED
      BY <1>2, <2>3, <3>2, <3>3, <3>5
  <2> QED
    BY <2>5, <2>6, <2>7 DEF RxInv
<1>6. CASE /\ offset >= READ_SIZE /\ ~(R!Start >= 0) /\ ~(offset - READ_SIZE < READ_SIZE)
           /\ readbuf' = R!Moved(offset - READ_SIZE)
           /\ offset' = READ_SIZE
           /\ UNCHANGED parsed
  <2> DEFINE spare == offset - READ_SIZE
  <2>1. spare \in 0 .. offset /\ offset' = offset - spare
    BY <1>3, <1>6
  <2>2. /\ Flow' = SubSeq(Flow, spare + 1, Len(Flow))
        /\ readbuf' \in [0 .. BUF_SIZE - 1 -> Byte] /\ offset' \in 0 .. BUF_SIZE - 1
    BY <1>1, <1>2, <1>6, <2>1, MovedFlow
  <2> HIDE DEF spare
  <2>3. spare \in 0 .. Len(Flow)
    BY <1>3, <2>1
  <2>4. InOrder(Flow', parsed', begun')
    <3>1. InOrder(SubSeq(Flow, spare + 1, Len(Flow)), parsed, begun)
      BY <1>1, <1>3, <2>3, DropInOrder
    <3> QED
      BY <1>2, <1>6, <2>2, <3>1
  <2>5. RxTypeOK'
    BY <1>1, <1>2, <1>6, <2>2 DEF RxTypeOK
  <2>6. dropped'
    <3> SUFFICES ASSUME ~dropped PROVE FALSE
      BY <1>1, <1>2 DEF RxTypeOK
    <3>1. R!Start = 0
      BY <1>1, <1>6, ParseIntact
    <3> QED
      BY <1>6, <3>1
  <2> QED
    BY <2>4, <2>5, <2>6 DEF RxInv
<1>7. offset < READ_SIZE \/ offset >= READ_SIZE
  BY <1>3
<1> QED
  BY <1>4, <1>5, <1>6, <1>7 DEF R!Parse

LEMMA ReadInv ==
  ASSUME RxInv, R!Read
  PROVE  RxInv'
<1>1. RxTypeOK /\ InOrder(Flow, parsed, begun) /\ (~dropped => Intact(Flow, parsed, begun))
  BY DEF RxInv
<1>2. UNCHANGED <<begun, parsed>> /\ rx' = "parse"
  BY DEF R!Read
<1>3. PICK reset \in BOOLEAN :
        LET full == offset + RSIZE >= BUF_SIZE
            from == IF full \/ reset THEN 0 ELSE offset
        IN  /\ dropped' = (dropped \/ full \/ reset)
            /\ \E n \in 0 .. RSIZE :
                /\ n <= Len(wire)
                /\ readbuf' = [i \in DOMAIN readbuf |->
                                IF i \in from .. from + n - 1 THEN wire[i - from + 1] ELSE readbuf[i]]
                /\ offset' = from + n
                /\ wire' = SubSeq(wire, n + 1, Len(wire))
  BY DEF R!Read
<1> DEFINE gone == offset + RSIZE >= BUF_SIZE \/ reset
<1>4. PICK from : from = IF gone THEN 0 ELSE offset
  OBVIOUS
<1>5. dropped' = (dropped \/ gone)
  BY <1>3
<1>6. PICK n \in 0 .. RSIZE :
                /\ n <= Len(wire)
                /\ readbuf' = [i \in DOMAIN readbuf |->
                                IF i \in from .. from + n - 1 THEN wire[i - from + 1] ELSE readbuf[i]]
                /\ offset' = from + n
                /\ wire' = SubSeq(wire, n + 1, Len(wire))
  BY <1>3, <1>4
<1>7. /\ BUF_SIZE \in Nat /\ RSIZE \in Nat /\ RSIZE < BUF_SIZE /\ offset \in Nat /\ offset <= BUF_SIZE - 1
      /\ wire \in Seq(Byte) /\ Len(wire) \in Nat /\ n \in Nat /\ n <= RSIZE
      /\ DOMAIN readbuf = 0 .. BUF_SIZE - 1
  BY <1>1, <1>6, RxAssumed DEF RxTypeOK
<1>8. from \in Nat /\ from + n <= BUF_SIZE - 1 /\ from <= offset
  <2>1. CASE gone
    BY <1>4, <1>7, <2>1
  <2>2. CASE ~gone
    <3>1. from = offset /\ ~(offset + RSIZE >= BUF_SIZE)
      BY <1>4, <2>2
    <3> QED
      BY <1>7, <3>1
  <2> QED
    BY <2>1, <2>2
<1> HIDE DEF gone
<1>9. n \in 0 .. Len(wire)
  BY <1>6, <1>7
<1>10. /\ wire' \in Seq(Byte) /\ Len(wire') = Len(wire) - n
       /\ \A i \in 1 .. Len(wire) - n : wire'[i] = wire[i + n]
  BY <1>6, <1>7, <1>9, DropElements
<1>11. \A i \in 0 .. BUF_SIZE - 1 :
          /\ i \in from .. from + n - 1 => i - from + 1 \in 1 .. Len(wire)
          /\ readbuf'[i] = IF i \in from .. from + n - 1 THEN wire[i - from + 1] ELSE readbuf[i]
  BY <1>6, <1>7, <1>8
<1>12. readbuf' \in [0 .. BUF_SIZE - 1 -> Byte]
  <2>1. \A i \in 0 .. BUF_SIZE - 1 : readbuf[i] \in Byte
    BY <1>1 DEF RxTypeOK
  <2>2. \A i \in 1 .. Len(wire) : wire[i] \in Byte
    BY <1>7
  <2>3. \A i \in 0 .. BUF_SIZE - 1 : readbuf'[i] \in Byte
    BY <1>11, <2>1, <2>2
  <2>4. readbuf' = [i \in 0 .. BUF_SIZE - 1 |-> readbuf'[i]]
    BY <1>6, <1>7
  <2> QED
    BY <2>3, <2>4
<1>13. RxTypeOK'
  <2>1. offset' \in 0 .. BUF_SIZE - 1
    BY <1>6, <1>7, <1>8
  <2>2. dropped' \in BOOLEAN
    BY <1>5
  <2> QED
    BY <1>1, <1>2, <1>10, <1>12, <2>1, <2>2 DEF RxTypeOK
<1>14. /\ Flow' \in Seq(Byte) /\ Len(Flow)' = offset' + Len(wire')
       /\ \A i \in 1 .. offset' : Flow'[i] = readbuf'[i - 1]
       /\ \A i \in 1 .. Len(wire') : Flow'[offset' + i] = wire'[i]
  <2>1. readbuf' \in [0 .. BUF_SIZE - 1 -> Byte] /\ offset' \in 0 .. BUF_SIZE - 1 /\ wire' \in Seq(Byte)
    BY <1>13 DEF RxTypeOK
  <2>2. Flow' = FlowOf(readbuf', offset', wire')
    BY DEF Flow, Fresh, FlowOf
  <2> HIDE DEF FlowOf
  <2> QED
    BY <2>1, <2>2, FlowOfIs
<1>15. /\ Flow \in Seq(Byte) /\ Len(Flow) = offset + Len(wire)
       /\ \A i \in 1 .. offset : Flow[i] = readbuf[i - 1]
       /\ \A i \in 1 .. Len(wire) : Flow[offset + i] = wire[i]
  BY <1>1, FlowIs
<1> DEFINE f == Flow
<1> DEFINE f1 == Flow'
<1> HIDE DEF f, f1
\* Whatever is kept of the buffer, the bytes on the wire follow it.
<1>16. Len(f1) = from + Len(wire)
  BY <1>6, <1>7, <1>8, <1>9, <1>10, <1>14 DEF f1
<1>17. \A i \in 1 .. from : f1[i] = readbuf[i - 1]
  <2> SUFFICES ASSUME NEW i \in 1 .. from PROVE f1[i] = readbuf[i - 1]
    OBVIOUS
  <2>1. PICK j \in Int : j = i - 1
    OBVIOUS
  <2>2. i \in 1 .. offset' /\ j \in 0 .. BUF_SIZE - 1 /\ ~(j \in from .. from + n - 1)
    BY <1>6, <1>7, <1>8, <2>1
  <2>3. readbuf'[j] = readbuf[j]
    BY <1>11, <2>2
  <2>4. f1[i] = readbuf'[i - 1]
    BY <1>14, <2>2 DEF f1
  <2> QED
    BY ONLY <2>1, <2>3, <2>4
<1>18. \A i \in 1 .. Len(wire) : f1[from + i] = wire[i]
  <2> SUFFICES ASSUME NEW i \in 1 .. Len(wire) PROVE f1[from + i] = wire[i]
    OBVIOUS
  <2>1. PICK j \in Nat : j = from + i
    BY <1>8
  <2>2. CASE i <= n
    <3>1. PICK h \in Nat : h = j - 1
      BY <1>8, <2>1
    <3>2. j \in 1 .. offset' /\ h \in from .. from + n - 1 /\ h \in 0 .. BUF_SIZE - 1 /\ h - from + 1 = i
      BY <1>6, <1>7, <1>8, <2>1, <2>2, <3>1
    <3>3. readbuf'[h] = wire[h - from + 1]
      BY <1>11, <3>2
    <3>4. f1[j] = readbuf'[j - 1]
      BY <1>14, <3>2 DEF f1
    <3>5. f1[j] = wire[i]
      BY ONLY <3>1, <3>2, <3>3, <3>4
    <3> QED
      BY ONLY <2>1, <3>5
  <2>3. CASE ~(i <= n)
    <3>1. PICK h \in Nat : h = i - n
      BY <1>7, <2>3
    <3>2. h \in 1 .. Len(wire) - n /\ h \in 1 .. Len(wire') /\ h + n = i /\ offset' + h = j
      BY <1>6, <1>7, <1>8, <1>10, <2>1, <2>3, <3>1
    <3>3. wire'[h] = wire[h + n]
      BY <1>10, <3>2
    <3>4. f1[offset' + h] = wire'[h]
      BY <1>14, <3>2 DEF f1
    <3>5. f1[j] = wire[i]
      BY ONLY <3>2, <3>3, <3>4
    <3> QED
      BY ONLY <2>1, <3>5
  <2> QED
    BY <2>2, <2>3
<1>19. f1 \in Seq(Byte) /\ f \in Seq(Byte) /\ Len(f) = offset + Len(wire)
  BY <1>14, <1>15 DEF f, f1
<1>20. CASE gone
  <2>1. from = 0
    BY <1>4, <1>20
  <2> DEFINE h == SubSeq(f, offset + 1, Len(f))
  <2>2. offset \in 0 .. Len(f)
    BY <1>7, <1>19
  <2>3. h \in Seq(Byte) /\ Len(h) = Len(f) - offset /\ \A i \in 1 .. Len(f) - offset : h[i] = f[i + offset]
    BY <1>19, <2>2, DropElements
  <2>4. InOrder(h, parsed, begun)
    <3>1. parsed \in Seq(Nat) /\ begun \in Nat
      BY <1>1, RxAssumed DEF RxTypeOK
    <3> QED
      BY <1>1, <1>19, <2>2, <3>1, DropInOrder DEF f
  <2> HIDE DEF h
  <2>5. Len(h) = Len(wire) /\ Len(f1) = Len(wire)
    BY <1>7, <1>16, <1>19, <2>1, <2>3
  <2>6. \A i \in 1 .. Len(wire) : f1[i] = h[i]
    <3> SUFFICES ASSUME NEW i \in 1 .. Len(wire) PROVE f1[i] = h[i]
      OBVIOUS
    <3>1. PICK j \in Nat : j = offset + i
      BY <1>7
    <3>2. from + i = i /\ i + offset = j /\ i \in 1 .. Len(f) - offset
      BY <1>7, <1>19, <2>1, <3>1
    <3>3. f[offset + i] = wire[i] /\ f1[from + i] = wire[i] /\ h[i] = f[i + offset]
      BY <1>15, <1>18, <2>3, <3>2 DEF f
    <3> QED
      BY ONLY <3>1, <3>2, <3>3
  <2>7. f1 = h
    BY <1>19, <2>3, <2>5, <2>6, SameSequence
  <2>8. InOrder(Flow', parsed', begun')
    BY <1>2, <2>4, <2>7 DEF f1
  <2> QED
    BY <1>5, <1>13, <1>20, <2>8 DEF RxInv
<1>21. CASE ~gone
  <2>1. from = offset
    BY <1>4, <1>21
  <2>2. Len(f1) = Len(f)
    BY <1>16, <1>19, <2>1
  <2>3. \A i \in 1 .. Len(f1) : f1[i] = f[i]
    <3> SUFFICES ASSUME NEW i \in 1 .. Len(f1) PROVE f1[i] = f[i]
      OBVIOUS
    <3>1. CASE i <= offset
      <4>1. i \in 1 .. offset /\ i \in 1 .. from
        BY <2>1, <3>1
      <4> QED
        BY <1>15, <1>17, <4>1 DEF f
    <3>2. CASE ~(i <= offset)
      <4>1. PICK j \in Nat : j = i - offset
        BY <1>7, <3>2
      <4>2. j \in 1 .. Len(wire) /\ offset + j = i /\ from + j = i
        BY <1>7, <1>16, <2>1, <3>2, <4>1
      <4>3. f[offset + j] = wire[j] /\ f1[from + j] = wire[j]
        BY <1>15, <1>18, <4>2 DEF f
      <4> QED
        BY ONLY <4>2, <4>3
    <3> QED
      BY <3>1, <3>2
  <2>4. f1 = f
    BY <1>19, <2>2, <2>3, SameSequence
  <2>5. Flow' = Flow
    BY <2>4 DEF f, f1
  <2>6. dropped' = dropped
    BY <1>1, <1>5, <1>21 DEF RxTypeOK
  <2> QED
    BY <1>1, <1>2, <1>13, <2>5, <2>6 DEF RxInv
<1> QED
  BY <1>20, <1>21

LEMMA SendPacketInv ==
  ASSUME RxInv, R!SendPacket
  PROVE  RxInv'
<1> DEFINE q == begun + 1
<1>1. RxTypeOK /\ InOrder(Flow, parsed, begun) /\ (~dropped => Intact(Flow, parsed, begun))
  BY DEF RxInv
<1>2. /\ begun < Len(Length) /\ begun' = q /\ UNCHANGED <<readbuf, offset, rx, noise, dropped, parsed>>
      /\ wire' = wire \o Packet(q)
  BY DEF R!SendPacket, Packet
<1>3. begun \in Nat /\ parsed \in Seq(Nat) /\ wire \in Seq(Byte) /\ Len(Length) \in Nat
      /\ q \in 1 .. Len(Length) /\ q \in 0 .. Len(Length) /\ q - 1 = begun /\ begun \in 0 .. Len(Length)
  BY <1>1, <1>2, RxAssumed DEF RxTypeOK
<1>4. Packet(q) \in Seq(Byte) /\ Len(Packet(q)) = Length[q]
      /\ \A k \in 1 .. Length[q] : Packet(q)[k] = <<q, k - 1>>
  BY <1>3, PacketBytes
<1>5. Fresh \in Seq(Byte)
  <2>1. \A i \in 1 .. offset : i - 1 \in 0 .. BUF_SIZE - 1
    BY <1>1, RxAssumed DEF RxTypeOK
  <2>2. \A i \in 1 .. offset : readbuf[i - 1] \in Byte
    BY <1>1, <2>1 DEF RxTypeOK
  <2>3. offset \in Nat
    BY <1>1, RxAssumed DEF RxTypeOK
  <2> QED
    BY <2>2, <2>3 DEF Fresh
<1>6. Flow' = Flow \o Packet(q)
  <2> HIDE DEF q
  <2>1. (Fresh \o wire) \o Packet(q) = Fresh \o (wire \o Packet(q))
    <3>1. wire \in Seq(Byte) /\ Packet(q) \in Seq(Byte)
      BY <1>3, <1>4
    <3> QED
      BY ONLY <1>5, <3>1, ConcatAssociative, SMTT(60)
  <2>2. Fresh' = Fresh
    BY <1>2 DEF Fresh
  <2>3. Flow' = Fresh' \o wire'
    BY DEF Flow
  <2> QED
    BY <1>2, <2>1, <2>2, <2>3 DEF Flow
<1>7. Flow \in Seq(Byte)
  BY <1>1, FlowIs
<1>8. RxTypeOK'
  <2>1. wire' \in Seq(Byte)
    BY <1>2, <1>3, <1>4, ConcatProperties
  <2> QED
    BY <1>1, <1>2, <1>3, <2>1 DEF RxTypeOK
<1>9. InOrder(Flow', parsed', begun')
  <2>1. \A k \in 1 .. Len(Packet(q)) : Opens(Packet(q)[k]) => k = 1 /\ Packet(q)[k][1] = q
    <3> SUFFICES ASSUME NEW k \in 1 .. Len(Packet(q)), Opens(Packet(q)[k])
                 PROVE  k = 1 /\ Packet(q)[k][1] = q
      OBVIOUS
    <3>1. Packet(q)[k] = <<q, k - 1>> /\ k \in Int
      BY <1>4
    <3>2. k - 1 = 0
      BY <3>1 DEF Opens
    <3> QED
      BY <3>1, <3>2
  <2>2. InOrder(Flow \o Packet(q), parsed, q)
    BY <1>1, <1>3, <1>4, <1>7, <2>1, PacketInOrder
  <2> QED
    BY <1>2, <1>6, <2>2
<1>10. ASSUME ~dropped' PROVE Intact(Flow', parsed', begun')
  <2> DEFINE m == Len(parsed)
  <2>1. Intact(Flow, parsed, begun)
    BY <1>1, <1>2, <1>10
  <2>2. m <= begun /\ parsed = [n \in 1 .. m |-> n] /\ Stream(m) \o Flow = Stream(begun) /\ m \in Nat
    BY <1>3, <2>1 DEF Intact
  <2>3. Stream(m) \in Seq(Byte)
    BY <1>3, <2>2, StreamBytes
  <2>4. Stream(q) = Stream(begun) \o Packet(q)
    BY <1>3, StreamNext
  <2> HIDE DEF m, q
  <2>5. (Stream(m) \o Flow) \o Packet(q) = Stream(m) \o (Flow \o Packet(q))
    BY ONLY <1>4, <1>7, <2>3, ConcatAssociative, SMTT(60)
  <2>6. Stream(m) \o (Flow \o Packet(q)) = Stream(q)
    BY <2>2, <2>4, <2>5
  <2>7. m <= q
    BY <1>3, <2>2 DEF q
  <2>8. Intact(Flow \o Packet(q), parsed, q)
    BY <2>2, <2>6, <2>7 DEF Intact, m
  <2> QED
    BY <1>2, <1>6, <2>8
<1> QED
  BY <1>8, <1>9, <1>10 DEF RxInv

LEMMA SendNoiseInv ==
  ASSUME RxInv, R!SendNoise
  PROVE  RxInv'
<1>1. RxTypeOK /\ InOrder(Flow, parsed, begun)
  BY DEF RxInv
<1>2. dropped' = TRUE /\ UNCHANGED <<readbuf, offset, rx, begun, parsed>>
  BY DEF R!SendNoise
<1>3. PICK v \in Noise : wire' = Append(wire, <<0, v>>)
  BY DEF R!SendNoise
<1>4. <<0, v>> \in Byte
  BY RxAssumed DEF Byte
<1> DEFINE x == <<0, v>>
<1>5. x \in Byte /\ ~Opens(x) /\ wire' = Append(wire, x)
  BY <1>3, <1>4 DEF Opens
<1> HIDE DEF x
<1>6. wire \in Seq(Byte) /\ parsed \in Seq(Nat) /\ begun \in Nat
  BY <1>1, RxAssumed DEF RxTypeOK
<1>7. RxTypeOK'
  <2>1. wire' \in Seq(Byte)
    BY <1>5, <1>6, AppendProperties
  <2> QED
    BY <1>1, <1>2, <2>1 DEF RxTypeOK
<1>8. /\ Flow \in Seq(Byte) /\ Len(Flow) = offset + Len(wire)
      /\ \A i \in 1 .. offset : Flow[i] = readbuf[i - 1]
      /\ \A i \in 1 .. Len(wire) : Flow[offset + i] = wire[i]
  BY <1>1, FlowIs
<1>9. Flow' = Append(Flow, x)
  <2>1. Fresh \in Seq(Byte)
    <3>1. \A i \in 1 .. offset : i - 1 \in 0 .. BUF_SIZE - 1
      BY <1>1, RxAssumed DEF RxTypeOK
    <3>2. \A i \in 1 .. offset : readbuf[i - 1] \in Byte
      BY <1>1, <3>1 DEF RxTypeOK
    <3>3. offset \in Nat
      BY <1>1, RxAssumed DEF RxTypeOK
    <3> QED
      BY <3>2, <3>3 DEF Fresh
  <2>2. Fresh' = Fresh
    BY <1>2 DEF Fresh
  <2>3. <<x>> \in Seq(Byte)
    BY <1>5
  <2>4. (Fresh \o wire) \o <<x>> = Fresh \o (wire \o <<x>>)
    BY ONLY <1>6, <2>1, <2>3, ConcatAssociative, SMTT(60)
  <2>5. Append(wire, x) = wire \o <<x>> /\ Append(Flow, x) = Flow \o <<x>>
    BY <1>5, <1>6, <1>8, AppendIsConcat
  <2>6. Flow' = Fresh' \o wire'
    BY DEF Flow
  <2> QED
    BY <1>5, <2>2, <2>4, <2>5, <2>6 DEF Flow
<1>10. InOrder(Append(Flow, x), parsed, begun)
  BY <1>1, <1>5, <1>6, <1>8, NoiseInOrder
<1>11. InOrder(Flow', parsed', begun')
  BY <1>2, <1>9, <1>10
<1> QED
  BY <1>2, <1>7, <1>11 DEF RxInv

LEMMA RxStepInv ==
  ASSUME RxInv, R!Next \/ UNCHANGED rxVars
  PROVE  RxInv'
<1>1. CASE R!Next
  BY <1>1, ParseInv, ReadInv, SendPacketInv, SendNoiseInv DEF R!Next, R!Receiving
<1>2. CASE UNCHANGED rxVars
  <2>1. UNCHANGED <<readbuf, offset, rx, wire, begun, dropped, parsed>>
    BY <1>2 DEF rxVars
  <2>2. Flow' = Flow
    BY <2>1 DEF Flow, Fresh
  <2>3. RxTypeOK'
    BY <2>1 DEF RxInv, RxTypeOK
  <2>4. InOrder(Flow', parsed', begun') /\ (~dropped' => Intact(Flow', parsed', begun'))
    BY <2>1, <2>2 DEF RxInv
  <2> QED
    BY <2>3, <2>4 DEF RxInv
<1> QED
  BY <1>1, <1>2

\* What was accepted, the buffer and the wire are together what was sent.
LEMMA RxInvExact ==
  ASSUME RxInv
  PROVE  R!PacketsExact
<1>1. RxTypeOK /\ InOrder(Flow, parsed, begun) /\ (~dropped => Intact(Flow, parsed, begun))
  BY DEF RxInv
<1>2. DOMAIN parsed = 1 .. Len(parsed) /\ Len(parsed) \in Nat
  BY <1>1 DEF RxTypeOK
<1>3. \A m, n \in DOMAIN parsed : m < n => parsed[m] < parsed[n]
  BY <1>1, <1>2 DEF InOrder
<1>4. ASSUME ~dropped
      PROVE  R!FlattenSeq([n \in DOMAIN parsed |-> [k \in 1 .. Length[parsed[n]] |-> <<parsed[n], k - 1>>]])
                 \o [i \in 1 .. offset |-> readbuf[i - 1]] \o wire
             = R!FlattenSeq([p \in 1 .. begun |-> [k \in 1 .. Length[p] |-> <<p, k - 1>>]])
  <2> DEFINE m == Len(parsed)
  <2>1. m <= begun /\ parsed = [n \in 1 .. m |-> n] /\ Stream(m) \o Flow = Stream(begun)
    BY <1>1, <1>4 DEF Intact
  <2>2. \A n \in 1 .. m : parsed[n] = n
    BY <2>1
  <2>3. [n \in DOMAIN parsed |-> [k \in 1 .. Length[parsed[n]] |-> <<parsed[n], k - 1>>]]
        = [n \in 1 .. m |-> Packet(n)]
    BY <1>2, <2>2 DEF Packet
  <2>4. begun \in 0 .. Len(Length) /\ m \in 0 .. Len(Length)
    BY <1>1, <1>2, <2>1, RxAssumed DEF RxTypeOK
  <2>5. Stream(m) \in Seq(Byte) /\ wire \in Seq(Byte)
    BY <1>1, <2>4, StreamBytes DEF RxTypeOK
  <2>6. Fresh \in Seq(Byte)
    <3>1. \A i \in 1 .. offset : i - 1 \in 0 .. BUF_SIZE - 1
      BY <1>1, RxAssumed DEF RxTypeOK
    <3>2. \A i \in 1 .. offset : readbuf[i - 1] \in Byte
      BY <1>1, <3>1 DEF RxTypeOK
    <3>3. offset \in Nat
      BY <1>1, RxAssumed DEF RxTypeOK
    <3> QED
      BY <3>2, <3>3 DEF Fresh
  <2>7. (Stream(m) \o Fresh) \o wire = Stream(m) \o (Fresh \o wire)
    BY ONLY <2>5, <2>6, ConcatAssociative, SMTT(60)
  <2>8. (Stream(m) \o Fresh) \o wire = Stream(begun)
    BY <2>1, <2>7 DEF Flow
  <2>9. Stream(m)
        = R!FlattenSeq([n \in DOMAIN parsed |-> [k \in 1 .. Length[parsed[n]] |-> <<parsed[n], k - 1>>]])
    BY <2>3 DEF Stream
  <2>10. Stream(begun) = R!FlattenSeq([p \in 1 .. begun |-> [k \in 1 .. Length[p] |-> <<p, k - 1>>]])
    BY DEF Stream, Packet
  <2> QED
    BY <2>8, <2>9, <2>10 DEF Fresh
<1> QED
  BY <1>3, <1>4 DEF R!PacketsExact

(***************************************************************************)
(* RxBuffer: the theorem                                                   *)
(***************************************************************************)
PacketsInv == part = "rx" => RxInv

\* driver-bitmain.c: bitmain_get_results accepts every packet at most once and in the order they
\* were sent, whatever pieces they arrive in, whatever noise is between them and whenever the buffer
\* is emptied; without noise and without an emptied buffer it loses no byte of them.
THEOREM PacketsExactHolds == MCSpec => []PacketsExact
<1>1. MCInit => PacketsInv
  BY RxInitInv DEF MCInit, PacketsInv
<1>2. PacketsInv /\ [MCNext]_allVars => PacketsInv'
  <2> SUFFICES ASSUME PacketsInv, [MCNext]_allVars, part' = "rx" PROVE RxInv'
    BY DEF PacketsInv
  <2>1. part = "rx" /\ (R!Next \/ UNCHANGED rxVars)
    BY DEF MCNext, Only, allVars
  <2> QED
    BY <2>1, RxStepInv DEF PacketsInv
<1>3. PacketsInv => PacketsExact
  BY RxInvExact DEF PacketsInv, PacketsExact
<1> QED
  BY <1>1, <1>2, <1>3, PTL DEF MCSpec

(***************************************************************************)
(* Api: what the commands change                                           *)
(***************************************************************************)
Reading == {"version", "config", "devs", "edevs", "pools", "summary", "pgacount", "notify", "devdetails",
            "stats", "estats", "coin", "usbstats", "asccount", "lcd", "pga", "asc", "check"}

LEMMA ReadingCommands == A!Command \ A!WriteMode \subseteq Reading
  BY DEF A!Command, A!WriteMode, A!Joinable, Reading

OnlyReports(reply) == reply.changes = FALSE /\ reply.put = FALSE

LEMMA Reports ==
  /\ \A isjson, items : OnlyReports(A!Section(isjson, items))
  /\ \A isjson : OnlyReports(A!Status(isjson, FALSE))
  BY DEF OnlyReports, A!Section, A!Status

\* The handlers of the commands without a "writemode" in the table leave the miner as it is.
LEMMA ReadingReports ==
  ASSUME NEW name \in Reading, NEW m, NEW isjson, NEW param
  PROVE  OnlyReports(A!cmds(name, m, isjson, param))
<1>1. CASE name \in {"version", "config", "summary", "pga", "pgacount", "check", "coin", "asc",
                  "asccount"}
  BY <1>1, Reports DEF A!cmds, A!apiversion, A!minerconfig, A!summary, A!pgadev, A!pgacount,
     A!checkcommand, A!minecoin, A!ascdev, A!asccount
<1>2. CASE name \in {"devs", "edevs", "pools", "notify", "devdetails", "stats", "estats", "usbstats",
                  "lcd"}
  BY <1>2, Reports DEF A!cmds, A!devstatus, A!edevstatus, A!poolstatus, A!notify, A!devdetails,
     A!minerstats, A!minerestats, A!usbstats, A!lcddisplay
<1> QED
  BY <1>1, <1>2 DEF Reading

(***************************************************************************)
(* Api: the invariant                                                      *)
(***************************************************************************)
\* Some entry of --api-allow gives the address more than group R.
Privileged(address) ==
    \E k \in DOMAIN config.allow : address \in config.allow[k].net /\ config.allow[k].group # "R"

\* A connection has another group than R, and has changed something, only if its client is entitled to.
ApiInv ==
    /\ config \in Config
    /\ bye \in BOOLEAN
    /\ group # "R" => Privileged(client)
    /\ changed # {} => Privileged(client)

LEMMA ConnectionEntitled ==
  ASSUME config \in Config, NEW address, A!check_connect(address).group # "R"
  PROVE  Privileged(address)
<1> DEFINE hits == {k \in DOMAIN A!IpTable : address \in A!IpTable[k].net}
<1> DEFINE first == CHOOSE k \in hits : \A h \in hits : k <= h
<1>1. config.allow # <<>> /\ hits # {} /\ A!IpTable[first].group # "R"
  BY DEF A!check_connect
<1>2. DOMAIN config.allow \subseteq Nat
  BY MCCgminerAssumption DEF A!ApiAssumption
<1>3. /\ DOMAIN A!IpTable \subseteq DOMAIN config.allow
      /\ \A k \in DOMAIN A!IpTable :
            /\ A!IpTable[k].net = config.allow[k].net
            /\ A!IpTable[k].group # "R" => A!IpTable[k].group = config.allow[k].group
  BY DEF A!IpTable
<1>4. hits \in SUBSET Nat
  BY <1>2, <1>3
<1>5. first \in hits
  <2> HIDE DEF hits
  <2>1. \E k \in hits : \A h \in hits : k <= h
    BY <1>1, <1>4, Least
  <2> QED
    BY <2>1
<1> HIDE DEF first
<1>6. first \in DOMAIN config.allow /\ address \in config.allow[first].net
      /\ config.allow[first].group # "R"
  BY <1>1, <1>3, <1>5
<1> QED
  BY <1>6 DEF Privileged

\* A command that changes something, or ends the program, is one the group may run.
LEMMA ReadersCommand ==
  ASSUME NEW name, group = "R"
  PROVE  OnlyReports(A!Answer(name))
<1>1. CASE name \in A!Command /\ A!MayRun(group, name)
  <2>1. name \in A!Command \ A!WriteMode
    BY <1>1 DEF A!MayRun, A!setup_groups
  <2>2. name \in Reading
    BY <2>1, ReadingCommands
  <2>3. OnlyReports(A!cmds(name, config.miner, request.json, request.param))
    BY <2>2, ReadingReports
  <2> QED
    BY <2>3, Reports DEF A!Answer
<1>2. CASE ~(name \in A!Command /\ A!MayRun(group, name))
  BY <1>2, Reports DEF A!Answer
<1> QED
  BY <1>1, <1>2

LEMMA DoCommandReads ==
  ASSUME ApiInv, A!DoCommand, changed' # changed \/ bye' # bye
  PROVE  Privileged(client)
<1>1. CASE group # "R"
  BY <1>1 DEF ApiInv
<1>2. CASE group = "R"
  <2> DEFINE reply == A!Answer(Head(todo))
  <2>1. OnlyReports(reply)
    BY <1>2, ReadersCommand
  <2>2. \/ UNCHANGED <<changed, bye>>
        \/ /\ changed' = (IF reply.changes THEN changed \cup {Head(todo)} ELSE changed)
           /\ bye' = (bye \/ reply.put)
    BY DEF A!DoCommand
  <2> HIDE DEF reply
  <2>3. changed' = changed /\ bye' = bye
    BY <2>1, <2>2 DEF OnlyReports, ApiInv
  <2> QED
    BY <2>3
<1> QED
  BY <1>1, <1>2

\* Whatever is done for a client who is not entitled changes nothing.
LEMMA ApiReads ==
  ASSUME ApiInv, A!Next
  PROVE  A!OnlyReads
<1> SUFFICES ASSUME changed' # {} \/ (bye' # bye /\ pc = "command") PROVE Privileged(client)
  BY DEF A!OnlyReads, Privileged
<1>1. CASE A!DoCommand
  <2>1. CASE changed' # changed \/ bye' # bye
    BY <1>1, <2>1, DoCommandReads
  <2>2. CASE changed' = changed /\ bye' = bye
    BY <2>2 DEF ApiInv
  <2> QED
    BY <2>1, <2>2
<1>2. CASE A!Accept
  <2>1. changed' = {} /\ pc = "accept"
    BY <1>2 DEF A!Accept
  <2> QED
    BY <2>1
<1>3. CASE A!CloseSocket
  <2>1. changed' = {} /\ pc = "closed"
    BY <1>3 DEF A!CloseSocket
  <2> QED
    BY <2>1
<1>4. CASE \/ A!AcceptFails \/ A!send_result \/ A!SendAgain \/ A!tidyup \/ A!Bye
           \/ A!quit_thread \/ A!mcast
  <2>1. changed' = changed
    BY <1>4 DEF A!AcceptFails, A!send_result, A!SendAgain, A!tidyup, A!Bye, A!quit_thread, A!mcast,
                A!requestVars
  <2>2. pc = "command" => bye' = bye
    BY <1>4 DEF A!AcceptFails, A!send_result, A!SendAgain, A!tidyup, A!Bye, A!quit_thread, A!mcast,
                A!endVars
  <2> QED
    BY <2>1, <2>2 DEF ApiInv
<1> QED
  BY <1>1, <1>2, <1>3, <1>4 DEF A!Next, A!ApiThread, A!Answering

LEMMA ApiStepInv ==
  ASSUME ApiInv, A!Next \/ UNCHANGED apiVars
  PROVE  ApiInv'
<1>1. CASE A!DoCommand
  <2>1. UNCHANGED <<config, client, group>>
    BY <1>1 DEF A!DoCommand
  <2>2. Privileged(client)' = Privileged(client)
    BY <2>1 DEF Privileged
  <2>3. bye' \in BOOLEAN
    BY <1>1 DEF A!DoCommand, ApiInv
  <2>4. changed' # {} => Privileged(client)
    <3>1. CASE changed' # changed
      BY <1>1, <3>1, DoCommandReads
    <3>2. CASE changed' = changed
      BY <3>2 DEF ApiInv
    <3> QED
      BY <3>1, <3>2
  <2> QED
    BY <2>1, <2>2, <2>3, <2>4 DEF ApiInv
<1>2. CASE A!Accept
  <2>1. PICK address \in Address : /\ client' = address
                                   /\ group' = A!check_connect(address).group
    BY <1>2 DEF A!Accept
  <2>2. changed' = {} /\ UNCHANGED <<config, bye>>
    BY <1>2 DEF A!Accept, A!endVars
  <2>3. group' # "R" => Privileged(address)
    BY <2>1, ConnectionEntitled DEF ApiInv
  <2>4. Privileged(client)' = Privileged(address)
    BY <2>1, <2>2 DEF Privileged
  <2> QED
    BY <2>2, <2>3, <2>4 DEF ApiInv
<1>3. CASE A!CloseSocket
  <2>1. changed' = {} /\ group' = "R" /\ UNCHANGED <<config, bye>>
    BY <1>3 DEF A!CloseSocket, A!endVars
  <2> QED
    BY <2>1 DEF ApiInv
<1>4. CASE \/ A!AcceptFails \/ A!send_result \/ A!SendAgain \/ A!tidyup \/ A!Bye
           \/ A!quit_thread \/ A!mcast \/ UNCHANGED apiVars
  <2>1. UNCHANGED <<config, client, group, changed>>
    BY <1>4 DEF A!AcceptFails, A!send_result, A!SendAgain, A!tidyup, A!Bye, A!quit_thread, A!mcast,
                A!requestVars, A!endVars, apiVars
  <2>2. bye' = bye \/ bye' = TRUE
    BY <1>4 DEF A!AcceptFails, A!send_result, A!SendAgain, A!tidyup, A!Bye, A!quit_thread, A!mcast,
                A!endVars, apiVars
  <2>3. Privileged(client)' = Privileged(client)
    BY <2>1 DEF Privileged
  <2> QED
    BY <2>1, <2>2, <2>3 DEF ApiInv
<1> QED
  BY <1>1, <1>2, <1>3, <1>4 DEF A!Next, A!ApiThread, A!Answering

ReadersInv == part = "api" => ApiInv

\* api.c: a client that no entry of --api-allow gives more than group R runs no command that changes
\* the miner or ends it, whatever it sends or joins, for any groups, addresses and miner.
THEOREM ReadersOnlyReadHolds == MCSpec => ReadersOnlyRead
<1>1. MCInit => ReadersInv
  BY DEF MCInit, ReadersInv, ApiInv, A!Init
<1>2. ReadersInv /\ [MCNext]_allVars => ReadersInv'
  <2> SUFFICES ASSUME ReadersInv, [MCNext]_allVars, part' = "api" PROVE ApiInv'
    BY DEF ReadersInv
  <2>1. part = "api" /\ (A!Next \/ UNCHANGED apiVars)
    BY DEF MCNext, Only, allVars
  <2> QED
    BY <2>1, ApiStepInv DEF ReadersInv
<1>3. ReadersInv /\ [MCNext]_allVars => [part = "api" => A!OnlyReads]_allVars
  <2> SUFFICES ASSUME ReadersInv, MCNext, part = "api" PROVE A!OnlyReads
    OBVIOUS
  <2>1. A!Next
    BY DEF MCNext
  <2> QED
    BY <2>1, ApiReads DEF ReadersInv
<1> QED
  BY <1>1, <1>2, <1>3, PTL DEF MCSpec, ReadersOnlyRead

(***************************************************************************)
(* Api: how a reply is put together                                        *)
(***************************************************************************)
Mark == {"{", "[", "key", "pair", "item", ",", "}", "]"}

\* Reading a reply: the mark that was read last, and the marks that are open.
Reads(x, mark, y) == A!Follows(x[1], mark) /\ y = <<mark, A!Nest(x[2], mark)>>

\* Reading the text leads from x to y.
Path(x, text, y) ==
    /\ text \in Seq(Mark)
    /\ \E h : /\ h[0] = x /\ h[Len(text)] = y
              /\ \A i \in 1 .. Len(text) : Reads(h[i - 1], text[i], h[i])

\* A reply begins where a list would, and ends with everything closed.
Begin == <<"[", <<>>>>
End == <<"}", <<>>>>

LEMMA PathNone == \A x : Path(x, <<>>, x)
<1> TAKE x
<1> DEFINE h == [i \in {0} |-> x]
<1>1. h[0] = x /\ Len(<<>>) = 0 /\ <<>> \in Seq(Mark)
  OBVIOUS
<1> HIDE DEF h
<1> QED
  BY <1>1 DEF Path

LEMMA PathOne ==
  ASSUME NEW x, NEW mark \in Mark, A!Follows(x[1], mark)
  PROVE  Path(x, <<mark>>, <<mark, A!Nest(x[2], mark)>>)
<1> DEFINE y == <<mark, A!Nest(x[2], mark)>>
           h == [i \in {0, 1} |-> IF i = 0 THEN x ELSE y]
           t == <<mark>>
<1>1. h[0] = x /\ h[1] = y
  OBVIOUS
<1>2. t \in Seq(Mark) /\ Len(t) = 1 /\ t[1] = mark
  OBVIOUS
<1>3. Reads(x, mark, y)
  BY DEF Reads
<1> HIDE DEF h, t, y
<1>4. \A i \in 1 .. Len(t) : Reads(h[i - 1], t[i], h[i])
  <2> TAKE i \in 1 .. Len(t)
  <2>1. i = 1 /\ i - 1 = 0
    BY <1>2
  <2> QED
    BY <1>1, <1>2, <1>3, <2>1
<1>5. Path(x, t, y)
  BY <1>1, <1>2, <1>4 DEF Path
<1> QED
  BY <1>5 DEF t, y

LEMMA PathConcat ==
  ASSUME NEW x, NEW t, NEW y, NEW u, NEW z, Path(x, t, y), Path(y, u, z)
  PROVE  Path(x, t \o u, z)
<1>1. t \in Seq(Mark) /\ u \in Seq(Mark)
  BY DEF Path
<1>2. PICK f : /\ f[0] = x /\ f[Len(t)] = y
               /\ \A i \in 1 .. Len(t) : Reads(f[i - 1], t[i], f[i])
  BY DEF Path
<1>3. PICK g : /\ g[0] = y /\ g[Len(u)] = z
               /\ \A i \in 1 .. Len(u) : Reads(g[i - 1], u[i], g[i])
  BY DEF Path
<1>4. PICK k \in Nat : k = Len(t)
  BY <1>1
<1>5. PICK n \in Nat : n = Len(u)
  BY <1>1
<1> DEFINE w == t \o u
           h == [i \in 0 .. k + n |-> IF i <= k THEN f[i] ELSE g[i - k]]
<1>6. /\ w \in Seq(Mark) /\ Len(w) = k + n
      /\ \A i \in 1 .. k : w[i] = t[i]
      /\ \A i \in 1 .. n : w[k + i] = u[i]
  BY <1>1, <1>4, <1>5
<1>7. /\ \A i \in 0 .. k : h[i] = f[i]
      /\ \A i \in 0 .. n : h[k + i] = g[i]
  <2>1. \A i \in 0 .. k : h[i] = f[i]
    OBVIOUS
  <2>2. \A i \in 1 .. n : h[k + i] = g[i]
    OBVIOUS
  <2>3. h[k + 0] = g[0]
    BY <1>2, <1>3, <1>4, <2>1
  <2> QED
    BY <2>1, <2>2, <2>3
<1> HIDE DEF w, h
<1>8. \A i \in 1 .. k + n : Reads(h[i - 1], w[i], h[i])
  <2> TAKE i \in 1 .. k + n
  <2>1. CASE i <= k
    <3>1. i \in 1 .. k /\ i - 1 \in 0 .. k /\ i \in 0 .. k
      BY <2>1
    <3> QED
      BY <1>2, <1>4, <1>6, <1>7, <3>1
  <2>2. CASE i > k
    <3>1. PICK j \in 1 .. n : i = k + j
      BY <2>2
    <3>2. j - 1 \in 0 .. n /\ j \in 0 .. n /\ i - 1 = k + (j - 1)
      BY <3>1
    <3>3. h[i - 1] = g[j - 1] /\ h[i] = g[j] /\ w[i] = u[j]
      BY <1>6, <1>7, <3>1, <3>2
    <3> QED
      BY <1>3, <1>5, <3>1, <3>3
  <2> QED
    BY <2>1, <2>2
<1>9. h[0] = x /\ h[k + n] = z
  <2>1. 0 \in 0 .. k /\ n \in 0 .. n
    OBVIOUS
  <2>2. h[0] = f[0] /\ h[k + n] = g[n]
    BY <1>7, <2>1
  <2> QED
    BY <1>2, <1>3, <1>5, <2>2
<1>10. Path(x, w, z)
  BY <1>6, <1>8, <1>9 DEF Path
<1> QED
  BY <1>10 DEF w

\* Which mark may be read when.
LEMMA PathMarks ==
  ASSUME NEW s \in Seq(Mark)
  PROVE  /\ \A a \in {"[", ","} : Path(<<a, s>>, <<"{">>, <<"{", Append(s, "{")>>)
         /\ \A a \in {"{", ","} : \A b \in {"key", "pair"} : Path(<<a, s>>, <<b>>, <<b, s>>)
         /\ Path(<<"key", s>>, <<"[">>, <<"[", Append(s, "[")>>)
         /\ \A a \in {"[", ","} : Path(<<a, s>>, <<"item">>, <<"item", s>>)
         /\ \A a \in {"[", "item", "}"} : Path(<<a, Append(s, "[")>>, <<"]">>, <<"]", s>>)
         /\ Path(<<"pair", Append(s, "{")>>, <<"}">>, <<"}", s>>)
         /\ \A a \in {"pair", "item", "}", "]"} : Path(<<a, s>>, <<",">>, <<",", s>>)
<1>1. /\ A!Nest(s, "{") = Append(s, "{") /\ A!Nest(s, "[") = Append(s, "[")
      /\ A!Nest(s, "key") = s /\ A!Nest(s, "pair") = s /\ A!Nest(s, "item") = s /\ A!Nest(s, ",") = s
  BY DEF A!Nest
<1>2. \A c \in Mark : /\ Append(s, c) # <<>> /\ A!Last(Append(s, c)) = c
                      /\ A!Front(Append(s, c)) = s
  <2> TAKE c \in Mark
  <2> DEFINE t == Append(s, c)
  <2>1. t \in Seq(Mark) /\ Len(t) = Len(s) + 1 /\ t[Len(s) + 1] = c
    OBVIOUS
  <2>2. t # <<>> /\ A!Last(t) = c
    BY <2>1 DEF A!Last
  <2>3. SubSeq(t, 1, Len(t) - 1) = s
    OBVIOUS
  <2> QED
    BY <2>2, <2>3 DEF A!Front
<1>3. A!Nest(Append(s, "{"), "}") = s /\ A!Nest(Append(s, "["), "]") = s
  BY <1>2 DEF A!Nest, Mark
<1>4. \A x, c : c \in Mark /\ A!Follows(x[1], c) => Path(x, <<c>>, <<c, A!Nest(x[2], c)>>)
  BY PathOne
<1>5. \A a, c, r : c \in Mark /\ A!Follows(a, c) => Path(<<a, r>>, <<c>>, <<c, A!Nest(r, c)>>)
  <2> TAKE a, c, r
  <2> DEFINE x == <<a, r>>
  <2>1. x[1] = a /\ x[2] = r
    OBVIOUS
  <2> HIDE DEF x
  <2>2. c \in Mark /\ A!Follows(a, c) => Path(x, <<c>>, <<c, A!Nest(r, c)>>)
    BY <1>4, <2>1
  <2> QED
    BY <2>2 DEF x
<1>6. \A a \in {"[", ","} : A!Follows(a, "{") /\ A!Follows(a, "item")
  BY DEF A!Follows
<1>7. \A a \in {"{", ","} : A!Follows(a, "key") /\ A!Follows(a, "pair")
  BY DEF A!Follows
<1>8. A!Follows("key", "[") /\ A!Follows("pair", "}")
  BY DEF A!Follows
<1>9. \A a \in {"[", "item", "}"} : A!Follows(a, "]")
  BY DEF A!Follows
<1>10. \A a \in {"pair", "item", "}", "]"} : A!Follows(a, ",")
  BY DEF A!Follows
<1>11. {"{", "[", "key", "pair", "item", ",", "}", "]"} \subseteq Mark
  BY DEF Mark
<1>12. \A a \in {"[", ","} : Path(<<a, s>>, <<"{">>, <<"{", Append(s, "{")>>)
  BY <1>1, <1>5, <1>6, <1>11
<1>13. \A a \in {"{", ","} : \A b \in {"key", "pair"} : Path(<<a, s>>, <<b>>, <<b, s>>)
  BY <1>1, <1>5, <1>7, <1>11
<1>14. Path(<<"key", s>>, <<"[">>, <<"[", Append(s, "[")>>)
  BY <1>1, <1>5, <1>8, <1>11
<1>15. \A a \in {"[", ","} : Path(<<a, s>>, <<"item">>, <<"item", s>>)
  BY <1>1, <1>5, <1>6, <1>11
<1>16. \A a \in {"[", "item", "}"} : Path(<<a, Append(s, "[")>>, <<"]">>, <<"]", s>>)
  BY <1>3, <1>5, <1>9, <1>11
<1>17. Path(<<"pair", Append(s, "{")>>, <<"}">>, <<"}", s>>)
  BY <1>3, <1>5, <1>8, <1>11
<1>18. \A a \in {"pair", "item", "}", "]"} : Path(<<a, s>>, <<",">>, <<",", s>>)
  BY <1>1, <1>5, <1>10, <1>11
<1> QED
  BY <1>12, <1>13, <1>14, <1>15, <1>16, <1>17, <1>18

\* Marks are read one after the other.
LEMMA PathMore ==
  /\ \A x, y, z : \A a, b \in Mark : Path(x, <<a>>, y) /\ Path(y, <<b>>, z) => Path(x, <<a, b>>, z)
  /\ \A x, y, z : \A a, b, c \in Mark :
        Path(x, <<a, b>>, y) /\ Path(y, <<c>>, z) => Path(x, <<a, b, c>>, z)
  /\ \A x, y, z : \A a, b, c, d \in Mark :
        Path(x, <<a, b, c>>, y) /\ Path(y, <<d>>, z) => Path(x, <<a, b, c, d>>, z)
  /\ \A x, y, z : \A a, b, c, d, e \in Mark :
        Path(x, <<a, b, c, d>>, y) /\ Path(y, <<e>>, z) => Path(x, <<a, b, c, d, e>>, z)
<1>0. \A x, f, y, g, z : Path(x, f, y) /\ Path(y, g, z) => Path(x, f \o g, z)
  BY PathConcat
<1>1. ASSUME NEW a \in Mark, NEW b \in Mark, NEW x, NEW y, NEW z,
             Path(x, <<a>>, y), Path(y, <<b>>, z)
      PROVE  Path(x, <<a, b>>, z)
  <2> DEFINE t == <<a>> \o <<b>>
             u == <<a, b>>
  <2>1. t \in Seq(Mark) /\ Len(t) = 2 /\ u \in Seq(Mark) /\ Len(u) = 2
    OBVIOUS
  <2>2. t[1] = u[1] /\ t[2] = u[2]
    OBVIOUS
  <2>3. Path(x, t, z)
    BY <1>0, <1>1
  <2> HIDE DEF t, u
  <2>4. t = u
    BY <2>1, <2>2, SameSequence
  <2>5. Path(x, u, z)
    BY <2>3, <2>4
  <2> QED
    BY <2>5 DEF u
<1>2. ASSUME NEW a \in Mark, NEW b \in Mark, NEW c \in Mark, NEW x, NEW y, NEW z,
             Path(x, <<a, b>>, y), Path(y, <<c>>, z)
      PROVE  Path(x, <<a, b, c>>, z)
  <2> DEFINE t == <<a, b>> \o <<c>>
             u == <<a, b, c>>
  <2>1. t \in Seq(Mark) /\ Len(t) = 3 /\ u \in Seq(Mark) /\ Len(u) = 3
    OBVIOUS
  <2>2. t[1] = u[1] /\ t[2] = u[2] /\ t[3] = u[3]
    OBVIOUS
  <2>3. Path(x, t, z)
    BY <1>0, <1>2
  <2> HIDE DEF t, u
  <2>4. t = u
    BY <2>1, <2>2, SameSequence
  <2>5. Path(x, u, z)
    BY <2>3, <2>4
  <2> QED
    BY <2>5 DEF u
<1>3. ASSUME NEW a \in Mark, NEW b \in Mark, NEW c \in Mark, NEW d \in Mark, NEW x, NEW y, NEW z,
             Path(x, <<a, b, c>>, y), Path(y, <<d>>, z)
      PROVE  Path(x, <<a, b, c, d>>, z)
  <2> DEFINE t == <<a, b, c>> \o <<d>>
             u == <<a, b, c, d>>
  <2>1. t \in Seq(Mark) /\ Len(t) = 4 /\ u \in Seq(Mark) /\ Len(u) = 4
    OBVIOUS
  <2>2. t[1] = u[1] /\ t[2] = u[2] /\ t[3] = u[3] /\ t[4] = u[4]
    OBVIOUS
  <2>3. Path(x, t, z)
    BY <1>0, <1>3
  <2> HIDE DEF t, u
  <2>4. t = u
    BY <2>1, <2>2, SameSequence
  <2>5. Path(x, u, z)
    BY <2>3, <2>4
  <2> QED
    BY <2>5 DEF u
<1>4. ASSUME NEW a \in Mark, NEW b \in Mark, NEW c \in Mark, NEW d \in Mark, NEW e \in Mark,
             NEW x, NEW y, NEW z,
             Path(x, <<a, b, c, d>>, y), Path(y, <<e>>, z)
      PROVE  Path(x, <<a, b, c, d, e>>, z)
  <2> DEFINE t == <<a, b, c, d>> \o <<e>>
             u == <<a, b, c, d, e>>
  <2>1. t \in Seq(Mark) /\ Len(t) = 5 /\ u \in Seq(Mark) /\ Len(u) = 5
    OBVIOUS
  <2>2. t[1] = u[1] /\ t[2] = u[2] /\ t[3] = u[3] /\ t[4] = u[4] /\ t[5] = u[5]
    OBVIOUS
  <2>3. Path(x, t, z)
    BY <1>0, <1>4
  <2> HIDE DEF t, u
  <2>4. t = u
    BY <2>1, <2>2, SameSequence
  <2>5. Path(x, u, z)
    BY <2>3, <2>4
  <2> QED
    BY <2>5 DEF u
<1> QED
  BY <1>1, <1>2, <1>3, <1>4

\* The pieces that replies are made of.
LEMMA PathPieces ==
  ASSUME NEW s \in Seq(Mark), NEW d, d = Append(s, "{"), NEW e, e = Append(d, "[")
  PROVE  /\ d \in Seq(Mark) /\ e \in Seq(Mark)
         /\ Path(<<"[", s>>, <<"{", "key", "[">>, <<"[", e>>)
         /\ Path(<<"[", s>>, <<"{", "pair">>, <<"pair", d>>)
         /\ Path(<<"[", s>>, A!message(TRUE), <<"]", d>>)
         /\ Path(<<"]", d>>, <<",", "key", "[">>, <<"[", e>>)
         /\ Path(<<"item", s>>, <<",", "item">>, <<"item", s>>)
         /\ \A a \in {"pair", "]"} : Path(<<a, d>>, A!SendEnd(TRUE, FALSE), <<"}", s>>)
         /\ \A a \in {"item", "["} : Path(<<a, e>>, A!SendEnd(TRUE, TRUE), <<"}", s>>)
         /\ Path(<<"}", e>>, <<"]">>, <<"]", d>>)
<1>1. /\ "{" \in Mark /\ "[" \in Mark /\ "key" \in Mark /\ "pair" \in Mark
      /\ "item" \in Mark /\ "," \in Mark /\ "}" \in Mark /\ "]" \in Mark
  BY DEF Mark
<1>2. \A r \in Seq(Mark) : \A c \in Mark : Append(r, c) \in Seq(Mark)
  BY AppendProperties
<1>3. d \in Seq(Mark) /\ e \in Seq(Mark)
  BY <1>1, <1>2
<1>4. \A x, t, y, u, z : Path(x, t, y) /\ Path(y, u, z) => Path(x, t \o u, z)
  BY PathConcat
<1>5. /\ Path(<<"[", s>>, <<"{">>, <<"{", d>>)
      /\ Path(<<"{", d>>, <<"key">>, <<"key", d>>)
      /\ Path(<<"key", d>>, <<"[">>, <<"[", e>>)
      /\ Path(<<"[", e>>, <<"item">>, <<"item", e>>)
      /\ Path(<<"item", e>>, <<"]">>, <<"]", d>>)
      /\ Path(<<"{", d>>, <<"pair">>, <<"pair", d>>)
      /\ Path(<<"]", d>>, <<",">>, <<",", d>>)
      /\ Path(<<",", d>>, <<"key">>, <<"key", d>>)
      /\ Path(<<",", d>>, <<"pair">>, <<"pair", d>>)
      /\ Path(<<"pair", d>>, <<"}">>, <<"}", s>>)
      /\ Path(<<"item", s>>, <<",">>, <<",", s>>)
      /\ Path(<<",", s>>, <<"item">>, <<"item", s>>)
      /\ \A a \in {"pair", "]"} : Path(<<a, d>>, <<",">>, <<",", d>>)
  BY <1>3, PathMarks
<1>6. Path(<<"[", s>>, <<"{", "key", "[">>, <<"[", e>>)
  <2>1. Path(<<"[", s>>, <<"{", "key">>, <<"key", d>>)
    BY <1>1, <1>5, PathMore
  <2> QED
    BY <1>1, <1>5, <2>1, PathMore
<1>7. Path(<<"[", s>>, <<"{", "pair">>, <<"pair", d>>)
  BY <1>1, <1>5, PathMore
<1>8. Path(<<"[", s>>, A!message(TRUE), <<"]", d>>)
  <2>1. Path(<<"[", s>>, <<"{", "key", "[", "item">>, <<"item", e>>)
    BY <1>1, <1>5, <1>6, PathMore
  <2>2. Path(<<"[", s>>, <<"{", "key", "[", "item", "]">>, <<"]", d>>)
    BY <1>1, <1>5, <2>1, PathMore
  <2> QED
    BY <2>2 DEF A!message
<1>9. Path(<<"]", d>>, <<",", "key", "[">>, <<"[", e>>)
  <2>1. Path(<<"]", d>>, <<",", "key">>, <<"key", d>>)
    BY <1>1, <1>5, PathMore
  <2> QED
    BY <1>1, <1>5, <2>1, PathMore
<1>10. Path(<<"item", s>>, <<",", "item">>, <<"item", s>>)
  BY <1>1, <1>5, PathMore
<1>11. \A a \in {"pair", "]"} : Path(<<a, d>>, <<",", "pair", "}">>, <<"}", s>>)
  <2>1. \A a \in {"pair", "]"} : Path(<<a, d>>, <<",", "pair">>, <<"pair", d>>)
    BY <1>1, <1>5, PathMore
  <2> QED
    BY <1>1, <1>5, <2>1, PathMore
<1>12. \A a \in {"pair", "]"} : Path(<<a, d>>, A!SendEnd(TRUE, FALSE), <<"}", s>>)
  <2> DEFINE t == <<",", "pair", "}">>
  <2>1. t \in Seq(Mark)
    BY <1>11 DEF Path
  <2>2. A!SendEnd(TRUE, FALSE) = <<>> \o t
    BY DEF A!SendEnd
  <2>3. <<>> \o t = t
    BY ONLY <2>1, ConcatEmptySeq
  <2> QED
    BY <1>11, <2>2, <2>3
<1>13. \A a \in {"item", "["} : Path(<<a, e>>, A!SendEnd(TRUE, TRUE), <<"}", s>>)
  <2>1. \A a \in {"item", "["} : Path(<<a, e>>, <<"]">>, <<"]", d>>)
    BY <1>3, PathMarks
  <2>2. A!SendEnd(TRUE, TRUE) = <<"]">> \o <<",", "pair", "}">>
    BY DEF A!SendEnd
  <2>3. Path(<<"]", d>>, <<",", "pair", "}">>, <<"}", s>>)
    BY <1>11
  <2> QED
    BY <1>4, <2>1, <2>2, <2>3
<1>14. Path(<<"}", e>>, <<"]">>, <<"]", d>>)
  BY <1>3, PathMarks
<1> QED
  BY <1>3, <1>6, <1>7, <1>8, <1>9, <1>10, <1>12, <1>13, <1>14

\* A text that leads from Begin to End is one object.
LEMMA PathIsJson ==
  ASSUME NEW text, Path(Begin, text, End)
  PROVE  A!Json(text)
<1>1. text \in Seq(Mark)
  BY DEF Path
<1>2. PICK h : /\ h[0] = Begin /\ h[Len(text)] = End
               /\ \A i \in 1 .. Len(text) : Reads(h[i - 1], text[i], h[i])
  BY DEF Path
<1>3. PICK n \in Nat : n = Len(text)
  BY <1>1
<1>4. n # 0
  <2>1. Begin # End
    <3>1. Begin[1] = "[" /\ End[1] = "}"
      BY DEF Begin, End
    <3> QED
      BY <3>1
  <2> QED
    BY <1>2, <1>3, <2>1
<1>5. \A i \in 1 .. n : /\ A!Follows(h[i - 1][1], text[i])
                        /\ h[i][1] = text[i] /\ h[i][2] = A!Nest(h[i - 1][2], text[i])
  <2> TAKE i \in 1 .. n
  <2>1. Reads(h[i - 1], text[i], h[i])
    BY <1>2, <1>3
  <2> QED
    BY <2>1 DEF Reads
<1> DEFINE OpenMarks(f) ==
               f = [i \in 0 .. Len(text) |-> IF i = 0 THEN <<>> ELSE A!Nest(f[i - 1], text[i])]
<1>6. OpenMarks([i \in 0 .. n |-> h[i][2]])
  <2> DEFINE f == [i \in 0 .. n |-> h[i][2]]
  <2>1. \A i \in 0 .. n : f[i] = IF i = 0 THEN <<>> ELSE A!Nest(f[i - 1], text[i])
    <3> TAKE i \in 0 .. n
    <3>1. CASE i = 0
      BY <1>2, <3>1 DEF Begin
    <3>2. CASE i # 0
      <4>1. i \in 1 .. n /\ i - 1 \in 0 .. n
        BY <3>2
      <4>2. f[i] = h[i][2] /\ f[i - 1] = h[i - 1][2]
        BY <4>1
      <4> QED
        BY <1>5, <3>2, <4>1, <4>2
    <3> QED
      BY <3>1, <3>2
  <2>2. f = [i \in 0 .. n |-> f[i]]
    OBVIOUS
  <2> HIDE DEF f
  <2>3. f = [i \in 0 .. n |-> IF i = 0 THEN <<>> ELSE A!Nest(f[i - 1], text[i])]
    BY <2>1, <2>2
  <2>4. OpenMarks(f)
    BY <1>3, <2>3
  <2> QED
    BY <2>4 DEF f
<1> DEFINE open == CHOOSE f : OpenMarks(f)
<1>7. OpenMarks(open)
  <2> HIDE DEF OpenMarks
  <2> QED
    BY <1>6
<1>8. open[Len(text)] = <<>>
  <2> HIDE DEF open
  <2>1. open[0] = <<>> /\ \A i \in 1 .. n : open[i] = A!Nest(open[i - 1], text[i])
    <3>1. \A i \in 0 .. n : open[i] = IF i = 0 THEN <<>> ELSE A!Nest(open[i - 1], text[i])
      BY <1>3, <1>7
    <3> QED
      BY <3>1
  <2> HIDE DEF OpenMarks
  <2> DEFINE X == {i \in Nat : i <= n /\ open[i] # h[i][2]}
  <2>2. X = {}
    <3> SUFFICES ASSUME X # {} PROVE FALSE
      OBVIOUS
    <3>1. PICK k \in X : \A i \in X : k <= i
      BY Least
    <3>2. k # 0
      BY <1>2, <2>1, <3>1 DEF Begin
    <3>3. k \in 1 .. n /\ k - 1 \in Nat /\ k - 1 <= n /\ ~(k <= k - 1)
      BY <3>1, <3>2
    <3>4. open[k - 1] = h[k - 1][2]
      BY <3>1, <3>3
    <3>5. open[k] = h[k][2]
      BY <1>5, <2>1, <3>3, <3>4
    <3> QED
      BY <3>1, <3>5
  <2>3. open[n] = h[n][2]
    BY <2>2
  <2>4. h[n][2] = <<>>
    <3>1. h[n] = End
      BY <1>2, <1>3
    <3>2. End[2] = <<>>
      BY DEF End
    <3> QED
      BY <3>1, <3>2
  <2> QED
    BY <1>3, <2>3, <2>4
<1>9. text # <<>>
  BY <1>3, <1>4
<1>10. A!Nested(text)
  BY <1>8, <1>9 DEF A!Nested
<1>11. \A i \in 1 .. Len(text) - 1 : A!Follows(text[i], text[i + 1])
  <2> TAKE i \in 1 .. Len(text) - 1
  <2>1. i \in 1 .. n /\ i + 1 \in 1 .. n /\ (i + 1) - 1 = i
    BY <1>3
  <2> QED
    BY <1>5, <2>1
<1> QED
  BY <1>10, <1>11 DEF A!Json

(***************************************************************************)
(* Api: lists of items                                                     *)
(***************************************************************************)
\* ItemsFrom that are read after the mark a.
ItemsFrom(a, text) == \A s \in Seq(Mark) : Path(<<a, s>>, text, <<"item", s>>)

LEMMA ItemsConcat ==
  ASSUME NEW a, NEW t, NEW u, ItemsFrom(a, t), ItemsFrom("item", u)
  PROVE  ItemsFrom(a, t \o u)
  BY PathConcat DEF ItemsFrom

LEMMA ItemsPrinted ==
  /\ ItemsFrom("[", A!print_data(TRUE, FALSE))
  /\ ItemsFrom("item", A!print_data(TRUE, TRUE))
  /\ ItemsFrom("item", <<>>)
<1>1. ASSUME NEW s \in Seq(Mark) PROVE Path(<<"[", s>>, <<"item">>, <<"item", s>>)
  BY PathMarks
<1>2. ASSUME NEW s \in Seq(Mark) PROVE Path(<<"item", s>>, <<",", "item">>, <<"item", s>>)
  BY PathPieces
<1>3. ItemsFrom("item", <<>>)
  BY PathNone DEF ItemsFrom
<1> QED
  BY <1>1, <1>2, <1>3 DEF ItemsFrom, A!print_data

\* The recursion of FlattenSeq is well founded.
LEMMA FlatIs ==
  ASSUME NEW seqs, NEW n \in Nat, n # 0, Len(seqs) = n
  PROVE  \E g : /\ A!FlattenSeq(seqs) = g[n] /\ g[1] = seqs[1]
                /\ \A i \in 2 .. n : g[i] = g[i - 1] \o seqs[i]
<1> DEFINE By(g, i) == IF i = 1 THEN seqs[i] ELSE g[i - 1] \o seqs[i]
           Flat(m, g) == g = [i \in 1 .. m |-> By(g, i)]
<1> DEFINE X == {m \in Nat : ~ \E g : Flat(m, g)}
<1>1. X = {}
  <2> SUFFICES ASSUME X # {} PROVE FALSE
    OBVIOUS
  <2>1. PICK m \in X : \A i \in X : m <= i
    <3>1. X \in SUBSET Nat
      OBVIOUS
    <3> HIDE DEF X
    <3> QED
      BY <3>1, Least
  <2>2. CASE m = 0
    <3> DEFINE g == [i \in 1 .. 0 |-> seqs]
    <3>1. g = [i \in 1 .. 0 |-> By(g, i)]
      OBVIOUS
    <3> QED
      BY <2>1, <2>2, <3>1
  <2>3. CASE m # 0
    <3>1. m - 1 \in Nat /\ ~(m <= m - 1)
      BY <2>3
    <3>2. PICK g : Flat(m - 1, g)
      BY <2>1, <3>1
    <3> DEFINE h == [i \in 1 .. m |-> IF i < m THEN g[i] ELSE By(g, m)]
    <3>3. \A i \in 1 .. m : h[i] = By(h, i)
      <4> TAKE i \in 1 .. m
      <4>1. i # 1 => h[i - 1] = g[i - 1]
        BY <2>3
      <4>2. By(h, i) = By(g, i)
        BY <4>1
      <4>3. i < m => g[i] = By(g, i)
        <5> HAVE i < m
        <5>1. i \in 1 .. m - 1
          OBVIOUS
        <5> QED
          BY <3>2, <5>1
      <4> QED
        BY <4>2, <4>3
    <3>4. Flat(m, h)
      BY <3>3
    <3> QED
      BY <2>1, <3>4
  <2> QED
    BY <2>2, <2>3
<1>2. \E g : Flat(n, g)
  <2>1. n \notin X
    BY <1>1
  <2> HIDE DEF Flat
  <2> QED
    BY <2>1
<1> DEFINE f == CHOOSE g : Flat(n, g)
<1>3. Flat(n, f)
  <2> HIDE DEF Flat
  <2> QED
    BY <1>2
<1>4. A!FlattenSeq(seqs) = f[n]
  BY DEF A!FlattenSeq
<1> HIDE DEF f
<1>5. \A i \in 1 .. n : f[i] = By(f, i)
  BY <1>3
<1>6. 1 \in 1 .. n /\ \A i \in 2 .. n : i \in 1 .. n /\ i # 1
  OBVIOUS
<1>7. f[1] = seqs[1]
  BY <1>5, <1>6
<1>8. \A i \in 2 .. n : f[i] = f[i - 1] \o seqs[i]
  BY <1>5, <1>6
<1> QED
  BY <1>4, <1>7, <1>8

LEMMA ItemsFlat ==
  ASSUME NEW a, NEW n \in Nat, n # 0, NEW seqs, Len(seqs) = n,
         ItemsFrom(a, seqs[1]), \A i \in 2 .. n : ItemsFrom("item", seqs[i])
  PROVE  ItemsFrom(a, A!FlattenSeq(seqs))
<1>1. PICK g : /\ A!FlattenSeq(seqs) = g[n] /\ g[1] = seqs[1]
               /\ \A i \in 2 .. n : g[i] = g[i - 1] \o seqs[i]
  BY FlatIs
<1> DEFINE X == {i \in Nat : i \in 1 .. n /\ ~ItemsFrom(a, g[i])}
<1>2. X = {}
  <2> SUFFICES ASSUME X # {} PROVE FALSE
    OBVIOUS
  <2>1. PICK k \in X : \A i \in X : k <= i
    <3>1. X \in SUBSET Nat
      OBVIOUS
    <3> HIDE DEF X
    <3> QED
      BY <3>1, Least
  <2>2. k # 1
    BY <1>1, <2>1
  <2>3. k \in 2 .. n /\ k - 1 \in Nat /\ k - 1 \in 1 .. n /\ ~(k <= k - 1)
    BY <2>1, <2>2
  <2>4. ItemsFrom(a, g[k - 1])
    BY <2>1, <2>3
  <2>5. ItemsFrom("item", seqs[k])
    BY <2>3
  <2>6. ItemsFrom(a, g[k])
    <3>1. g[k] = g[k - 1] \o seqs[k]
      BY <1>1, <2>3
    <3>2. ItemsFrom(a, g[k - 1] \o seqs[k])
      BY <2>4, <2>5, ItemsConcat
    <3> QED
      BY <3>1, <3>2
  <2> QED
    BY <2>1, <2>6
<1>3. n \in 1 .. n
  OBVIOUS
<1>4. ItemsFrom(a, g[n])
  BY <1>2, <1>3
<1> QED
  BY <1>1, <1>4

LEMMA ItemsList ==
  ASSUME NEW n \in Int, NEW a, NEW seqs, seqs = [i \in 1 .. n |-> seqs[i]],
         n > 0 => ItemsFrom(a, seqs[1]), \A i \in 2 .. n : ItemsFrom("item", seqs[i])
  PROVE  /\ n <= 0 => A!FlattenSeq(seqs) = <<>>
         /\ n > 0 => ItemsFrom(a, A!FlattenSeq(seqs))
<1>1. CASE n <= 0
  <2>1. seqs = <<>>
    <3>1. 1 .. n = {}
      BY <1>1
    <3> QED
      BY <3>1
  <2>2. A!FlattenSeq(<<>>) = <<>>
    BY DEF A!FlattenSeq
  <2> QED
    BY <1>1, <2>1, <2>2
<1>2. CASE n > 0
  <2>1. n \in Nat /\ n # 0
    BY <1>2
  <2>2. Len(seqs) = n
    BY <2>1
  <2>3. ItemsFrom(a, A!FlattenSeq(seqs))
    BY <1>2, <2>1, <2>2, ItemsFlat
  <2> QED
    BY <1>2, <2>3
<1> QED
  BY <1>1, <1>2

\* The comma of print_data.
LEMMA Comma ==
  \A i, k \in Int :
      A!print_data(TRUE, i > k) = IF i > k THEN A!print_data(TRUE, TRUE) ELSE A!print_data(TRUE, FALSE)
<1> TAKE i, k \in Int
<1>1. CASE i > k
  BY <1>1 DEF A!print_data
<1>2. CASE ~(i > k)
  BY <1>2 DEF A!print_data
<1> QED
  BY <1>1, <1>2

ItemList(text) == text = <<>> \/ ItemsFrom("[", text)

\* n objects, with a comma before all but the first.
LEMMA ItemsAll ==
  ASSUME NEW n \in Int
  PROVE  /\ n <= 0 => A!FlattenSeq([i \in 1 .. n |-> A!print_data(TRUE, i > 1)]) = <<>>
         /\ n > 0 => ItemsFrom("[", A!FlattenSeq([i \in 1 .. n |-> A!print_data(TRUE, i > 1)]))
<1> DEFINE seqs == [i \in 1 .. n |-> A!print_data(TRUE, i > 1)]
<1>1. seqs = [i \in 1 .. n |-> seqs[i]]
  OBVIOUS
<1>2. \A i \in 1 .. n : seqs[i] = A!print_data(TRUE, i > 1)
  BY Zenon
<1> HIDE DEF seqs
<1>3. \A i \in 1 .. n :
        seqs[i] = IF i > 1 THEN A!print_data(TRUE, TRUE) ELSE A!print_data(TRUE, FALSE)
  <2> TAKE i \in 1 .. n
  <2>1. i \in Int /\ 1 \in Int
    OBVIOUS
  <2> QED
    BY <1>2, <2>1, Comma, Zenon
<1>4. /\ ~(1 > 1) /\ (n > 0 => 1 \in 1 .. n)
      /\ \A i \in 2 .. n : i \in 1 .. n /\ i > 1
  OBVIOUS
<1>5. n > 0 => seqs[1] = A!print_data(TRUE, FALSE)
  BY <1>3, <1>4, Zenon
<1>6. \A i \in 2 .. n : seqs[i] = A!print_data(TRUE, TRUE)
  BY <1>3, <1>4, Zenon
<1>7. n > 0 => ItemsFrom("[", seqs[1])
  BY <1>5, ItemsPrinted
<1>8. \A i \in 2 .. n : ItemsFrom("item", seqs[i])
  BY <1>6, ItemsPrinted
<1>9. /\ n <= 0 => A!FlattenSeq(seqs) = <<>>
      /\ n > 0 => ItemsFrom("[", A!FlattenSeq(seqs))
  BY <1>1, <1>7, <1>8, ItemsList
<1> QED
  BY <1>9 DEF seqs

\* n more objects after k.
LEMMA ItemsAfter ==
  ASSUME NEW n \in Int, NEW k \in Nat, k > 0
  PROVE  ItemsFrom("item", A!FlattenSeq([i \in 1 .. n |-> A!print_data(TRUE, k + i > 1)]))
<1> DEFINE seqs == [i \in 1 .. n |-> A!print_data(TRUE, k + i > 1)]
<1>1. seqs = [i \in 1 .. n |-> seqs[i]]
  OBVIOUS
<1>2. \A i \in 1 .. n : seqs[i] = A!print_data(TRUE, k + i > 1)
  BY Zenon
<1> HIDE DEF seqs
<1>3. \A i \in 1 .. n : ItemsFrom("item", seqs[i])
  <2> TAKE i \in 1 .. n
  <2>1. k + i \in Int /\ 1 \in Int /\ k + i > 1
    OBVIOUS
  <2>2. A!print_data(TRUE, k + i > 1) = A!print_data(TRUE, TRUE)
    BY <2>1, Comma, Zenon
  <2>3. seqs[i] = A!print_data(TRUE, TRUE)
    BY <1>2, <2>2, Zenon
  <2> QED
    BY <2>3, ItemsPrinted
<1>4. /\ n > 0 => ItemsFrom("item", seqs[1])
      /\ \A i \in 2 .. n : ItemsFrom("item", seqs[i])
  BY <1>3
<1>5. /\ n <= 0 => A!FlattenSeq(seqs) = <<>>
      /\ n > 0 => ItemsFrom("item", A!FlattenSeq(seqs))
  BY <1>1, <1>4, ItemsList
<1>6. ItemsFrom("item", A!FlattenSeq(seqs))
  BY <1>5, ItemsPrinted
<1> QED
  BY <1>6 DEF seqs

(***************************************************************************)
(* Api: what the commands answer                                           *)
(***************************************************************************)
\* With the marks that send_result adds, the reply is one object, wherever one may be.
Made(reply) ==
    \A s \in Seq(Mark) : \E y : /\ Path(<<"[", s>>, reply.add, y)
                               /\ Path(y, A!SendEnd(TRUE, reply.close), <<"}", s>>)

LEMMA StatusMade ==
  ASSUME NEW reply, reply.add = A!message(TRUE), reply.close = FALSE
  PROVE  Made(reply)
<1> SUFFICES ASSUME NEW s \in Seq(Mark)
             PROVE  \E y : /\ Path(<<"[", s>>, A!message(TRUE), y)
                           /\ Path(y, A!SendEnd(TRUE, FALSE), <<"}", s>>)
  BY DEF Made
<1> QED
  BY PathPieces

LEMMA ActionMade == Made(A!Action(TRUE))
<1> SUFFICES ASSUME NEW s \in Seq(Mark)
             PROVE  \E y : /\ Path(<<"[", s>>, <<"{", "pair">>, y)
                           /\ Path(y, A!SendEnd(TRUE, FALSE), <<"}", s>>)
  BY DEF Made, A!Action
<1> QED
  BY PathPieces

LEMMA SectionMade ==
  ASSUME NEW items, ItemList(items), NEW reply,
         reply.add = A!Section(TRUE, items).add, reply.close = TRUE
  PROVE  Made(reply)
<1> SUFFICES ASSUME NEW s \in Seq(Mark)
             PROVE  \E y : /\ Path(<<"[", s>>, (A!message(TRUE) \o <<",", "key", "[">>) \o items, y)
                           /\ Path(y, A!SendEnd(TRUE, TRUE), <<"}", s>>)
  BY DEF Made, A!Section
<1> DEFINE d == Append(s, "{")
           e == Append(d, "[")
<1>1. /\ d \in Seq(Mark) /\ e \in Seq(Mark)
      /\ Path(<<"[", s>>, A!message(TRUE), <<"]", d>>)
      /\ Path(<<"]", d>>, <<",", "key", "[">>, <<"[", e>>)
      /\ \A a \in {"item", "["} : Path(<<a, e>>, A!SendEnd(TRUE, TRUE), <<"}", s>>)
  BY PathPieces
<1> HIDE DEF d, e
<1>2. \E a \in {"item", "["} : Path(<<"[", e>>, items, <<a, e>>)
  <2>1. CASE items = <<>>
    BY <2>1, PathNone
  <2>2. CASE ItemsFrom("[", items)
    BY <1>1, <2>2 DEF ItemsFrom
  <2> QED
    BY <2>1, <2>2 DEF ItemList
<1>3. PICK a \in {"item", "["} : Path(<<"[", e>>, items, <<a, e>>)
  BY <1>2
<1>4. Path(<<"[", s>>, A!message(TRUE) \o <<",", "key", "[">>, <<"[", e>>)
  BY <1>1, PathConcat
<1>5. Path(<<"[", s>>, (A!message(TRUE) \o <<",", "key", "[">>) \o items, <<a, e>>)
  BY <1>3, <1>4, PathConcat
<1>6. Path(<<a, e>>, A!SendEnd(TRUE, TRUE), <<"}", s>>)
  BY <1>1
<1> QED
  BY <1>5, <1>6

LEMMA SectionsMade ==
  /\ \A items : ItemList(items) => Made(A!Section(TRUE, items))
  /\ \A changes : Made(A!Status(TRUE, changes))
<1>1. ASSUME NEW items, ItemList(items) PROVE Made(A!Section(TRUE, items))
  <2> DEFINE reply == A!Section(TRUE, items)
  <2>1. reply.close = TRUE /\ reply.add = A!Section(TRUE, items).add
    BY DEF A!Section
  <2> HIDE DEF reply
  <2>2. Made(reply)
    BY <1>1, <2>1, SectionMade
  <2> QED
    BY <2>2 DEF reply
<1>2. ASSUME NEW changes PROVE Made(A!Status(TRUE, changes))
  <2> DEFINE reply == A!Status(TRUE, changes)
  <2>1. reply.close = FALSE /\ reply.add = A!message(TRUE)
    BY DEF A!Status
  <2> HIDE DEF reply
  <2>2. Made(reply)
    BY <2>1, StatusMade
  <2> QED
    BY <2>2 DEF reply
<1> QED
  BY <1>1, <1>2

LEMMA OneItem == ItemList(A!print_data(TRUE, FALSE))
  BY ItemsPrinted DEF ItemList

\* The handlers that print a list.
LEMMA DevstatusMade ==
  ASSUME NEW m \in A!Miner
  PROVE  Made(A!devstatus(m, TRUE))
<1> DEFINE ascs == A!FlattenSeq([i \in 1 .. m.ascs |-> A!print_data(TRUE, i > 1)])
           pgas == A!FlattenSeq([i \in 1 .. m.pgas |-> A!print_data(TRUE, m.ascs + i > 1)])
<1>1. m.ascs \in Nat /\ m.pgas \in Nat
  BY DEF A!Miner
<1>2. CASE m.ascs + m.pgas = 0
  BY <1>2, SectionsMade DEF A!devstatus
<1>3. CASE m.ascs + m.pgas # 0
  <2>1. /\ m.ascs <= 0 => ascs = <<>>
        /\ m.ascs > 0 => ItemsFrom("[", ascs)
    <3>1. m.ascs \in Int
      BY <1>1
    <3> QED
      BY <3>1, ItemsAll, Zenon
  <2>2. ASSUME m.ascs = 0 PROVE ItemList(ascs \o pgas)
    <3>1. \A i \in 1 .. m.pgas : m.ascs + i = i
      BY <2>2
    <3>2. [i \in 1 .. m.pgas |-> A!print_data(TRUE, m.ascs + i > 1)]
          = [i \in 1 .. m.pgas |-> A!print_data(TRUE, i > 1)]
      BY <3>1, Zenon
    <3>3. m.pgas > 0 /\ m.pgas \in Int
      BY <1>1, <1>3, <2>2
    <3>4. ItemsFrom("[", pgas)
      BY <3>2, <3>3, ItemsAll
    <3>5. ascs = <<>>
      BY <2>1, <2>2
    <3> HIDE DEF ascs, pgas
    <3>6. pgas \in Seq(Mark)
      BY <3>4, EmptySeq DEF ItemsFrom, Path
    <3>7. <<>> \o pgas = pgas
      BY ONLY <3>6, ConcatEmptySeq
    <3> QED
      BY <3>4, <3>5, <3>7 DEF ItemList
  <2>3. ASSUME m.ascs # 0 PROVE ItemList(ascs \o pgas)
    <3>1. m.ascs > 0 /\ m.pgas \in Int
      BY <1>1, <2>3
    <3>2. ItemsFrom("item", pgas)
      BY <1>1, <3>1, ItemsAfter
    <3> HIDE DEF ascs, pgas
    <3> QED
      BY <2>1, <3>1, <3>2, ItemsConcat DEF ItemList
  <2>4. ItemList(ascs \o pgas)
    BY <2>2, <2>3
  <2>5. Made(A!Section(TRUE, ascs \o pgas))
    BY <2>4, SectionsMade
  <2> QED
    BY <1>3, <2>5 DEF A!devstatus, A!ascstatus, A!pgastatus
<1> QED
  BY <1>2, <1>3

LEMMA PoolstatusMade ==
  ASSUME NEW m \in A!Miner, m.pools = <<>> \/ ~m.pools[1]
  PROVE  Made(A!poolstatus(m, TRUE))
<1>1. CASE m.pools = <<>>
  BY <1>1, SectionsMade DEF A!poolstatus
<1>2. CASE m.pools # <<>>
  <2> DEFINE seqs == [i \in 1 .. Len(m.pools) |->
                         IF m.pools[i] THEN <<>> ELSE A!print_data(TRUE, i > 1)]
  <2>1. PICK n \in Nat : n = Len(m.pools) /\ n > 0
    <3>1. m.pools \in Seq(BOOLEAN)
      BY DEF A!Miner
    <3> QED
      BY <1>2, <3>1
  <2>2. seqs = [i \in 1 .. n |-> seqs[i]]
    BY <2>1
  <2>3. \A i \in 1 .. n : seqs[i] = IF m.pools[i] THEN <<>> ELSE A!print_data(TRUE, i > 1)
    BY <2>1, Zenon
  <2> HIDE DEF seqs
  <2>4. \A i \in 1 .. n :
           A!print_data(TRUE, i > 1)
             = IF i > 1 THEN A!print_data(TRUE, TRUE) ELSE A!print_data(TRUE, FALSE)
    <3> TAKE i \in 1 .. n
    <3>1. i \in Int /\ 1 \in Int
      OBVIOUS
    <3> QED
      BY <3>1, Comma, Zenon
  <2>5. 1 \in 1 .. n /\ ~(1 > 1) /\ \A i \in 2 .. n : i \in 1 .. n /\ i > 1
    BY <2>1
  <2>6. seqs[1] = A!print_data(TRUE, FALSE)
    BY <1>2, <2>3, <2>4, <2>5, Zenon
  <2>7. \A i \in 2 .. n : seqs[i] = <<>> \/ seqs[i] = A!print_data(TRUE, TRUE)
    BY <2>3, <2>4, <2>5, Zenon
  <2>8. ItemsFrom("[", seqs[1])
    BY <2>6, ItemsPrinted
  <2>9. \A i \in 2 .. n : ItemsFrom("item", seqs[i])
    BY <2>7, ItemsPrinted
  <2>10. n \in Int /\ n > 0
    BY <2>1
  <2>11. ItemsFrom("[", A!FlattenSeq(seqs))
    BY ONLY <2>2, <2>8, <2>9, <2>10, ItemsList, Zenon
  <2>12. Made(A!Section(TRUE, A!FlattenSeq(seqs)))
    BY <2>11, SectionsMade DEF ItemList
  <2> QED
    BY <1>2, <2>12 DEF A!poolstatus, seqs
<1> QED
  BY <1>1, <1>2

LEMMA ListsMade ==
  ASSUME NEW m \in A!Miner
  PROVE  /\ Made(A!edevstatus(m, TRUE))
         /\ Made(A!notify(m, TRUE))
         /\ Made(A!devdetails(m, TRUE))
         /\ Made(A!minerestats(m, TRUE))
         /\ Made(A!usbstats(m, TRUE))
         /\ m.ascs + m.pgas = 0 => Made(A!minerstats(m, TRUE))
<1>1. m.ascs \in Nat /\ m.pgas \in Nat /\ m.gone \in Nat /\ m.usb \in Nat
  BY DEF A!Miner
<1>2. ASSUME NEW n \in Int PROVE Made(A!Section(TRUE, A!PrintAll(TRUE, n)))
  <2>1. ItemList(A!PrintAll(TRUE, n))
    <3>1. n <= 0 \/ n > 0
      OBVIOUS
    <3> QED
      BY <3>1, ItemsAll DEF A!PrintAll, ItemList
  <2> QED
    BY <2>1, SectionsMade
<1>3. ASSUME NEW n \in Int
      PROVE  /\ [i \in 1 .. n |-> A!notifystatus(TRUE, i - 1)]
                 = [i \in 1 .. n |-> A!print_data(TRUE, i > 1)]
             /\ [i \in 1 .. n |-> A!itemstats(TRUE, i - 1)]
                 = [i \in 1 .. n |-> A!print_data(TRUE, i > 1)]
  <2>1. \A i \in 1 .. n : (i - 1 > 0) = (i > 1)
    OBVIOUS
  <2> QED
    BY <2>1 DEF A!notifystatus, A!itemstats
<1>4. \A n \in Int : /\ Made(A!Section(TRUE, A!FlattenSeq([i \in 1 .. n |-> A!notifystatus(TRUE, i - 1)])))
                    /\ Made(A!Section(TRUE, A!FlattenSeq([i \in 1 .. n |-> A!itemstats(TRUE, i - 1)])))
  BY <1>2, <1>3 DEF A!PrintAll
<1>5. m.ascs - m.gone + m.pgas \in Int /\ m.ascs + m.pgas \in Int
  BY <1>1
<1>6. Made(A!edevstatus(m, TRUE))
  BY <1>2, <1>5, SectionsMade DEF A!edevstatus
<1>7. Made(A!notify(m, TRUE))
  BY <1>4, <1>5, SectionsMade DEF A!notify
<1>8. Made(A!devdetails(m, TRUE))
  BY <1>2, <1>5, SectionsMade DEF A!devdetails
<1>9. Made(A!minerestats(m, TRUE))
  BY <1>4, <1>5 DEF A!minerestats
<1>10. Made(A!usbstats(m, TRUE))
  <2>1. m.usb \in Int
    BY <1>1
  <2> QED
    BY <1>2, <2>1, SectionsMade DEF A!usbstats
<1>11. ASSUME m.ascs + m.pgas = 0 PROVE Made(A!minerstats(m, TRUE))
  <2> DEFINE seqs == [i \in 1 .. m.ascs + m.pgas |-> A!itemstats(TRUE, i - 1)]
             one == A!print_data(TRUE, FALSE)
  <2>1. seqs = [i \in 1 .. m.ascs + m.pgas |-> seqs[i]]
    OBVIOUS
  <2>2. A!FlattenSeq(seqs) = <<>>
    <3> HIDE DEF seqs
    <3>1. PICK n \in Int : n = m.ascs + m.pgas
      BY <1>5
    <3>2. seqs = [i \in 1 .. n |-> seqs[i]]
      BY <2>1, <3>1, Zenon
    <3>3. n <= 0 /\ ~(n > 0) /\ \A i \in 2 .. n : FALSE
      BY <1>11, <3>1
    <3> QED
      BY <3>2, <3>3, ItemsList
  <2>3. one \in Seq(Mark)
    BY DEF A!print_data, Mark
  <2> HIDE DEF seqs, one
  <2>4. one \o <<>> = one
    BY ONLY <2>3, ConcatEmptySeq
  <2>5. Made(A!Section(TRUE, one))
    BY OneItem, SectionsMade DEF one
  <2>6. Made(A!Section(TRUE, one \o A!FlattenSeq(seqs)))
    BY <2>2, <2>4, <2>5
  <2> QED
    BY <2>6 DEF A!minerstats, seqs, one
<1> QED
  BY <1>6, <1>7, <1>8, <1>9, <1>10, <1>11

LEMMA DebugMade == \A param : Made(A!debugstate(TRUE, param))
<1> TAKE param
<1> DEFINE reply == A!debugstate(TRUE, param)
           items == A!print_data(TRUE, FALSE)
<1>1. reply.close = TRUE /\ reply.add = A!Section(TRUE, items).add
  BY DEF A!debugstate, A!Section
<1>2. ItemList(items)
  BY OneItem
<1> HIDE DEF reply, items
<1>3. Made(reply)
  BY <1>1, <1>2, SectionMade
<1> QED
  BY <1>3 DEF reply

\* What every command answers to a JSON request, apart from the commas of CommaFlaw.
LEMMA CommandsMade ==
  ASSUME NEW name \in A!Command, NEW m \in A!Miner, NEW param, name # "lcd",
         name = "stats" => m.ascs + m.pgas = 0,
         name = "pools" => m.pools = <<>> \/ ~m.pools[1]
  PROVE  Made(A!cmds(name, m, TRUE, param))
<1>1. CASE name \in {"devs", "edevs", "pools", "notify", "devdetails", "stats", "estats",
                  "usbstats"}
  BY <1>1, DevstatusMade, PoolstatusMade, ListsMade DEF A!cmds
<1>2. CASE name \in {"version", "config", "summary", "pga", "pgacount", "check", "coin", "asc",
                  "asccount"}
  BY <1>2, OneItem, SectionsMade DEF A!cmds, A!apiversion, A!minerconfig, A!summary, A!pgadev,
     A!pgacount, A!checkcommand, A!minecoin, A!ascdev, A!asccount, A!pgastatus, A!ascstatus
<1>3. CASE name \in {"pgaenable", "pgadisable", "pgaidentify", "switchpool", "addpool",
                  "poolpriority", "poolquota", "enablepool", "disablepool", "removepool", "save"}
  BY <1>3, SectionsMade DEF A!cmds, A!pgaenable, A!pgadisable, A!pgaidentify, A!switchpool,
     A!addpool, A!poolpriority, A!poolquota, A!enablepool, A!disablepool, A!removepool, A!dosave
<1>4. CASE name \in {"privileged", "failover-only", "setconfig", "pgaset", "zero", "hotplug",
                  "ascenable", "ascdisable", "ascidentify", "ascset", "lockstats"}
  BY <1>4, SectionsMade DEF A!cmds, A!privileged, A!failoveronly, A!setconfig, A!pgaset, A!dozero,
     A!dohotplug, A!ascenable, A!ascdisable, A!ascidentify, A!ascset, A!lockstats
<1>5. CASE name \in {"quit", "restart", "debug"}
  BY <1>5, ActionMade, DebugMade DEF A!cmds, A!doquit, A!dorestart
<1> QED
  BY <1>1, <1>2, <1>3, <1>4, <1>5 DEF A!Command, A!Joinable, A!WriteMode

\* A command that may be joined adds to what is there.
LEMMA JoinableAdds ==
  ASSUME NEW name \in A!Joinable, NEW m, NEW isjson, NEW param
  PROVE  A!cmds(name, m, isjson, param).put = FALSE
<1>1. CASE name = "lockstats"
  BY <1>1, Reports DEF A!cmds, A!lockstats, OnlyReports
<1>2. CASE name # "lockstats"
  <2>1. name \in Reading
    BY <1>2 DEF A!Joinable, Reading
  <2> QED
    BY <2>1, ReadingReports DEF OnlyReports
<1> QED
  BY <1>1, <1>2

(***************************************************************************)
(* Api: the reply, as it is built                                          *)
(***************************************************************************)
\* The JSON requests that ReplyIsJson is about.
Proper ==
    /\ request.json /\ ~A!CommaFlaw(request)
    /\ ~(request.form # "cmds" /\ isjoin)

\* Between two commands of a joined request: its object is open, the lists in it are closed.
Between == <<"]", Append(<<>>, "{")>>

\* A joined request's object is opened for the first command that is answered.
CommandInv ==
    pc = "command" =>
        /\ request.form = "cmds" /\ isjoin = request.join
        /\ todo \in Seq(STRING) /\ todo # <<>>
        /\ A!Range(todo) \subseteq A!Range(request.cmds)
        /\ close = FALSE
        /\ ~isjoin => buffer = <<>>
        /\ firstjoin => /\ buffer = <<>> /\ cmdsbuf = {}
                        /\ A!Range(request.cmds) \ {""} \subseteq A!Range(todo)
        /\ isjoin /\ ~firstjoin /\ Proper => Path(Begin, buffer, Between)

SendInv ==
    pc = "send" /\ Proper => \E y : Path(Begin, buffer, y) /\ Path(y, A!SendEnd(TRUE, close), End)

SentInv ==
    /\ pc \notin {"closed", "again"} => sent = <<>>
    /\ pc = "again" => request.form # "cmds" /\ isjoin
    /\ Proper /\ sent # <<>> => Path(Begin, sent[1], End) /\ Len(sent) = 1

JsonInv ==
    /\ config \in Config
    /\ pc \in {"command", "send", "again", "closed"} => request \in Request
    /\ CommandInv /\ SendInv /\ SentInv

LEMMA ApiAssumed ==
  /\ \A c \in Config : c.miner \in A!Miner
  /\ \A r \in Request : /\ r.json \in BOOLEAN /\ r.join \in BOOLEAN
                        /\ r.form # "cmds" => r.json
                        /\ r.cmds \in Seq(STRING)
                        /\ r.form = "cmds" => r.cmds # <<>>
  BY MCCgminerAssumption DEF A!ApiAssumption

LEMMA AnswerMade ==
  ASSUME config \in Config, request.json = TRUE, ~A!CommaFlaw(request),
         NEW name \in A!Range(request.cmds)
  PROVE  Made(A!Answer(name))
<1>1. CASE name \in A!Command
  <2>1. config.miner \in A!Miner
    BY ApiAssumed
  <2>2. /\ name # "lcd"
        /\ name = "stats" => config.miner.ascs + config.miner.pgas = 0
        /\ name = "pools" => config.miner.pools = <<>> \/ ~config.miner.pools[1]
    <3>1. config.miner.ascs \in Nat /\ config.miner.pgas \in Nat
      BY <2>1 DEF A!Miner
    <3>2. /\ "lcd" \notin A!Range(request.cmds)
          /\ ~("stats" \in A!Range(request.cmds) /\ config.miner.ascs + config.miner.pgas > 0)
          /\ ~("pools" \in A!Range(request.cmds) /\ config.miner.pools # <<>> /\ config.miner.pools[1])
      BY Zenon DEF A!CommaFlaw
    <3>3. name # "lcd"
      BY <3>2
    <3>4. name = "stats" => config.miner.ascs + config.miner.pgas = 0
      BY <3>1, <3>2
    <3>5. name = "pools" => config.miner.pools = <<>> \/ ~config.miner.pools[1]
      BY <3>2
    <3> QED
      BY <3>3, <3>4, <3>5
  <2>3. Made(A!cmds(name, config.miner, TRUE, request.param))
    BY <1>1, <2>1, <2>2, CommandsMade
  <2> QED
    BY <2>3, SectionsMade DEF A!Answer
<1>2. CASE name \notin A!Command
  BY <1>2, SectionsMade DEF A!Answer
<1> QED
  BY <1>1, <1>2

LEMMA JoinedAdds ==
  ASSUME isjoin, NEW name
  PROVE  A!Answer(name).put = FALSE
<1>1. CASE name \in A!Joinable
  <2>1. A!cmds(name, config.miner, request.json, request.param).put = FALSE
    BY <1>1, JoinableAdds
  <2>2. A!Status(request.json, FALSE).put = FALSE
    BY DEF A!Status
  <2> QED
    BY <2>1, <2>2 DEF A!Answer
<1>2. CASE name \notin A!Joinable
  BY <1>2 DEF A!Answer, A!Status
<1> QED
  BY <1>1, <1>2

\* A command of a joined request, with its list and the marks around it.
LEMMA JoinedMade ==
  ASSUME isjoin, request.json = TRUE, NEW reply, Made(reply),
         Path(Begin, buffer, IF firstjoin THEN Begin ELSE Between)
  PROVE  Path(Begin, ((buffer \o A!head_join) \o reply.add) \o A!tail_join(reply), Between)
<1> DEFINE d == Append(<<>>, "{")
           e == Append(d, "[")
<1>1. <<>> \in Seq(Mark)
  BY EmptySeq
<1>2. /\ e \in Seq(Mark)
      /\ Path(<<"[", <<>>>>, <<"{", "key", "[">>, <<"[", e>>)
      /\ Path(<<"]", d>>, <<",", "key", "[">>, <<"[", e>>)
      /\ Path(<<"}", e>>, <<"]">>, <<"]", d>>)
  BY <1>1, PathPieces
<1>3. Path(IF firstjoin THEN Begin ELSE Between, A!head_join, <<"[", e>>)
  <2>1. CASE firstjoin
    BY <1>2, <2>1 DEF A!head_join, Begin
  <2>2. CASE ~firstjoin
    BY <1>2, <2>2 DEF A!head_join, Between
  <2> QED
    BY <2>1, <2>2
<1> HIDE DEF d, e
<1>4. PICK y : /\ Path(<<"[", e>>, reply.add, y)
               /\ Path(y, A!SendEnd(TRUE, reply.close), <<"}", e>>)
  BY <1>2 DEF Made
<1>5. Path(y, A!tail_join(reply), Between)
  <2>1. A!tail_join(reply) = A!SendEnd(TRUE, reply.close) \o <<"]">>
    BY DEF A!tail_join
  <2>2. Path(y, A!SendEnd(TRUE, reply.close) \o <<"]">>, <<"]", d>>)
    BY <1>2, <1>4, PathConcat
  <2> QED
    BY <2>1, <2>2 DEF Between, d
<1>6. Path(Begin, buffer \o A!head_join, <<"[", e>>)
  BY <1>3, PathConcat
<1>7. Path(Begin, (buffer \o A!head_join) \o reply.add, y)
  BY <1>4, <1>6, PathConcat
<1> QED
  BY <1>5, <1>7, PathConcat

LEMMA BetweenEnds == Path(Between, A!SendEnd(TRUE, FALSE), End)
<1>1. <<>> \in Seq(Mark)
  BY EmptySeq
<1> QED
  BY <1>1, PathPieces DEF Between, End

LEMMA AcceptJson ==
  ASSUME JsonInv, A!Accept
  PROVE  JsonInv'
<1>1. PICK r \in Request :
        /\ request' = r
        /\ IF r.form = "cmds"
           THEN isjoin' = r.join /\ firstjoin' = r.join /\ buffer' = <<>> /\ pc' = "command"
           ELSE buffer' = A!message(TRUE) /\ pc' = "send"
  BY DEF A!Accept
<1>2. todo' = request'.cmds /\ cmdsbuf' = {} /\ close' = FALSE /\ sent' = <<>> /\ config' = config
  BY DEF A!Accept, A!endVars
<1>3. config' \in Config /\ request' \in Request
  BY <1>1, <1>2 DEF JsonInv
<1>4. CommandInv'
  <2> SUFFICES ASSUME pc' = "command" PROVE CommandInv'
    BY DEF CommandInv
  <2>1. request'.form = "cmds" /\ isjoin' = request'.join /\ firstjoin' = isjoin' /\ buffer' = <<>>
    BY <1>1
  <2>2. todo' \in Seq(STRING) /\ todo' # <<>>
    BY <1>2, <1>3, <2>1, ApiAssumed
  <2> QED
    BY <1>2, <2>1, <2>2 DEF CommandInv
<1>5. SendInv'
  <2> SUFFICES ASSUME pc' = "send"
               PROVE  \E y : /\ Path(Begin, buffer', y)
                             /\ Path(y, A!SendEnd(TRUE, close'), End)
    BY DEF SendInv
  <2>1. buffer' = A!message(TRUE)
    BY <1>1
  <2>2. <<>> \in Seq(Mark)
    BY EmptySeq
  <2>3. Path(Begin, A!message(TRUE), Between)
    BY <2>2, PathPieces DEF Begin, Between
  <2> QED
    BY <1>2, <2>1, <2>3, BetweenEnds
<1>6. SentInv'
  BY <1>1, <1>2 DEF SentInv
<1> QED
  BY <1>3, <1>4, <1>5, <1>6 DEF JsonInv

LEMMA SendJson ==
  ASSUME JsonInv, A!send_result \/ A!SendAgain
  PROVE  JsonInv'
<1>1. /\ pc \in {"send", "again"} /\ pc' \in {"closed", "again"}
      /\ UNCHANGED <<config, request, isjoin>>
      /\ sent' \in {sent, Append(sent, buffer')}
      /\ buffer' = buffer \o A!SendEnd(request.json, close)
  BY DEF A!send_result, A!SendAgain, A!endVars
<1>2. config' \in Config /\ request' \in Request
  BY <1>1 DEF JsonInv
<1>3. CommandInv' /\ SendInv'
  BY <1>1 DEF CommandInv, SendInv
<1>4. pc' = "again" => request.form # "cmds" /\ isjoin
  BY DEF A!send_result, A!SendAgain
<1>5. Proper' = Proper
  BY <1>1 DEF Proper, A!CommaFlaw
<1>6. ASSUME Proper, sent' # <<>> PROVE Path(Begin, sent'[1], End) /\ Len(sent') = 1
  <2>1. pc = "send"
    BY <1>1, <1>6 DEF JsonInv, SentInv, Proper
  <2>2. sent = <<>>
    BY <2>1 DEF JsonInv, SentInv
  <2>3. request.json = TRUE
    BY <1>2, <1>1, <1>6, ApiAssumed DEF Proper
  <2>4. PICK y : Path(Begin, buffer, y) /\ Path(y, A!SendEnd(TRUE, close), End)
    BY <1>6, <2>1 DEF JsonInv, SendInv
  <2>5. Path(Begin, buffer', End)
    BY <1>1, <2>3, <2>4, PathConcat
  <2>6. sent' = Append(<<>>, buffer')
    BY <1>1, <1>6, <2>2
  <2> QED
    BY <2>5, <2>6
<1>7. SentInv'
  BY <1>1, <1>4, <1>5, <1>6 DEF SentInv
<1> QED
  BY <1>2, <1>3, <1>7 DEF JsonInv

\* Steps that leave the request and the reply as they are.
LEMMA OtherJson ==
  ASSUME JsonInv, UNCHANGED <<config, A!requestVars>>, pc' = pc \/ pc' \in {"die", "bye", "done"},
         pc \in {"closed", "again"} => pc' = pc
  PROVE  JsonInv'
<1>1. UNCHANGED <<config, request, todo, isjoin, firstjoin, cmdsbuf, buffer, close, sent>>
  BY DEF A!requestVars
<1>2. Proper' = Proper
  BY <1>1 DEF Proper, A!CommaFlaw
<1>3. CASE pc' = pc
  BY <1>1, <1>2, <1>3 DEF JsonInv, CommandInv, SendInv, SentInv
<1>4. CASE pc' \in {"die", "bye", "done"} /\ pc' # pc
  <2>1. sent = <<>>
    BY <1>4 DEF JsonInv, SentInv
  <2> QED
    BY <1>1, <1>4, <2>1 DEF JsonInv, CommandInv, SendInv, SentInv
<1> QED
  BY <1>3, <1>4

\* The names of a request that are left.
LEMMA NamesLeft ==
  ASSUME NEW names \in Seq(STRING), names # <<>>
  PROVE  /\ Tail(names) \in Seq(STRING)
         /\ A!Range(names) = {Head(names)} \cup A!Range(Tail(names))
<1>1. PICK n \in Nat : n = Len(names) /\ n # 0
  OBVIOUS
<1>2. /\ Tail(names) \in Seq(STRING) /\ Len(Tail(names)) = n - 1
      /\ \A i \in 1 .. n - 1 : Tail(names)[i] = names[i + 1]
      /\ Head(names) = names[1]
  BY <1>1
<1>3. DOMAIN names = 1 .. n /\ DOMAIN Tail(names) = 1 .. n - 1
  BY <1>1, <1>2
<1>4. A!Range(Tail(names)) = {names[i] : i \in 2 .. n}
  <2>1. A!Range(Tail(names)) = {names[i + 1] : i \in 1 .. n - 1}
    BY <1>2, <1>3 DEF A!Range
  <2>2. ASSUME NEW i \in 2 .. n PROVE \E j \in 1 .. n - 1 : i = j + 1
    <3> WITNESS i - 1 \in 1 .. n - 1
    <3> QED
      OBVIOUS
  <2>3. \A j \in 1 .. n - 1 : j + 1 \in 2 .. n
    OBVIOUS
  <2> QED
    BY <2>1, <2>2, <2>3
<1>5. A!Range(names) = {names[i] : i \in 1 .. n}
  BY <1>3 DEF A!Range
<1>6. \A i \in 1 .. n : i = 1 \/ i \in 2 .. n
  OBVIOUS
<1>7. 1 \in 1 .. n /\ \A i \in 2 .. n : i \in 1 .. n
  BY <1>1
<1> QED
  BY <1>2, <1>4, <1>5, <1>6, <1>7

\* An empty name, and one that was answered already, are passed over.
LEMMA DoCommandJson ==
  ASSUME JsonInv, A!DoCommand
  PROVE  JsonInv'
<1> DEFINE name == Head(todo)
           rest == Tail(todo)
           reply == A!Answer(name)
           skip == isjoin /\ (name = "" \/ name \in cmdsbuf)
<1>1. /\ pc = "command" /\ UNCHANGED <<config, request, isjoin, sent>>
      /\ todo' = rest /\ pc' = IF isjoin /\ rest # <<>> THEN "command" ELSE "send"
  BY DEF A!DoCommand, A!NextTodo
<1>2. /\ config \in Config /\ request \in Request /\ request.form = "cmds" /\ isjoin = request.join
      /\ todo \in Seq(STRING) /\ todo # <<>> /\ A!Range(todo) \subseteq A!Range(request.cmds)
      /\ close = FALSE /\ sent = <<>>
      /\ ~isjoin => buffer = <<>>
      /\ firstjoin => /\ buffer = <<>> /\ cmdsbuf = {}
                      /\ A!Range(request.cmds) \ {""} \subseteq A!Range(todo)
      /\ isjoin /\ ~firstjoin /\ Proper => Path(Begin, buffer, Between)
  BY <1>1 DEF JsonInv, CommandInv, SentInv
<1>3. isjoin \in BOOLEAN /\ request.json \in BOOLEAN
  BY <1>2, ApiAssumed
<1>4. /\ rest \in Seq(STRING) /\ name \in A!Range(request.cmds)
      /\ A!Range(todo) = {name} \cup A!Range(rest)
      /\ A!Range(rest) \subseteq A!Range(request.cmds)
  BY <1>2, NamesLeft
<1>5. Proper' = Proper
  BY <1>1 DEF Proper, A!CommaFlaw
<1>6. SentInv'
  BY <1>1, <1>2 DEF SentInv
<1>7. Proper => Made(reply) /\ request.json = TRUE /\ ~A!CommaFlaw(request)
  BY <1>2, <1>3, <1>4, AnswerMade DEF Proper
<1>8. CASE isjoin
  <2>1. /\ close' = FALSE
        /\ firstjoin' => /\ buffer' = <<>> /\ cmdsbuf' = {}
                         /\ A!Range(request.cmds) \ {""} \subseteq A!Range(rest)
        /\ ~firstjoin' /\ Proper => Path(Begin, buffer', Between)
    <3>1. CASE skip
      <4>1. UNCHANGED <<firstjoin, cmdsbuf, buffer, close>>
        BY <3>1 DEF A!DoCommand
      <4>2. firstjoin => name = ""
        BY <1>2, <3>1
      <4> HIDE DEF name, rest
      <4> QED
        BY <1>2, <1>4, <1>8, <4>1, <4>2
    <3>2. CASE ~skip
      <4>1. /\ buffer' = (IF reply.put THEN <<>> ELSE buffer \o A!head_join) \o reply.add
                         \o A!tail_join(reply)
            /\ close' = (reply.close /\ ~isjoin)
            /\ firstjoin' = FALSE
        BY <3>2 DEF A!DoCommand
      <4>2. reply.put = FALSE
        BY <1>8, JoinedAdds
      <4> HIDE DEF name, rest, reply
      <4>3. close' = FALSE
        BY <1>8, <4>1
      <4>4. ASSUME Proper PROVE Path(Begin, buffer', Between)
        <5>1. Path(Begin, buffer, IF firstjoin THEN Begin ELSE Between)
          <6>1. Path(Begin, <<>>, Begin)
            BY PathNone
          <6> QED
            BY <1>2, <1>8, <4>4, <6>1
        <5>2. Path(Begin, ((buffer \o A!head_join) \o reply.add) \o A!tail_join(reply), Between)
          BY <1>7, <1>8, <4>4, <5>1, JoinedMade
        <5> QED
          BY <4>1, <4>2, <5>2
      <4> QED
        BY <4>1, <4>3, <4>4
    <3> QED
      BY <3>1, <3>2
  <2> HIDE DEF name, rest, reply, skip
  <2>2. CommandInv'
    <3>1. pc' = "command" => rest # <<>>
      BY <1>1
    <3> QED
      BY <1>1, <1>2, <1>4, <1>5, <1>8, <2>1, <3>1 DEF CommandInv
  <2>3. SendInv'
    <3> SUFFICES ASSUME pc' = "send", Proper'
                 PROVE  \E y : /\ Path(Begin, buffer', y)
                               /\ Path(y, A!SendEnd(TRUE, close'), End)
      BY DEF SendInv
    <3>1. rest = <<>> /\ A!Range(<<>>) = {}
      BY <1>1, <1>8 DEF A!Range
    <3>2. firstjoin' => A!Range(request.cmds) \ {""} = {}
      BY <2>1, <3>1
    <3>3. ~(A!Range(request.cmds) \subseteq {""})
      BY <1>2, <1>5, <1>7, <1>8 DEF A!CommaFlaw
    <3>4. ~firstjoin'
      BY <3>2, <3>3
    <3>5. Path(Begin, buffer', Between)
      BY <1>5, <2>1, <3>4
    <3> QED
      BY <2>1, <3>5, BetweenEnds
  <2> QED
    BY <1>1, <1>2, <1>6, <2>2, <2>3 DEF JsonInv
<1>9. CASE ~isjoin
  <2>1. /\ buffer' = (IF reply.put THEN <<>> ELSE buffer \o A!head_join) \o reply.add
                     \o A!tail_join(reply)
        /\ close' = (reply.close /\ ~isjoin)
    BY <1>9 DEF A!DoCommand
  <2> HIDE DEF name, rest, reply
  <2>2. pc' = "send" /\ buffer = <<>>
    BY <1>1, <1>2, <1>9
  <2>3. CommandInv'
    BY <2>2 DEF CommandInv
  <2>4. SendInv'
    <3> SUFFICES ASSUME Proper
                 PROVE  \E y : /\ Path(Begin, buffer', y)
                               /\ Path(y, A!SendEnd(TRUE, close'), End)
      BY <1>5 DEF SendInv
    <3>1. <<>> \in Seq(Mark)
      BY EmptySeq
    <3>2. PICK y : Path(Begin, reply.add, y) /\ Path(y, A!SendEnd(TRUE, reply.close), End)
      BY <1>7, <3>1 DEF Made, Begin, End
    <3>3. A!head_join = <<>> /\ A!tail_join(reply) = <<>>
      BY <1>9 DEF A!head_join, A!tail_join
    <3>4. buffer' = (<<>> \o reply.add) \o <<>>
      <4>1. <<>> \o <<>> = <<>>
        OBVIOUS
      <4> QED
        BY <2>1, <2>2, <3>3, <4>1
    <3>5. Path(Begin, buffer', y)
      <4>1. Path(Begin, <<>>, Begin) /\ Path(y, <<>>, y)
        BY PathNone
      <4>2. Path(Begin, <<>> \o reply.add, y)
        BY <3>2, <4>1, PathConcat
      <4> QED
        BY <3>4, <4>1, <4>2, PathConcat
    <3>6. A!SendEnd(TRUE, close') = A!SendEnd(TRUE, reply.close)
      BY <1>9, <2>1 DEF A!SendEnd
    <3> QED
      BY <3>2, <3>5, <3>6
  <2> QED
    BY <1>1, <1>2, <1>6, <2>2, <2>3, <2>4 DEF JsonInv
<1> QED
  BY <1>8, <1>9

LEMMA JsonStepInv ==
  ASSUME JsonInv, A!Next \/ UNCHANGED apiVars
  PROVE  JsonInv'
<1>1. CASE A!Accept
  BY <1>1, AcceptJson
<1>2. CASE A!DoCommand
  BY <1>2, DoCommandJson
<1>3. CASE A!send_result \/ A!SendAgain
  BY <1>3, SendJson
<1>4. CASE A!CloseSocket
  <2>1. config' = config /\ sent' = <<>> /\ pc' \in {"die", "accept"}
    BY <1>4 DEF A!CloseSocket, A!endVars
  <2> QED
    BY <2>1 DEF JsonInv, CommandInv, SendInv, SentInv
<1>5. CASE A!AcceptFails
  BY <1>5, OtherJson DEF A!AcceptFails, A!requestVars, A!endVars
<1>6. CASE A!tidyup \/ A!Bye
  BY <1>6, OtherJson DEF A!tidyup, A!Bye
<1>7. CASE A!quit_thread \/ A!mcast
  BY <1>7, OtherJson DEF A!quit_thread, A!mcast
<1>8. CASE UNCHANGED apiVars
  BY <1>8, OtherJson DEF apiVars, A!requestVars
<1> QED
  BY <1>1, <1>2, <1>3, <1>4, <1>5, <1>6, <1>7, <1>8 DEF A!Next, A!ApiThread, A!Answering

LEMMA JsonInitInv == A!Init => JsonInv
<1> SUFFICES ASSUME A!Init PROVE JsonInv
  OBVIOUS
<1>1. config \in Config /\ pc \in {"off", "accept"} /\ sent = <<>>
  BY DEF A!Init
<1> QED
  BY <1>1 DEF JsonInv, CommandInv, SendInv, SentInv

LEMMA JsonInvExact == JsonInv => A!ReplyIsJson
<1> SUFFICES ASSUME JsonInv, Proper, sent # <<>> PROVE A!Json(sent[1]) /\ Len(sent) = 1
  BY DEF A!ReplyIsJson, Proper
<1>1. Path(Begin, sent[1], End) /\ Len(sent) = 1
  BY DEF JsonInv, SentInv
<1> QED
  BY <1>1, PathIsJson

(***************************************************************************)
(* Api: the second theorem                                                 *)
(***************************************************************************)
RepliesInv == part = "api" => JsonInv

\* api.c: the reply to a JSON request, put together by message, the handlers, print_data, head_join,
\* tail_join and send_result, is one JSON object and is sent once, for any miner, options and
\* requests, joined or not, apart from the ones that CommaFlaw names.
THEOREM ReplyIsJsonHolds == MCSpec => []ReplyIsJson
<1>1. MCInit => RepliesInv
  BY JsonInitInv DEF MCInit, RepliesInv
<1>2. RepliesInv /\ [MCNext]_allVars => RepliesInv'
  <2> SUFFICES ASSUME RepliesInv, [MCNext]_allVars, part' = "api" PROVE JsonInv'
    BY DEF RepliesInv
  <2>1. part = "api" /\ (A!Next \/ UNCHANGED apiVars)
    BY DEF MCNext, Only, allVars
  <2> QED
    BY <2>1, JsonStepInv DEF RepliesInv
<1>3. RepliesInv => ReplyIsJson
  BY JsonInvExact DEF RepliesInv, ReplyIsJson
<1> QED
  BY <1>1, <1>2, <1>3, PTL DEF MCSpec

(***************************************************************************)
(* Locks: a cglock excludes, for any number of threads.  LockExcludes      *)
(* speaks of the places of the threads only; the induction has to tie the  *)
(* places to what POSIX holds: the mutex, the lock for writing, and the    *)
(* locks for reading.                                                      *)
(***************************************************************************)
\* The mutex is held exactly by the thread whose place says so.
MutexInv == \A t \in Thread : mutex = t <=> t \in Owners

\* So is the read-write lock for writing.
WriterInv == \A t \in Thread : writer = t <=> at[t] = "write"

\* So is it for reading, also in the middle of an operation.
ReaderInv == \A t \in Thread : t \in readers <=> at[t] \in {"read", "rlocked", "dlocked"}

\* POSIX does not give the lock for writing beside one for reading.
PosixInv == writer # NoThread => readers = {}

LockInv == TypeOK /\ MutexInv /\ WriterInv /\ ReaderInv /\ PosixInv

\* The operations of miner.h keep the places and what POSIX holds of their types.
LEMMA LockTypeStep == TypeOK /\ [Next]_vars => TypeOK'
<1> SUFFICES ASSUME TypeOK, [Next]_vars PROVE TypeOK'
  OBVIOUS
<1> USE LocksAssumption DEF TypeOK, Place, Goes
<1>1. ASSUME NEW t \in Thread, rlock(t) PROVE TypeOK'
  BY <1>1 DEF rlock, mutex_lock, rd_lock, mutex_unlock
<1>2. ASSUME NEW t \in Thread, ilock(t) \/ uilock(t) PROVE TypeOK'
  BY <1>2 DEF ilock, uilock, mutex_lock, mutex_unlock
<1>3. ASSUME NEW t \in Thread, ulock(t) \/ wlock(t) PROVE TypeOK'
  BY <1>3 DEF ulock, wlock, mutex_lock, wr_lock
<1>4. ASSUME NEW t \in Thread, dwlock(t) PROVE TypeOK'
  BY <1>4 DEF dwlock, wr_unlock, rd_lock, mutex_unlock
<1>5. ASSUME NEW t \in Thread, dwilock(t) \/ dlock(t) PROVE TypeOK'
  BY <1>5 DEF dwilock, dlock, wr_unlock, rd_lock
<1>6. ASSUME NEW t \in Thread, runlock(t) \/ ruwlock(t) PROVE TypeOK'
  BY <1>6 DEF runlock, ruwlock, rd_unlock, mutex_lock
<1>7. ASSUME NEW t \in Thread, wunlock(t) PROVE TypeOK'
  BY <1>7 DEF wunlock, wr_unlock, mutex_unlock
<1>8. ASSUME UNCHANGED vars PROVE TypeOK'
  BY <1>8 DEF vars
<1> QED
  BY <1>1, <1>2, <1>3, <1>4, <1>5, <1>6, <1>7, <1>8 DEF Next

\* What POSIX holds for a thread follows the place that the operations of miner.h take it to.
LEMMA LocksHeldStep == LockInv /\ [Next]_vars => MutexInv' /\ WriterInv' /\ ReaderInv' /\ PosixInv'
<1> SUFFICES ASSUME LockInv, [Next]_vars PROVE MutexInv' /\ WriterInv' /\ ReaderInv' /\ PosixInv'
  OBVIOUS
<1> USE LocksAssumption
        DEF LockInv, TypeOK, MutexInv, WriterInv, ReaderInv, PosixInv, Owners, Place, Goes
<1>1. ASSUME NEW t \in Thread, rlock(t) PROVE MutexInv' /\ WriterInv' /\ ReaderInv' /\ PosixInv'
  <2>1. CASE Goes(t, "free", "rlock") /\ mutex_lock(t)
    BY <2>1 DEF mutex_lock
  <2>2. CASE Goes(t, "rlock", "rlocked") /\ rd_lock(t)
    BY <2>2 DEF rd_lock
  <2>3. CASE Goes(t, "rlocked", "read") /\ mutex_unlock(t)
    BY <2>3 DEF mutex_unlock
  <2> QED
    BY <1>1, <2>1, <2>2, <2>3 DEF rlock
<1>2. ASSUME NEW t \in Thread, ilock(t) \/ uilock(t)
      PROVE MutexInv' /\ WriterInv' /\ ReaderInv' /\ PosixInv'
  BY <1>2 DEF ilock, uilock, mutex_lock, mutex_unlock
<1>3. ASSUME NEW t \in Thread, ulock(t) \/ wlock(t)
      PROVE MutexInv' /\ WriterInv' /\ ReaderInv' /\ PosixInv'
  <2>1. CASE Goes(t, "inter", "ulock") /\ UNCHANGED <<mutex, writer, readers>>
    BY <2>1
  <2>2. CASE Goes(t, "free", "wlock") /\ mutex_lock(t)
    BY <2>2 DEF mutex_lock
  <2>3. CASE (Goes(t, "ulock", "write") \/ Goes(t, "wlock", "write")) /\ wr_lock(t)
    BY <2>3 DEF wr_lock
  <2> QED
    BY <1>3, <2>1, <2>2, <2>3 DEF ulock, wlock
<1>4. ASSUME NEW t \in Thread, dwlock(t) PROVE MutexInv' /\ WriterInv' /\ ReaderInv' /\ PosixInv'
  <2>1. CASE Goes(t, "write", "dwlock") /\ wr_unlock(t)
    BY <2>1 DEF wr_unlock
  <2>2. CASE Goes(t, "dwlock", "dlocked") /\ rd_lock(t)
    BY <2>2 DEF rd_lock
  <2>3. CASE Goes(t, "dlocked", "read") /\ mutex_unlock(t)
    BY <2>3 DEF mutex_unlock
  <2> QED
    BY <1>4, <2>1, <2>2, <2>3 DEF dwlock
<1>5. ASSUME NEW t \in Thread, dwilock(t) \/ dlock(t)
      PROVE MutexInv' /\ WriterInv' /\ ReaderInv' /\ PosixInv'
  <2>1. CASE dwilock(t)
    BY <2>1 DEF dwilock, wr_unlock
  <2>2. CASE dlock(t)
    BY <2>2 DEF dlock, rd_lock
  <2> QED
    BY <1>5, <2>1, <2>2
<1>6. ASSUME NEW t \in Thread, runlock(t) \/ ruwlock(t)
      PROVE MutexInv' /\ WriterInv' /\ ReaderInv' /\ PosixInv'
  <2>1. CASE (Goes(t, "read", "free") \/ Goes(t, "read", "ruwlock")) /\ rd_unlock(t)
    BY <2>1 DEF rd_unlock
  <2>2. CASE Goes(t, "ruwlock", "wlock") /\ mutex_lock(t)
    BY <2>2 DEF mutex_lock
  <2> QED
    BY <1>6, <2>1, <2>2 DEF runlock, ruwlock
<1>7. ASSUME NEW t \in Thread, wunlock(t) PROVE MutexInv' /\ WriterInv' /\ ReaderInv' /\ PosixInv'
  <2>1. CASE Goes(t, "write", "wunlock") /\ wr_unlock(t)
    BY <2>1 DEF wr_unlock
  <2>2. CASE Goes(t, "wunlock", "free") /\ mutex_unlock(t)
    BY <2>2 DEF mutex_unlock
  <2> QED
    BY <1>7, <2>1, <2>2 DEF wunlock
<1>8. ASSUME UNCHANGED vars PROVE MutexInv' /\ WriterInv' /\ ReaderInv' /\ PosixInv'
  BY <1>8 DEF vars
<1> QED
  BY <1>1, <1>2, <1>3, <1>4, <1>5, <1>6, <1>7, <1>8 DEF Next

\* Places and POSIX agree at the start.
LEMMA LocksHeldInit == Init => LockInv
BY LocksAssumption DEF Init, LockInv, TypeOK, Place, MutexInv, WriterInv, ReaderInv, PosixInv, Owners

\* Two threads are never both where cglock (miner.h) says that one excludes the other: a writer is
\* alone, also while it gives up its lock for one to read, and so is a thread that may be promoted.
THEOREM LockExcludesHolds == Spec => []LockExcludes
<1>1. Init => LockInv
  BY LocksHeldInit
<1>2. LockInv /\ [Next]_vars => LockInv'
  BY LockTypeStep, LocksHeldStep DEF LockInv
<1>3. LockInv => LockExcludes
  <2> SUFFICES ASSUME LockInv PROVE LockExcludes
    OBVIOUS
  <2> USE LocksAssumption DEF LockInv
  <2>1. ASSUME NEW t \in Thread, at[t] = "write", NEW u \in Thread \ {t}
        PROVE at[u] \notin {"read", "rlocked", "dlocked", "write"}
    <3>1. writer = t /\ readers = {}
      BY <2>1 DEF WriterInv, PosixInv
    <3>2. at[u] # "write"
      BY <3>1 DEF WriterInv
    <3>3. at[u] \notin {"read", "rlocked", "dlocked"}
      BY <3>1 DEF ReaderInv
    <3> QED
      BY <3>2, <3>3
  <2>2. ASSUME NEW t \in Thread, NEW u \in Thread, t # u,
               at[t] \in {"inter", "ulock", "write", "dwlock", "dlocked"},
               at[u] \in {"inter", "ulock", "write", "dwlock", "dlocked"}
        PROVE FALSE
    BY <2>2 DEF MutexInv, Owners
  <2> QED
    BY <2>1, <2>2 DEF LockExcludes
<1> QED
  BY <1>1, <1>2, <1>3, PTL DEF Spec

(***************************************************************************)
(* ApiData: strings                                                        *)
(***************************************************************************)
\* The string of print_data: the bytes used fit those allocated, and nothing was
\* written past them.
TextFits(st) == \E used \in Nat, allocated \in Nat : used <= allocated /\ st = <<used, allocated, FALSE>>

LEMMA DataAssumed ==
  /\ SBEXTEND \in Nat \ {0} /\ SOCKBUFALLOCSIZ \in Nat \ {0} /\ MARKS \in Nat \ {0}
  /\ MARKS < SOCKBUFALLOCSIZ /\ Nil \notin Node
  /\ Value \subseteq Seq({"sep", "quote", "slash", "plain"}) /\ Number \subseteq Seq({"plain"})
BY MCCgminerAssumption DEF D!ApiDataAssumption

\* add_item_buf keeps it so.
LEMMA AddItemFits ==
  ASSUME NEW st, TextFits(st), NEW len \in Nat
  PROVE  TextFits(D!add_item_buf(st, len))
<1>1. PICK a \in Nat, b \in Nat : a <= b /\ st = <<a, b, FALSE>>
  BY DEF TextFits
<1>2. (len + 1) % SBEXTEND \in 0 .. SBEXTEND - 1 /\ SBEXTEND \in Nat
  BY DataAssumed
<1>3. PICK rest \in Nat : rest = (len + 1) % SBEXTEND /\ rest < SBEXTEND
  BY <1>2
<1>4. PICK grown \in Nat : /\ grown = IF b < a + len + 1 THEN b + (len + 1) + SBEXTEND - rest ELSE b
                           /\ grown >= a + len + 1
  BY <1>1, <1>2, <1>3
<1>5. D!add_item_buf(st, len) = <<a + len, grown, FALSE \/ grown < a + len + 1>>
  BY <1>1, <1>3, <1>4 DEF D!add_item_buf
<1>6. ~(grown < a + len + 1) /\ a + len \in Nat /\ a + len <= grown
  BY <1>1, <1>4
<1>7. D!add_item_buf(st, len) = <<a + len, grown, FALSE>>
  BY <1>5, <1>6
<1> QED
  BY <1>4, <1>6, <1>7 DEF TextFits

\* The fold of add_item_buf over the first strings of a list, as FoldLeft takes it.
FoldsBy(it, base, strings, s) ==
    IF s = {} THEN base ELSE D!add_item_buf(it[s \ {D!Max(s)}], strings[D!Max(s)])
Folds(it, base, strings, k) == it = [s \in SUBSET (1 .. k) |-> FoldsBy(it, base, strings, s)]

LEMMA FoldIs ==
  ASSUME NEW base, NEW strings, NEW k \in Nat, DOMAIN strings = 1 .. k, \E it : Folds(it, base, strings, k)
  PROVE  \E it : Folds(it, base, strings, k) /\ D!FoldLeft(D!add_item_buf, base, strings) = it[1 .. k]
<1> DEFINE F == CHOOSE it : Folds(it, base, strings, k)
<1>1. D!FoldLeft(D!add_item_buf, base, strings) = F[1 .. k]
  BY DEF D!FoldLeft, D!MapThenFoldSet, Folds, FoldsBy
<1>2. Folds(F, base, strings, k)
  OBVIOUS
<1> QED
  BY <1>1, <1>2

LEMMA GreatestIs ==
  ASSUME NEW k \in Nat, NEW s \in SUBSET (1 .. k + 1), k + 1 \in s
  PROVE  D!Max(s) = k + 1 /\ s \ {k + 1} \in SUBSET (1 .. k)
<1>1. \A y \in s : k + 1 >= y
  OBVIOUS
<1>2. \A m \in s : (\A y \in s : m >= y) => m = k + 1
  OBVIOUS
<1>3. D!Max(s) = k + 1
  BY <1>1, <1>2 DEF D!Max
<1> QED
  BY <1>3

\* The recursion of the fold is well founded.
LEMMA FoldExists ==
  ASSUME NEW base, NEW strings
  PROVE  \A k \in Nat : \E it : Folds(it, base, strings, k)
<1> DEFINE X == {k \in Nat : ~ \E it : Folds(it, base, strings, k)}
<1> SUFFICES ASSUME X # {} PROVE FALSE
  OBVIOUS
<1>1. PICK m \in X : \A n \in X : m <= n
  BY Least
<1>2. CASE m = 0
  <2> DEFINE it == [s \in SUBSET (1 .. 0) |-> base]
  <2>1. \A s \in SUBSET (1 .. 0) : it[s] = base /\ FoldsBy(it, base, strings, s) = base
    BY DEF FoldsBy
  <2>2. it = [s \in SUBSET (1 .. 0) |-> FoldsBy(it, base, strings, s)]
    BY <2>1
  <2> QED
    BY <1>1, <1>2, <2>2 DEF Folds
<1>3. CASE m # 0
  <2>1. PICK k \in Nat : m = k + 1 /\ ~(m <= k)
    <3>1. m - 1 \in Nat /\ m = (m - 1) + 1 /\ ~(m <= m - 1)
      BY <1>3
    <3> QED
      BY <3>1
  <2>2. PICK it : Folds(it, base, strings, k)
    BY <1>1, <2>1
  <2>3. \A s \in SUBSET (1 .. k) : it[s] = FoldsBy(it, base, strings, s)
    BY <2>2 DEF Folds
  <2> DEFINE Longer(s) == IF k + 1 \in s THEN D!add_item_buf(it[s \ {k + 1}], strings[k + 1]) ELSE it[s]
             g == [s \in SUBSET (1 .. k + 1) |-> Longer(s)]
  <2>4. \A s \in SUBSET (1 .. k) : s \in SUBSET (1 .. k + 1) /\ k + 1 \notin s
    OBVIOUS
  <2>5. \A s \in SUBSET (1 .. k) : g[s] = it[s]
    BY <2>4
  <2>6. ASSUME NEW s \in SUBSET (1 .. k + 1) PROVE g[s] = FoldsBy(g, base, strings, s)
    <3>1. CASE k + 1 \in s
      <4>1. D!Max(s) = k + 1 /\ s \ {k + 1} \in SUBSET (1 .. k)
        BY <3>1, GreatestIs
      <4>2. g[s] = D!add_item_buf(it[s \ {k + 1}], strings[k + 1])
        BY <3>1
      <4>3. g[s \ {k + 1}] = it[s \ {k + 1}] /\ s # {}
        BY <2>5, <3>1, <4>1
      <4> HIDE DEF g
      <4> QED
        BY <4>1, <4>2, <4>3 DEF FoldsBy
    <3>2. CASE k + 1 \notin s
      <4>1. s \in SUBSET (1 .. k) /\ s \ {D!Max(s)} \in SUBSET (1 .. k)
        <5>1. \A y \in 1 .. k + 1 : y = k + 1 \/ y \in 1 .. k
          OBVIOUS
        <5>2. \A y \in s : y \in 1 .. k
          BY <3>2, <5>1
        <5> QED
          BY <5>2
      <4>2. g[s] = it[s] /\ g[s \ {D!Max(s)}] = it[s \ {D!Max(s)}]
        BY <2>5, <4>1
      <4>3. it[s] = FoldsBy(it, base, strings, s)
        BY <2>3, <4>1
      <4> HIDE DEF g
      <4> QED
        BY <4>2, <4>3 DEF FoldsBy
    <3> QED
      BY <3>1, <3>2
  <2>7. g = [s \in SUBSET (1 .. k + 1) |-> FoldsBy(g, base, strings, s)]
    BY <2>6
  <2> HIDE DEF g
  <2>8. Folds(g, base, strings, m)
    BY <2>1, <2>7 DEF Folds
  <2> QED
    BY <1>1, <2>8
<1> QED
  BY <1>2, <1>3

\* So nothing is written past the string by any number of calls.
LEMMA StringsFit ==
  ASSUME NEW base, TextFits(base), NEW strings \in Seq(Nat)
  PROVE  TextFits(D!FoldLeft(D!add_item_buf, base, strings))
<1>1. PICK k \in Nat : DOMAIN strings = 1 .. k /\ \A j \in 1 .. k : strings[j] \in Nat
  OBVIOUS
<1>2. PICK it : Folds(it, base, strings, k) /\ D!FoldLeft(D!add_item_buf, base, strings) = it[1 .. k]
  BY <1>1, FoldExists, FoldIs
<1>3. \A s \in SUBSET (1 .. k) : it[s] = FoldsBy(it, base, strings, s)
  BY <1>2 DEF Folds
<1> DEFINE X == {m \in Nat : m <= k /\ \E s \in SUBSET (1 .. m) : ~TextFits(it[s])}
<1>4. ASSUME X # {} PROVE FALSE
  <2>1. PICK m \in X : \A j \in X : m <= j
    BY <1>4, Least
  <2>2. PICK s \in SUBSET (1 .. m) : ~TextFits(it[s])
    BY <2>1
  <2>3. s \in SUBSET (1 .. k) /\ it[s] = FoldsBy(it, base, strings, s)
    BY <1>3, <2>1, <2>2
  <2>4. s # {}
    BY <2>2, <2>3 DEF FoldsBy
  <2>5. PICK j \in Nat : m = j + 1 /\ ~(m <= j) /\ j <= k /\ m \in 1 .. k
    <3>1. m # 0
      <4>1. 1 .. 0 = {}
        OBVIOUS
      <4> QED
        BY <2>2, <2>4, <4>1
    <3>2. m - 1 \in Nat /\ m = (m - 1) + 1 /\ ~(m <= m - 1) /\ m - 1 <= k /\ m \in 1 .. k
      BY <2>1, <3>1
    <3> QED
      BY <3>2
  <2>6. \A r \in SUBSET (1 .. j) : TextFits(it[r])
    BY <2>1, <2>5
  <2>7. j + 1 \in s
    <3>1. j + 1 \notin s => s \in SUBSET (1 .. j)
      BY <2>2, <2>5
    <3> QED
      BY <2>2, <2>6, <3>1
  <2>8. D!Max(s) = j + 1 /\ s \ {j + 1} \in SUBSET (1 .. j)
    BY <2>2, <2>5, <2>7, GreatestIs
  <2>9. it[s] = D!add_item_buf(it[s \ {j + 1}], strings[j + 1])
    BY <2>3, <2>4, <2>8 DEF FoldsBy
  <2>10. strings[j + 1] \in Nat
    BY <1>1, <2>5
  <2> QED
    BY <2>2, <2>6, <2>8, <2>9, <2>10, AddItemFits
<1>5. 1 .. k \in SUBSET (1 .. k) /\ k \in Nat /\ k <= k
  OBVIOUS
<1>6. TextFits(it[1 .. k])
  BY <1>4, <1>5
<1> QED
  BY <1>2, <1>6

Char == {"sep", "quote", "slash", "plain"}

\* The pieces that escape_string writes, and how many characters they have that it counts.
Piece(c) == IF D!Special(c) THEN <<"slash", c>> ELSE <<c>>
Specials(v, k) == {j \in 1 .. k : D!Special(v[j])}

LEMMA TwoSums ==
  ASSUME NEW a \in Nat, NEW b \in Nat, NEW c \in Nat
  PROVE  (c + 1) + (a + b - 1) = c + a + b
OBVIOUS

\* What it has written after k characters is as long as it has counted.
LEMMA PiecesLength ==
  ASSUME NEW v \in Seq(Char), NEW k \in Nat, k = Len(v), NEW g,
         \A j \in 1 .. k : g[j] = IF j = 1 THEN Piece(v[j]) ELSE g[j - 1] \o Piece(v[j])
  PROVE  \A j \in 1 .. k : g[j] \in Seq(Char) /\ Len(g[j]) = j + Cardinality(Specials(v, j))
<1>0. \A j \in 1 .. k : g[j] = IF j = 1 THEN Piece(v[j]) ELSE g[j - 1] \o Piece(v[j])
  OBVIOUS
<1> DEFINE Good(j) == g[j] \in Seq(Char) /\ Len(g[j]) = j + Cardinality(Specials(v, j))
<1> SUFFICES \A j \in 1 .. k : Good(j)
  OBVIOUS
<1> DEFINE X == {j \in Nat : j \in 1 .. k /\ ~Good(j)}
<1> SUFFICES ASSUME X # {} PROVE FALSE
  <2> HIDE DEF Good
  <2> QED
    OBVIOUS
<1>1. PICK m \in X : \A j \in X : m <= j
  BY Least
<1>2. m \in 1 .. k /\ v[m] \in Char
  BY <1>1
<1>3. /\ Piece(v[m]) \in Seq(Char)
      /\ Len(Piece(v[m])) = IF D!Special(v[m]) THEN 2 ELSE 1
  <2>1. <<"slash", v[m]>> \in Seq(Char) /\ <<v[m]>> \in Seq(Char) /\ Len(<<"slash", v[m]>>) = 2 /\ Len(<<v[m]>>) = 1
    BY <1>2 DEF Char
  <2> QED
    BY <2>1 DEF Piece
<1>4. PICK old \in Nat : /\ m = old + 1
                         /\ Specials(v, m) = Specials(v, old) \cup (IF D!Special(v[m]) THEN {m} ELSE {})
                         /\ m \notin Specials(v, old)
  <2>1. PICK old \in Nat : m = old + 1 /\ old = m - 1
    BY <1>2
  <2>2. \A j \in 1 .. m : j = m \/ j \in 1 .. old
    BY <2>1
  <2>3. \A j \in 1 .. old : j \in 1 .. m /\ j # m
    BY <2>1
  <2> QED
    BY <1>2, <2>1, <2>2, <2>3 DEF Specials
<1>5. IsFiniteSet(Specials(v, old)) /\ Cardinality(Specials(v, old)) \in Nat
  <2>1. IsFiniteSet(1 .. old)
    BY FS_Interval
  <2>2. Specials(v, old) \subseteq 1 .. old
    BY DEF Specials
  <2>3. IsFiniteSet(Specials(v, old))
    BY <2>1, <2>2, FS_Subset
  <2> QED
    BY <2>3, FS_CardinalityType
<1>6. Cardinality(Specials(v, m)) = Cardinality(Specials(v, old)) + (IF D!Special(v[m]) THEN 1 ELSE 0)
  <2>1. CASE D!Special(v[m])
    <3>1. Cardinality(Specials(v, old) \cup {m}) = Cardinality(Specials(v, old)) + 1
      BY <1>4, <1>5, FS_AddElement
    <3> QED
      BY <1>4, <2>1, <3>1
  <2>2. CASE ~D!Special(v[m])
    <3>1. Specials(v, m) = Specials(v, old)
      BY <1>4, <2>2
    <3> QED
      BY <1>5, <2>2, <3>1
  <2> QED
    BY <2>1, <2>2
<1>7. g[m] = IF m = 1 THEN Piece(v[m]) ELSE g[old] \o Piece(v[m])
  <2>1. \A j \in 1 .. k : g[j] = IF j = 1 THEN Piece(v[j]) ELSE g[j - 1] \o Piece(v[j])
    BY <1>0
  <2>2. m - 1 = old
    BY <1>4
  <2> QED
    BY <1>2, <2>1, <2>2
<1>8. CASE m = 1
  <2>1. Specials(v, old) = {}
    BY <1>4, <1>8 DEF Specials
  <2>2. Cardinality(Specials(v, old)) = 0
    BY <2>1, FS_EmptySet
  <2>3. Good(m)
    BY <1>3, <1>6, <1>7, <1>8, <2>2
  <2> QED
    BY <1>1, <2>3
<1>9. CASE m # 1
  <2>1. old \in 1 .. k /\ ~(m <= old)
    BY <1>2, <1>4, <1>9
  <2>2. Good(old)
    BY <1>1, <2>1
  <2>3. g[old] \o Piece(v[m]) \in Seq(Char)
        /\ Len(g[old] \o Piece(v[m])) = Len(g[old]) + Len(Piece(v[m]))
    BY <1>3, <2>2, ConcatProperties
  <2>4. g[m] \in Seq(Char) /\ Len(g[m]) = Len(g[old]) + Len(Piece(v[m]))
    BY <1>7, <1>9, <2>3
  <2>5. Len(g[m]) = m + Cardinality(Specials(v, m))
    <3>0. Len(Piece(v[m])) \in Nat /\ Cardinality(Specials(v, old)) \in Nat
      BY <1>3, <1>5
    <3>1. PICK a \in Nat, b \in Nat : a = Cardinality(Specials(v, old)) /\ b = Len(Piece(v[m]))
      BY <3>0
    <3>2. Len(g[old]) = old + a
      BY <2>2, <3>1
    <3>3. Cardinality(Specials(v, m)) = a + b - 1
      BY <1>3, <1>6, <3>1
    <3>4. Len(g[m]) = old + a + b /\ m = old + 1
      BY <1>4, <2>4, <3>1, <3>2
    <3>5. (old + 1) + (a + b - 1) = old + a + b
      BY TwoSums
    <3>6. m + Cardinality(Specials(v, m)) = (old + 1) + (a + b - 1)
      BY ONLY <3>3, <3>4
    <3> QED
      BY ONLY <3>4, <3>5, <3>6
  <2> QED
    BY <1>1, <2>4, <2>5
<1> QED
  BY <1>8, <1>9

\* The recursion of FlattenSeq has a solution.
LEMMA PiecesExist ==
  ASSUME NEW P
  PROVE  \A k \in Nat : \E g : g = [j \in 1 .. k |-> IF j = 1 THEN P[j] ELSE g[j - 1] \o P[j]]
<1> DEFINE By(g, j) == IF j = 1 THEN P[j] ELSE g[j - 1] \o P[j]
           X == {k \in Nat : ~ \E g : g = [j \in 1 .. k |-> By(g, j)]}
<1> SUFFICES ASSUME X # {} PROVE FALSE
  OBVIOUS
<1>1. PICK m \in X : \A j \in X : m <= j
  BY Least
<1>2. CASE m = 0
  <2> DEFINE g == [j \in 1 .. 0 |-> <<>>]
  <2>1. g = [j \in 1 .. 0 |-> By(g, j)]
    OBVIOUS
  <2> QED
    BY <1>1, <1>2, <2>1
<1>3. CASE m # 0
  <2>1. m - 1 \in Nat /\ ~(m <= m - 1) /\ m \in 1 .. m
    BY <1>3
  <2>2. PICK g : g = [j \in 1 .. m - 1 |-> By(g, j)]
    BY <1>1, <2>1
  <2> DEFINE f == [j \in 1 .. m |-> IF j = m THEN By(g, m) ELSE g[j]]
  <2>3. \A j \in 1 .. m - 1 : g[j] = By(g, j)
    BY <2>2
  <2>4. \A j \in 1 .. m : f[j] = IF j = m THEN By(g, m) ELSE g[j]
    OBVIOUS
  <2> HIDE DEF f
  <2>5. ASSUME NEW j \in 1 .. m PROVE f[j] = By(f, j)
    <3>1. j # 1 => j - 1 \in 1 .. m /\ j - 1 # m /\ f[j - 1] = g[j - 1]
      BY <2>4
    <3>2. By(f, j) = By(g, j)
      BY <3>1
    <3>3. j # m => j \in 1 .. m - 1
      BY <2>1
    <3> HIDE DEF By
    <3> QED
      BY <2>3, <2>4, <3>2, <3>3
  <2>6. f = [j \in 1 .. m |-> By(f, j)]
    BY <2>5 DEF f
  <2> QED
    BY <1>1, <2>6
<1> QED
  BY <1>2, <1>3

\* escape_string allocates what it writes.
LEMMA EscapedFits ==
  ASSUME NEW v \in Seq(Char)
  PROVE  Len(D!Escaped(v)) \in Nat /\ Len(D!Escaped(v)) + 1 <= D!EscapeRoom(v)
<1>1. PICK k \in Nat : k = Len(v) /\ DOMAIN v = 1 .. k
  OBVIOUS
<1>2. PICK P : P = [j \in DOMAIN v |-> Piece(v[j])]
  OBVIOUS
<1>3. D!Escaped(v) = D!FlattenSeq(P)
  BY <1>2 DEF D!Escaped, Piece
<1>4. D!EscapeRoom(v) = k + Cardinality(Specials(v, k)) + 1
  <2>1. D!EscapeRoom(v) = Len(v) + Cardinality({j \in DOMAIN v : D!Special(v[j])}) + 1
    <3>1. \A nodes : D!Cardinality(nodes) = Cardinality(nodes)
      BY DEF D!Cardinality, Cardinality
    <3>2. D!EscapeRoom(v) = Len(v) + D!Cardinality({j \in DOMAIN v : D!Special(v[j])}) + 1
      BY DEF D!EscapeRoom, D!Quantify
    <3> QED
      BY <3>1, <3>2
  <2>2. {j \in DOMAIN v : D!Special(v[j])} = Specials(v, k)
    BY <1>1 DEF Specials
  <2> QED
    BY <1>1, <2>1, <2>2
<1>5. IsFiniteSet(Specials(v, k)) /\ Cardinality(Specials(v, k)) \in Nat
  <2>1. IsFiniteSet(1 .. k)
    BY FS_Interval
  <2>2. Specials(v, k) \subseteq 1 .. k
    BY DEF Specials
  <2>3. IsFiniteSet(Specials(v, k))
    BY <2>1, <2>2, FS_Subset
  <2> QED
    BY <2>3, FS_CardinalityType
<1>6. Len(P) = k
  BY <1>1, <1>2
<1>7. CASE k = 0
  <2>1. D!FlattenSeq(P) = P
    BY <1>6, <1>7 DEF D!FlattenSeq
  <2> QED
    BY <1>3, <1>4, <1>5, <1>6, <1>7, <2>1
<1>8. CASE k # 0
  <2> DEFINE Flat(g) == g = [j \in 1 .. k |-> IF j = 1 THEN P[j] ELSE g[j - 1] \o P[j]]
             F == CHOOSE g : Flat(g)
  <2>1. D!FlattenSeq(P) = F[k]
    BY <1>6, <1>8 DEF D!FlattenSeq
  <2>2. Flat(F)
    <3>1. \E g : Flat(g)
      BY PiecesExist
    <3> HIDE DEF Flat
    <3> QED
      BY <3>1
  <2> HIDE DEF F
  <2>3. \A j \in 1 .. k : F[j] = IF j = 1 THEN Piece(v[j]) ELSE F[j - 1] \o Piece(v[j])
    <3>1. \A j \in 1 .. k : P[j] = Piece(v[j])
      BY <1>1, <1>2
    <3>2. \A j \in 1 .. k : F[j] = IF j = 1 THEN P[j] ELSE F[j - 1] \o P[j]
      BY <2>2
    <3> QED
      BY <3>1, <3>2
  <2>4. k \in 1 .. k /\ \A j \in 1 .. k : F[j] \in Seq(Char) /\ Len(F[j]) = j + Cardinality(Specials(v, j))
    <3>1. k \in Nat /\ k = Len(v) /\ v \in Seq(Char) /\ k \in 1 .. k
      BY <1>1, <1>8
    <3> QED
      BY ONLY <2>3, <3>1, PiecesLength
  <2>5. Len(F[k]) = k + Cardinality(Specials(v, k))
    BY <2>4
  <2> QED
    BY <1>3, <1>4, <1>5, <2>1, <2>5
<1> QED
  BY <1>7, <1>8

(***************************************************************************)
(* ApiData: lists                                                          *)
(***************************************************************************)
\* A circular list as the sequence of its nodes: linked both ways, each node once, with these values.
After(r, i) == IF i = Len(r) THEN 1 ELSE i + 1
Closed(r, nx, pv) == \A i \in 1 .. Len(r) : nx[r[i]] = r[After(r, i)] /\ pv[r[After(r, i)]] = r[i]
Once(r) == \A i, j \in 1 .. Len(r) : r[i] = r[j] => i = j
Holds(r, val, values) == Len(r) = Len(values) /\ \A i \in 1 .. Len(r) : val[r[i]] = values[i]
HeadOf(r) == IF r = <<>> THEN Nil ELSE r[1]
NodesOf(r) == {r[i] : i \in 1 .. Len(r)}

\* api_add_data_full puts a new node between the last one and the first.
LEMMA RingGrows ==
  ASSUME NEW r \in Seq(Node), r # <<>>, Once(r), NEW nx, NEW pv, Closed(r, nx, pv),
         NEW nx2, NEW pv2, NEW new \in Node, new \notin NodesOf(r),
         \A x \in NodesOf(r) : nx2[x] = IF x = pv[r[1]] THEN new ELSE nx[x],
         \A x \in NodesOf(r) : pv2[x] = IF x = r[1] THEN new ELSE pv[x],
         nx2[new] = r[1], pv2[new] = pv[r[1]]
  PROVE  Once(Append(r, new)) /\ Closed(Append(r, new), nx2, pv2)
<1> DEFINE s == Append(r, new)
<1>1. PICK n \in Nat : n = Len(r) /\ n > 0 /\ n \in 1 .. n /\ 1 \in 1 .. n /\ n + 1 > n
  OBVIOUS
<1>2. Len(s) = n + 1 /\ s[n + 1] = new /\ \A i \in 1 .. n : s[i] = r[i]
  BY <1>1
<1>3. \A i \in 1 .. n : r[i] \in NodesOf(r) /\ r[i] # new
  BY <1>1 DEF NodesOf
<1>4. \A i \in 1 .. n + 1 : i = n + 1 \/ i \in 1 .. n
  BY <1>1
<1>5. pv[r[1]] = r[n]
  BY <1>1 DEF Closed, After
<1> HIDE DEF s
<1>6. Once(s)
  BY <1>1, <1>2, <1>3, <1>4 DEF Once
<1>7. ASSUME NEW i \in 1 .. n + 1 PROVE nx2[s[i]] = s[After(s, i)] /\ pv2[s[After(s, i)]] = s[i]
  <2>1. CASE i = n + 1
    BY <1>1, <1>2, <1>3, <1>5, <2>1 DEF After
  <2>2. CASE i = n
    <3>1. After(s, i) = n + 1 /\ s[i] = r[n] /\ i \in 1 .. n
      BY <1>1, <1>2, <2>2 DEF After
    <3> QED
      BY <1>1, <1>2, <1>3, <1>5, <2>2, <3>1
  <2>3. CASE i # n + 1 /\ i # n
    <3>1. i \in 1 .. n /\ i + 1 \in 1 .. n /\ After(r, i) = i + 1 /\ After(s, i) = i + 1 /\ i + 1 # 1
      BY <1>1, <1>2, <2>3 DEF After
    <3>2. nx[r[i]] = r[i + 1] /\ pv[r[i + 1]] = r[i]
      BY <1>1, <3>1 DEF Closed
    <3>3. r[i] # r[n] /\ r[i + 1] # r[1]
      BY <1>1, <2>3, <3>1 DEF Once
    <3>4. nx2[r[i]] = r[i + 1] /\ pv2[r[i + 1]] = r[i]
      BY <1>3, <1>5, <3>1, <3>2, <3>3
    <3> QED
      BY <1>2, <3>1, <3>4
  <2> QED
    BY <2>1, <2>2, <2>3
<1>8. Closed(s, nx2, pv2)
  BY <1>2, <1>7 DEF Closed
<1> QED
  BY <1>6, <1>8 DEF s

\* api_add_extra joins two lists at their ends.
JoinedBy(r, e, nx, pv, nx2, pv2) ==
  /\ \A x \in NodesOf(r) \cup NodesOf(e) :
        nx2[x] = IF x = pv[e[1]] THEN r[1] ELSE IF x = pv[r[1]] THEN e[1] ELSE nx[x]
  /\ \A x \in NodesOf(r) \cup NodesOf(e) :
        pv2[x] = IF x = r[1] THEN pv[e[1]] ELSE IF x = e[1] THEN pv[r[1]] ELSE pv[x]

LEMMA RingsJoin ==
  ASSUME NEW r \in Seq(Node), r # <<>>, Once(r), NEW e \in Seq(Node), e # <<>>, Once(e),
         NodesOf(r) \cap NodesOf(e) = {},
         NEW nx, NEW pv, Closed(r, nx, pv), Closed(e, nx, pv), NEW nx2, NEW pv2,
         JoinedBy(r, e, nx, pv, nx2, pv2)
  PROVE  Once(r \o e) /\ Closed(r \o e, nx2, pv2)
<1> USE DEF JoinedBy
<1> DEFINE s == r \o e
<1>1. PICK n \in Nat : n = Len(r) /\ n > 0 /\ n \in 1 .. n /\ 1 \in 1 .. n
  OBVIOUS
<1>2. PICK m \in Nat : m = Len(e) /\ m > 0 /\ m \in 1 .. m /\ 1 \in 1 .. m
  OBVIOUS
<1>3. Len(s) = n + m /\ (\A i \in 1 .. n : s[i] = r[i]) /\ \A i \in 1 .. m : s[n + i] = e[i]
  BY <1>1, <1>2
<1>4. ASSUME NEW i \in 1 .. n + m PROVE i \in 1 .. n \/ \E j \in 1 .. m : i = n + j
  <2>1. i \notin 1 .. n => i - n \in 1 .. m /\ i = n + (i - n)
    BY <1>1, <1>2
  <2> QED
    BY <2>1
<1>5. (\A i \in 1 .. n : r[i] \in NodesOf(r)) /\ \A j \in 1 .. m : e[j] \in NodesOf(e)
  <2>1. ASSUME NEW i \in 1 .. n PROVE r[i] \in NodesOf(r)
    BY <1>1 DEF NodesOf
  <2>2. ASSUME NEW j \in 1 .. m PROVE e[j] \in NodesOf(e)
    BY <1>2 DEF NodesOf
  <2> QED
    BY <2>1, <2>2
<1>6. \A i \in 1 .. n, j \in 1 .. m : r[i] # e[j]
  BY <1>5
<1>7. pv[r[1]] = r[n] /\ pv[e[1]] = e[m]
  <2>1. pv[r[1]] = r[n]
    BY <1>1 DEF Closed, After
  <2>2. pv[e[1]] = e[m]
    BY <1>2 DEF Closed, After
  <2> QED
    BY <2>1, <2>2
<1> HIDE DEF s
<1>8. Once(s)
  <2> SUFFICES ASSUME NEW i \in 1 .. n + m, NEW j \in 1 .. n + m, s[i] = s[j] PROVE i = j
    BY <1>3 DEF Once
  <2>1. CASE i \in 1 .. n /\ j \in 1 .. n
    BY <1>1, <1>3, <2>1 DEF Once
  <2>2. ASSUME NEW a \in 1 .. m, i = n + a, NEW b \in 1 .. m, j = n + b PROVE i = j
    <3>1. e[a] = e[b]
      BY <1>3, <2>2
    <3> QED
      BY <1>2, <2>2, <3>1 DEF Once
  <2>3. ASSUME NEW a \in 1 .. m, i = n + a, j \in 1 .. n PROVE FALSE
    <3>1. s[i] = e[a] /\ s[j] = r[j]
      BY <1>3, <2>3
    <3>2. r[j] # e[a]
      BY <1>6, <2>3
    <3> QED
      BY <3>1, <3>2
  <2>4. ASSUME NEW b \in 1 .. m, j = n + b, i \in 1 .. n PROVE FALSE
    <3>1. s[j] = e[b] /\ s[i] = r[i]
      BY <1>3, <2>4
    <3>2. r[i] # e[b]
      BY <1>6, <2>4
    <3> QED
      BY <3>1, <3>2
  <2> QED
    BY <1>4, <2>1, <2>2, <2>3, <2>4
<1>9. ASSUME NEW i \in 1 .. n + m PROVE nx2[s[i]] = s[After(s, i)] /\ pv2[s[After(s, i)]] = s[i]
  <2>1. CASE i = n
    <3>1. After(s, i) = n + 1 /\ s[i] = r[n] /\ s[n + 1] = e[1]
      BY <1>1, <1>2, <1>3, <2>1 DEF After
    <3>2. nx2[r[n]] = e[1]
      BY <1>1, <1>2, <1>5, <1>6, <1>7
    <3>3. pv2[e[1]] = r[n]
      BY <1>1, <1>2, <1>5, <1>6, <1>7
    <3> QED
      BY <3>1, <3>2, <3>3
  <2>2. CASE i = n + m
    <3>1. After(s, i) = 1 /\ s[i] = e[m] /\ s[1] = r[1]
      BY <1>1, <1>2, <1>3, <2>2 DEF After
    <3>2. nx2[e[m]] = r[1] /\ pv2[r[1]] = e[m]
      BY <1>1, <1>2, <1>5, <1>6, <1>7
    <3> QED
      BY <3>1, <3>2
  <2>3. CASE i \in 1 .. n /\ i # n
    <3>1. i + 1 \in 1 .. n /\ i + 1 # 1 /\ After(r, i) = i + 1 /\ After(s, i) = i + 1
      BY <1>1, <1>2, <1>3, <2>3 DEF After
    <3>2. nx[r[i]] = r[i + 1] /\ pv[r[i + 1]] = r[i]
      BY <1>1, <2>3, <3>1 DEF Closed
    <3>3. r[i] # r[n] /\ r[i + 1] # r[1] /\ r[i] # e[m] /\ r[i + 1] # e[1]
      BY <1>1, <1>2, <1>6, <2>3, <3>1 DEF Once
    <3>4. nx2[r[i]] = r[i + 1] /\ pv2[r[i + 1]] = r[i]
      BY <1>5, <1>7, <2>3, <3>1, <3>2, <3>3
    <3> QED
      BY <1>3, <2>3, <3>1, <3>4
  <2>4. ASSUME NEW j \in 1 .. m, i = n + j, j # m
        PROVE nx2[s[i]] = s[After(s, i)] /\ pv2[s[After(s, i)]] = s[i]
    <3>1. j + 1 \in 1 .. m /\ j + 1 # 1 /\ After(e, j) = j + 1 /\ After(s, i) = n + (j + 1)
      BY <1>1, <1>2, <1>3, <2>4 DEF After
    <3>2. nx[e[j]] = e[j + 1] /\ pv[e[j + 1]] = e[j]
      BY <1>2, <2>4, <3>1 DEF Closed
    <3>3. e[j] # e[m] /\ e[j + 1] # e[1] /\ e[j] # r[n] /\ e[j + 1] # r[1]
      BY <1>1, <1>2, <1>6, <2>4, <3>1 DEF Once
    <3>4. nx2[e[j]] = e[j + 1] /\ pv2[e[j + 1]] = e[j]
      BY <1>5, <1>7, <2>4, <3>1, <3>2, <3>3
    <3>5. s[i] = e[j] /\ s[After(s, i)] = e[j + 1]
      BY <1>3, <2>4, <3>1
    <3> QED
      BY <3>4, <3>5
  <2> QED
    BY <1>1, <1>2, <1>4, <2>1, <2>2, <2>3, <2>4
<1>10. Closed(s, nx2, pv2)
  BY <1>3, <1>9 DEF Closed
<1> QED
  BY <1>8, <1>10 DEF s

\* print_data takes the first node off.
ShrunkBy(r, nx, pv, nx2, pv2) ==
  /\ \A x \in NodesOf(r) \ {r[1]} : nx2[x] = IF x = pv[r[1]] THEN nx[r[1]] ELSE nx[x]
  /\ \A x \in NodesOf(r) \ {r[1]} : pv2[x] = IF x = nx[r[1]] THEN pv[r[1]] ELSE pv[x]

LEMMA RingShrinks ==
  ASSUME NEW r \in Seq(Node), Len(r) > 1, Once(r), NEW nx, NEW pv, Closed(r, nx, pv), NEW nx2, NEW pv2,
         ShrunkBy(r, nx, pv, nx2, pv2)
  PROVE  Once(Tail(r)) /\ Closed(Tail(r), nx2, pv2)
<1> USE DEF ShrunkBy
<1> DEFINE s == Tail(r)
<1>1. PICK n \in Nat : n = Len(r) /\ n > 1
  OBVIOUS
<1>2. Len(s) = n - 1 /\ \A i \in 1 .. n - 1 : s[i] = r[i + 1]
  BY <1>1
<1>3. \A i \in 1 .. n - 1 : i + 1 \in 1 .. n /\ r[i + 1] \in NodesOf(r) \ {r[1]}
  <2> SUFFICES ASSUME NEW i \in 1 .. n - 1 PROVE i + 1 \in 1 .. n /\ r[i + 1] \in NodesOf(r) \ {r[1]}
    OBVIOUS
  <2>1. i + 1 \in 1 .. n /\ 1 \in 1 .. n /\ i + 1 # 1
    BY <1>1
  <2>2. r[i + 1] # r[1]
    BY <1>1, <2>1 DEF Once
  <2> QED
    BY <1>1, <2>1, <2>2 DEF NodesOf
<1>4. pv[r[1]] = r[n] /\ nx[r[1]] = r[2]
  <2>1. 1 \in 1 .. n /\ n \in 1 .. n /\ After(r, n) = 1 /\ After(r, 1) = 2
    BY <1>1 DEF After
  <2> QED
    BY <1>1, <2>1 DEF Closed
<1> HIDE DEF s
<1>5. Once(s)
  <2> SUFFICES ASSUME NEW i \in 1 .. n - 1, NEW j \in 1 .. n - 1, s[i] = s[j] PROVE i = j
    BY <1>2 DEF Once
  <2>1. r[i + 1] = r[j + 1] /\ i + 1 \in 1 .. n /\ j + 1 \in 1 .. n
    BY <1>2, <1>3
  <2>2. i + 1 = j + 1
    BY <1>1, <2>1 DEF Once
  <2> QED
    BY <2>2
<1>6. ASSUME NEW i \in 1 .. n - 1 PROVE nx2[s[i]] = s[After(s, i)] /\ pv2[s[After(s, i)]] = s[i]
  <2>1. s[i] = r[i + 1] /\ i + 1 \in 1 .. n /\ r[i + 1] \in NodesOf(r) \ {r[1]}
    BY <1>2, <1>3
  <2>2. CASE i = n - 1
    <3>1. After(s, i) = 1 /\ s[1] = r[2] /\ i + 1 = n /\ 1 \in 1 .. n - 1 /\ r[2] \in NodesOf(r) \ {r[1]}
      <4>1. 1 \in 1 .. n - 1 /\ 1 + 1 = 2
        BY <1>1
      <4> QED
        BY <1>1, <1>2, <1>3, <2>2, <4>1 DEF After
    <3>2. nx2[r[n]] = r[2] /\ pv2[r[2]] = r[n]
      BY <1>4, <2>1, <3>1
    <3> QED
      BY <2>1, <3>1, <3>2
  <2>3. CASE i # n - 1
    <3>1. PICK j \in 1 .. n : /\ j = i + 1 /\ j + 1 \in 1 .. n /\ j # n /\ j # 1 /\ j + 1 # 2 /\ 2 \in 1 .. n
                              /\ n \in 1 .. n /\ After(r, j) = j + 1 /\ After(s, i) = j /\ j \in 1 .. n - 1
      <4>1. i + 1 \in 1 .. n /\ (i + 1) + 1 \in 1 .. n /\ i + 1 # n /\ i + 1 # 1 /\ (i + 1) + 1 # 2
            /\ i + 1 \in 1 .. n - 1 /\ n \in 1 .. n /\ 2 \in 1 .. n
        BY <1>1, <2>3
      <4>2. After(r, i + 1) = (i + 1) + 1 /\ After(s, i) = i + 1
        BY <1>1, <1>2, <2>3, <4>1 DEF After
      <4> QED
        BY <4>1, <4>2
    <3>2. nx[r[j]] = r[j + 1] /\ pv[r[j + 1]] = r[j]
      BY <1>1, <3>1 DEF Closed
    <3>3. r[j] # r[n] /\ r[j + 1] # r[2]
      BY <1>1, <3>1 DEF Once
    <3>4. r[j] \in NodesOf(r) \ {r[1]} /\ r[j + 1] \in NodesOf(r) \ {r[1]}
      BY <1>3, <2>1, <3>1
    <3>5. nx2[r[j]] = r[j + 1] /\ pv2[r[j + 1]] = r[j]
      BY <1>4, <3>2, <3>3, <3>4
    <3>6. s[i] = r[j] /\ s[After(s, i)] = r[j + 1]
      BY <1>2, <2>1, <3>1
    <3> QED
      BY <3>5, <3>6
  <2> QED
    BY <2>2, <2>3
<1>7. Closed(s, nx2, pv2)
  BY <1>2, <1>6 DEF Closed
<1> QED
  BY <1>5, <1>7 DEF s

\* What Follows meets from the head of a ring.
LEMMA RingFollows ==
  ASSUME NEW r \in Seq(Node), Once(r), Closed(r, next, prev), NEW Any, NEW values \in Seq(Any),
         Holds(r, value, values)
  PROVE  D!Follows(HeadOf(r), values)
<1>1. Len(r) \in Nat /\ Len(values) = Len(r)
  BY DEF Holds
<1>2. (r = <<>> => Len(r) = 0) /\ (r # <<>> => Len(r) > 0) /\ (Len(r) = 0 => values = <<>>)
  <2>1. r = <<>> => Len(r) = 0
    OBVIOUS
  <2>2. r # <<>> => Len(r) > 0
    OBVIOUS
  <2>3. Len(values) = 0 => values = <<>>
    OBVIOUS
  <2> QED
    BY <1>1, <2>1, <2>2, <2>3
<1>3. PICK n \in Nat : n = Len(r)
  BY <1>1
<1>4. n = Len(r) /\ Len(values) = n
  BY <1>1, <1>3
<1>5. CASE r = <<>>
  <2>1. values = <<>> /\ HeadOf(r) = Nil
    BY <1>2, <1>5 DEF HeadOf
  <2> QED
    BY <2>1 DEF D!Follows
<1>6. CASE r # <<>>
  <2>1. n > 0 /\ 1 \in 1 .. n /\ n \in 1 .. n
    BY <1>4, <1>6, <1>2
  <2>2. HeadOf(r) = r[1] /\ r[1] # Nil
    BY <1>4, <1>6, <2>1, DataAssumed DEF HeadOf
  <2> DEFINE Walk(w) == w = [k \in 0 .. n |-> IF k = 0 THEN r[1] ELSE next[w[k - 1]]]
             W == CHOOSE w : Walk(w)
             w0 == [k \in 0 .. n |-> IF k = n THEN r[1] ELSE r[k + 1]]
  <2>3. Walk(w0)
    <3>1. \A k \in 0 .. n : w0[k] = IF k = n THEN r[1] ELSE r[k + 1]
      OBVIOUS
    <3>2. w0 = [k \in 0 .. n |-> w0[k]]
      OBVIOUS
    <3> HIDE DEF w0
    <3>3. ASSUME NEW k \in 0 .. n PROVE w0[k] = IF k = 0 THEN r[1] ELSE next[w0[k - 1]]
      <4>1. CASE k = 0
        <5>1. k \in 0 .. n /\ k # n /\ k + 1 = 1
          BY <2>1, <4>1
        <5> QED
          BY <3>1, <4>1, <5>1
      <4>2. CASE k # 0
        <5>1. k \in 1 .. n /\ k - 1 \in 0 .. n /\ k - 1 # n /\ (k - 1) + 1 = k
          BY <4>2
        <5>2. w0[k - 1] = r[k]
          BY <3>1, <5>1
        <5>3. next[r[k]] = r[After(r, k)]
          BY <1>4, <5>1 DEF Closed
        <5>4. w0[k] = r[After(r, k)]
          BY <1>4, <3>1, <5>1 DEF After
        <5> QED
          BY <4>2, <5>2, <5>3, <5>4
      <4> QED
        BY <4>1, <4>2
    <3>4. w0 = [k \in 0 .. n |-> IF k = 0 THEN r[1] ELSE next[w0[k - 1]]]
      BY <3>2, <3>3
    <3> QED
      BY <3>4
  <2>4. Walk(W)
    <3> HIDE DEF Walk, w0
    <3> QED
      BY <2>3
  <2>5. \A k \in 0 .. n : W[k] = IF k = 0 THEN r[1] ELSE next[W[k - 1]]
    <3> HIDE DEF W
    <3> QED
      BY <2>4
  <2> HIDE DEF W
  <2>6. \A k \in 0 .. n : W[k] = IF k = n THEN r[1] ELSE r[k + 1]
    <3> DEFINE X == {k \in Nat : k \in 0 .. n /\ W[k] # IF k = n THEN r[1] ELSE r[k + 1]}
    <3> SUFFICES ASSUME X # {} PROVE FALSE
      OBVIOUS
    <3>1. PICK m \in X : \A k \in X : m <= k
      BY Least
    <3>2. CASE m = 0
      BY <2>1, <2>5, <3>1, <3>2
    <3>3. CASE m # 0
      <4>1. m \in 1 .. n /\ m - 1 \in 0 .. n /\ m - 1 # n /\ (m - 1) + 1 = m /\ ~(m <= m - 1) /\ m - 1 \in Nat
        BY <3>1, <3>3
      <4>2. W[m - 1] = r[m]
        BY <3>1, <4>1
      <4>3. next[r[m]] = r[After(r, m)]
        BY <1>4, <4>1 DEF Closed
      <4>4. W[m] = r[After(r, m)]
        BY <2>5, <3>3, <4>1, <4>2, <4>3
      <4> QED
        BY <1>4, <3>1, <4>1, <4>4 DEF After
    <3> QED
      BY <3>2, <3>3
  <2>7. ASSUME NEW k \in 0 .. n - 1 PROVE value[W[k]] = values[k + 1] /\ prev[W[k + 1]] = W[k]
    <3>1. k + 1 \in 1 .. n /\ k \in 0 .. n /\ k + 1 \in 0 .. n /\ k # n
      OBVIOUS
    <3>2. W[k] = r[k + 1] /\ W[k + 1] = r[After(r, k + 1)]
      BY <1>4, <2>6, <3>1 DEF After
    <3> QED
      BY <1>4, <3>1, <3>2 DEF Closed, Holds
  <2>8. W[n] = HeadOf(r)
    BY <2>1, <2>2, <2>6
  <2>9. D!Follows(HeadOf(r), values)
        <=> n > 0 /\ W[n] = HeadOf(r)
            /\ \A k \in 0 .. n - 1 : value[W[k]] = values[k + 1] /\ prev[W[k + 1]] = W[k]
    BY <1>4, <2>2 DEF D!Follows, W
  <2> QED
    BY <2>1, <2>7, <2>8, <2>9
<1> QED
  BY <1>5, <1>6

\* What a list holds: values of one of three types, whose characters are of four classes.
Items == [type : {"escape", "string", "number"}, text : Seq(Char)]

LEMMA ItemsAre == D!Item \cup {D!NULLSTR} \subseteq Items
<1>1. Value \subseteq Seq(Char)
  BY DataAssumed DEF Char
<1>2. Number \subseteq Seq(Char)
  <2>1. Seq({"plain"}) \subseteq Seq(Char)
    BY DEF Char
  <2> QED
    BY <2>1, DataAssumed
<1>3. D!NULLSTR \in Items
  <2>1. <<"plain">> \in Seq(Char)
    BY DEF Char
  <2> QED
    BY <2>1 DEF D!NULLSTR, Items
<1>4. ASSUME NEW v \in D!Item PROVE v \in Items
  <2>1. CASE \E t \in {"escape", "string"}, w \in Value : v = [type |-> t, text |-> w]
    BY <1>1, <2>1 DEF Items
  <2>2. CASE \E w \in Number : v = [type |-> "number", text |-> w]
    BY <1>2, <2>2 DEF Items
  <2> QED
    BY <2>1, <2>2 DEF D!Item
<1> QED
  BY <1>3, <1>4

\* A pair of a name and a value is printed within what is allocated.
LEMMA PairFits ==
  ASSUME NEW v \in Items, NEW first, NEW base, TextFits(base)
  PROVE  TextFits(D!FoldLeft(D!add_item_buf, base, D!PairOf(v, first)))
<1>1. v.text \in Seq(Char) /\ v.type \in {"escape", "string", "number"}
  BY DEF Items
<1>2. Len(v.text) \in Nat /\ Len(D!Escaped(v.text)) \in Nat
  BY <1>1, EscapedFits
<1>3. PICK a \in Nat, b \in Nat : a = Len(v.text) /\ b = Len(D!Escaped(v.text))
  BY <1>2
<1> DEFINE quotes == IF json THEN <<1>> ELSE <<>>
           comma == IF first THEN <<>> ELSE <<1>>
           rest == CASE v.type = "escape" -> quotes \o <<b>> \o quotes
                     [] v.type = "string" -> quotes \o <<a>> \o quotes
                     [] v.type = "number" -> <<a>>
<1>4. quotes \in Seq(Nat) /\ comma \in Seq(Nat) /\ <<1>> \in Seq(Nat) /\ <<a>> \in Seq(Nat) /\ <<b>> \in Seq(Nat)
  OBVIOUS
<1>5. D!PairOf(v, first) = comma \o quotes \o <<1>> \o quotes \o <<1>> \o rest
  BY <1>3 DEF D!PairOf
<1> HIDE DEF quotes, comma
<1>6. quotes \o <<b>> \o quotes \in Seq(Nat) /\ quotes \o <<a>> \o quotes \in Seq(Nat)
  BY <1>4
<1>7. rest \in Seq(Nat)
  BY <1>1, <1>4, <1>6
<1> HIDE DEF rest
<1>8. comma \o quotes \o <<1>> \o quotes \o <<1>> \o rest \in Seq(Nat)
  <2>1. comma \o quotes \o <<1>> \in Seq(Nat)
    BY <1>4
  <2>2. comma \o quotes \o <<1>> \o quotes \o <<1>> \in Seq(Nat)
    BY <1>4, <2>1
  <2> QED
    BY <1>7, <2>2
<1> QED
  BY <1>5, <1>8, StringsFit

\* io_add makes room also for what send_result may add.
LEMMA IoFits ==
  ASSUME NEW len \in Nat, io \in [dif : Nat, siz : Nat]
  PROVE  /\ D!IoAdded(len) \in [dif : Nat, siz : Nat]
         /\ D!IoAdded(len).dif + 1 + MARKS <= D!IoAdded(len).siz
         /\ 1 + MARKS <= D!IoAdded(len).siz
<1>1. PICK d \in Nat : d = io.dif
  OBVIOUS
<1>2. PICK z \in Nat : z = io.siz
  OBVIOUS
<1>3. PICK unit \in Nat : unit = SOCKBUFALLOCSIZ /\ unit > 0
  BY DataAssumed
<1>4. PICK marks \in Nat : marks = MARKS
  BY DataAssumed
<1>5. PICK need \in Nat : need = len + 1 + d + marks
  OBVIOUS
<1>6. PICK q \in Nat : q = need \div unit
  BY <1>3
<1>7. need < unit * q + unit
  <2>1. need = unit * (need \div unit) + (need % unit) /\ need % unit < unit
    BY <1>3
  <2> QED
    BY <1>3, <1>6, <2>1
<1>8. (2 + q) * unit = unit * q + unit + unit
  OBVIOUS
<1>9. PICK more \in Nat : more = (2 + q) * unit /\ need <= more
  BY <1>3, <1>6, <1>7, <1>8
<1>10. PICK new \in Nat : new = z + 2 * unit
  OBVIOUS
<1> DEFINE grown == IF need <= z THEN z ELSE IF new < need THEN more ELSE new
<1>11. grown \in Nat /\ need <= grown
  BY <1>9
<1>12. D!IoAdded(len) = [dif |-> d + len, siz |-> grown]
  <2>1. len + 1 + io.dif + MARKS = need
    BY <1>1, <1>4, <1>5
  <2>2. io.siz + 2 * SOCKBUFALLOCSIZ = new
    BY <1>2, <1>3, <1>10
  <2>3. (2 + need \div SOCKBUFALLOCSIZ) * SOCKBUFALLOCSIZ = more
    BY <1>3, <1>6, <1>9
  <2> QED
    BY <1>1, <1>2, <2>1, <2>2, <2>3 DEF D!IoAdded
<1> HIDE DEF grown
<1>13. d + len + 1 + marks <= grown /\ 1 + marks <= grown /\ d + len \in Nat
  BY <1>5, <1>11
<1> QED
  BY <1>4, <1>11, <1>12, <1>13

\* A list is as it was when nothing of it was written.
LEMMA ClosedKept ==
  ASSUME NEW r \in Seq(Node), NEW nx, NEW pv, NEW nx2, NEW pv2, Closed(r, nx, pv),
         \A x \in NodesOf(r) : nx2[x] = nx[x] /\ pv2[x] = pv[x]
  PROVE  Closed(r, nx2, pv2)
<1>1. PICK n \in Nat : n = Len(r)
  OBVIOUS
<1>2. ASSUME NEW i \in 1 .. n PROVE After(r, i) \in 1 .. n /\ r[i] \in NodesOf(r) /\ r[After(r, i)] \in NodesOf(r)
  <2>1. After(r, i) \in 1 .. n
    BY <1>1 DEF After
  <2> QED
    BY <1>1, <2>1 DEF NodesOf
<1>3. ASSUME NEW i \in 1 .. n PROVE nx2[r[i]] = r[After(r, i)] /\ pv2[r[After(r, i)]] = r[i]
  <2>1. nx[r[i]] = r[After(r, i)] /\ pv[r[After(r, i)]] = r[i]
    BY <1>1 DEF Closed
  <2> QED
    BY <1>2, <2>1
<1> QED
  BY <1>1, <1>3 DEF Closed

\* The nodes of lists that are put together.
LEMMA NodesOfAppend ==
  ASSUME NEW r \in Seq(Node), NEW new
  PROVE  NodesOf(Append(r, new)) = NodesOf(r) \cup {new}
<1>1. PICK n \in Nat : n = Len(r)
  OBVIOUS
<1>2. Len(Append(r, new)) = n + 1 /\ Append(r, new)[n + 1] = new /\ \A i \in 1 .. n : Append(r, new)[i] = r[i]
  BY <1>1
<1>3. \A i \in 1 .. n + 1 : i = n + 1 \/ i \in 1 .. n
  OBVIOUS
<1>4. (\A i \in 1 .. n : i \in 1 .. n + 1) /\ n + 1 \in 1 .. n + 1
  OBVIOUS
<1> QED
  BY <1>1, <1>2, <1>3, <1>4 DEF NodesOf

LEMMA NodesOfConcat ==
  ASSUME NEW r \in Seq(Node), NEW e \in Seq(Node)
  PROVE  NodesOf(r \o e) = NodesOf(r) \cup NodesOf(e)
<1>1. PICK n \in Nat : n = Len(r)
  OBVIOUS
<1>2. PICK m \in Nat : m = Len(e)
  OBVIOUS
<1>3. Len(r \o e) = n + m /\ (\A i \in 1 .. n : (r \o e)[i] = r[i]) /\ \A i \in 1 .. m : (r \o e)[n + i] = e[i]
  BY <1>1, <1>2
<1>4. ASSUME NEW i \in 1 .. n + m PROVE i \in 1 .. n \/ \E j \in 1 .. m : i = n + j
  <2>1. i \notin 1 .. n => i - n \in 1 .. m /\ i = n + (i - n)
    OBVIOUS
  <2> QED
    BY <2>1
<1>5. (\A i \in 1 .. n : i \in 1 .. n + m) /\ \A j \in 1 .. m : n + j \in 1 .. n + m
  OBVIOUS
<1>6. NodesOf(r \o e) \subseteq NodesOf(r) \cup NodesOf(e)
  BY <1>1, <1>2, <1>3, <1>4 DEF NodesOf
<1>7. NodesOf(r) \subseteq NodesOf(r \o e) /\ NodesOf(e) \subseteq NodesOf(r \o e)
  BY <1>1, <1>2, <1>3, <1>5 DEF NodesOf
<1> QED
  BY <1>6, <1>7

LEMMA NodesOfTail ==
  ASSUME NEW r \in Seq(Node), r # <<>>, Once(r)
  PROVE  NodesOf(Tail(r)) = NodesOf(r) \ {r[1]} /\ r[1] \in NodesOf(r)
<1>1. PICK n \in Nat : n = Len(r) /\ n > 0
  OBVIOUS
<1>2. Len(Tail(r)) = n - 1 /\ \A i \in 1 .. n - 1 : Tail(r)[i] = r[i + 1]
  BY <1>1
<1>3. \A i \in 1 .. n : i = 1 \/ (i - 1 \in 1 .. n - 1 /\ (i - 1) + 1 = i)
  OBVIOUS
<1>4. \A i \in 1 .. n - 1 : i + 1 \in 1 .. n /\ i + 1 # 1 /\ 1 \in 1 .. n
  OBVIOUS
<1>5. \A i \in 1 .. n - 1 : r[i + 1] # r[1]
  BY <1>1, <1>4 DEF Once
<1>6. NodesOf(Tail(r)) \subseteq NodesOf(r) \ {r[1]}
  <2> SUFFICES ASSUME NEW i \in 1 .. n - 1 PROVE Tail(r)[i] \in NodesOf(r) \ {r[1]}
    BY <1>2 DEF NodesOf
  <2>1. Tail(r)[i] = r[i + 1] /\ r[i + 1] # r[1] /\ i + 1 \in 1 .. n
    BY <1>2, <1>4, <1>5
  <2> QED
    BY <1>1, <2>1 DEF NodesOf
<1>7. NodesOf(r) \ {r[1]} \subseteq NodesOf(Tail(r))
  <2> SUFFICES ASSUME NEW i \in 1 .. n, r[i] # r[1] PROVE r[i] \in NodesOf(Tail(r))
    BY <1>1 DEF NodesOf
  <2>1. i # 1
    OBVIOUS
  <2>2. i - 1 \in 1 .. n - 1 /\ Tail(r)[i - 1] = r[i]
    BY <1>2, <1>3, <2>1
  <2> QED
    BY <1>2, <2>2 DEF NodesOf
<1>8. r[1] \in NodesOf(r)
  BY <1>1 DEF NodesOf
<1> QED
  BY <1>6, <1>7, <1>8

\* What api_add_data_full makes of its list, and that it leaves the other alone.
LEMMA LinkedGrows ==
  ASSUME NEW r \in Seq(Node), Once(r), Closed(r, next, prev), NEW e \in Seq(Node), Closed(e, next, prev),
         NodesOf(r) \cap NodesOf(e) = {}, DOMAIN next = NodesOf(r) \cup NodesOf(e), DOMAIN prev = DOMAIN next,
         NEW new \in Node, new \notin DOMAIN next, D!Linked(new, HeadOf(r))
  PROVE  /\ Once(Append(r, new)) /\ Closed(Append(r, new), next', prev') /\ Closed(e, next', prev')
         /\ DOMAIN next' = DOMAIN next \cup {new} /\ DOMAIN prev' = DOMAIN next \cup {new}
<1>1. CASE r = <<>>
  <2>1. HeadOf(r) = Nil
    BY <1>1 DEF HeadOf
  <2>2. /\ prev' = [x \in DOMAIN prev \cup {new} |-> IF x = new THEN new ELSE prev[x]]
        /\ next' = [x \in DOMAIN next \cup {new} |-> IF x = new THEN new ELSE next[x]]
    BY <2>1 DEF D!Linked
  <2>3. Append(r, new) = <<new>> /\ Len(<<new>>) = 1 /\ <<new>>[1] = new
    BY <1>1
  <2>4. \A i \in 1 .. 1 : i = 1
    OBVIOUS
  <2>5. next'[new] = new /\ prev'[new] = new /\ \A x \in DOMAIN next : next'[x] = next[x] /\ prev'[x] = prev[x]
    BY <2>2
  <2>6. Once(<<new>>) /\ Closed(<<new>>, next', prev')
    BY <2>3, <2>4, <2>5 DEF Once, Closed, After
  <2>7. Closed(e, next', prev')
    <3>1. \A x \in NodesOf(e) : next'[x] = next[x] /\ prev'[x] = prev[x]
      BY <2>5
    <3> QED
      BY <3>1, ClosedKept
  <2> QED
    BY <2>2, <2>3, <2>6, <2>7
<1>2. CASE r # <<>>
  <2>1. PICK head \in Node : head = r[1] /\ HeadOf(r) = head /\ head \in NodesOf(r) /\ head # Nil /\ head # new
    <3>1. 1 \in 1 .. Len(r)
      BY <1>2
    <3>2. r[1] \in NodesOf(r) /\ r[1] \in Node
      BY <3>1 DEF NodesOf
    <3> QED
      BY <1>2, <3>2, DataAssumed DEF HeadOf
  <2>2. PICK final \in Node : final = prev[head] /\ final \in NodesOf(r) /\ final # new
    <3>1. Len(r) \in 1 .. Len(r) /\ After(r, Len(r)) = 1
      BY <1>2 DEF After
    <3>2. prev[head] = r[Len(r)]
      BY <2>1, <3>1 DEF Closed
    <3>3. r[Len(r)] \in NodesOf(r) /\ r[Len(r)] \in Node
      BY <3>1 DEF NodesOf
    <3> QED
      BY <3>2, <3>3
  <2> DEFINE p1 == [x \in DOMAIN prev \cup {new} |-> IF x = new THEN prev[head] ELSE prev[x]]
             p2 == [p1 EXCEPT ![head] = new]
             n1 == [x \in DOMAIN next \cup {new} |-> IF x = new THEN head ELSE next[x]]
  <2>3. prev' = p2 /\ next' = [n1 EXCEPT ![p2[new]] = new]
    BY <2>1 DEF D!Linked
  <2>4. p2[new] = final
    BY <2>1, <2>2
  <2>5. \A x \in DOMAIN next \cup {new} :
           prev'[x] = IF x = head THEN new ELSE IF x = new THEN final ELSE prev[x]
    BY <2>1, <2>2, <2>3
  <2>6. DOMAIN prev' = DOMAIN next \cup {new} /\ DOMAIN next' = DOMAIN next \cup {new}
    BY <2>3
  <2>7. \A x \in DOMAIN next \cup {new} :
           next'[x] = IF x = final THEN new ELSE IF x = new THEN head ELSE next[x]
    <3> HIDE DEF p2
    <3> QED
      BY <2>3, <2>4
  <2>8. Once(Append(r, new)) /\ Closed(Append(r, new), next', prev')
    <3>1. \A x \in NodesOf(r) : next'[x] = IF x = prev[r[1]] THEN new ELSE next[x]
      BY <2>1, <2>2, <2>7
    <3>2. \A x \in NodesOf(r) : prev'[x] = IF x = r[1] THEN new ELSE prev[x]
      BY <2>1, <2>5
    <3>3. next'[new] = r[1] /\ prev'[new] = prev[r[1]] /\ new \notin NodesOf(r)
      BY <2>1, <2>2, <2>5, <2>7
    <3> HIDE DEF p1, p2, n1
    <3> QED
      BY <1>2, <3>1, <3>2, <3>3, RingGrows
  <2>9. Closed(e, next', prev')
    <3>1. \A x \in NodesOf(e) : next'[x] = next[x] /\ prev'[x] = prev[x]
      BY <2>1, <2>2, <2>5, <2>7
    <3> QED
      BY <3>1, ClosedKept
  <2> QED
    BY <2>6, <2>8, <2>9
<1> QED
  BY <1>1, <1>2

\* The two lists, as the sequences of their nodes, hold what is still to be printed and what the driver
\* made; no other node is allocated.
Listed(rest, r, e) ==
  /\ rest \in Seq(Items) /\ made["root"] = printed \o rest
  /\ Once(r) /\ Closed(r, next, prev) /\ Holds(r, value, rest) /\ root = HeadOf(r)
  /\ Once(e) /\ Closed(e, next, prev) /\ Holds(e, value, made["extra"]) /\ extra = HeadOf(e)
  /\ NodesOf(r) \cap NodesOf(e) = {}
  /\ DOMAIN next = NodesOf(r) \cup NodesOf(e)

ListInv ==
  /\ DOMAIN prev = DOMAIN next /\ DOMAIN value = DOMAIN next /\ data \subseteq DOMAIN next
  /\ \E rest \in Seq(Items), r \in Seq(Node), e \in Seq(Node) : Listed(rest, r, e)

PrintInv ==
  /\ made \in [D!Lists -> Seq(Items)] /\ printed \in Seq(Items)
  /\ ~printing => printed = <<>>
  /\ printing => extra = Nil

StringInv ==
  /\ TextFits(<<siz, tot, overrun>>)
  /\ io \in [dif : Nat, siz : Nat] /\ io.dif + 1 + MARKS <= io.siz

DataInv == ListInv /\ PrintInv /\ StringInv

LEMMA DataInitInv == D!Init => DataInv
<1> SUFFICES ASSUME D!Init PROVE DataInv
  OBVIOUS
<1> USE DEF D!Init
<1>1. StringInv
  <2>1. PICK marks \in Nat : marks = MARKS
    BY DataAssumed
  <2>2. PICK unit \in Nat : unit = SOCKBUFALLOCSIZ /\ marks < unit
    BY <2>1, DataAssumed
  <2>3. 0 + 1 + marks <= unit
    BY <2>2
  <2>4. TextFits(<<siz, tot, overrun>>)
    <3>1. siz = 0 /\ tot = 0 /\ overrun = FALSE
      OBVIOUS
    <3>2. <<siz, tot, overrun>> = <<0, 0, FALSE>>
      BY ONLY <3>1, Zenon
    <3>3. 0 \in Nat /\ 0 <= 0
      OBVIOUS
    <3> QED
      BY ONLY <3>2, <3>3 DEF TextFits
  <2> QED
    BY <2>1, <2>2, <2>3, <2>4 DEF StringInv
<1>2. PrintInv
  BY DEF PrintInv, D!Lists
<1>3. ListInv
  <2>1. Len(<<>>) = 0 /\ 1 .. 0 = {} /\ DOMAIN <<>> = {}
    OBVIOUS
  <2>2. NodesOf(<<>>) = {} /\ HeadOf(<<>>) = Nil /\ Once(<<>>) /\ Closed(<<>>, next, prev)
        /\ Holds(<<>>, value, <<>>)
    BY <2>1 DEF NodesOf, HeadOf, Once, Closed, Holds
  <2>3. made["root"] = <<>> /\ made["extra"] = <<>> /\ printed \o <<>> = <<>>
    BY DEF D!Lists
  <2>4. Listed(<<>>, <<>>, <<>>)
    BY <2>1, <2>2, <2>3 DEF Listed
  <2>5. <<>> \in Seq(Items) /\ <<>> \in Seq(Node)
    OBVIOUS
  <2> QED
    BY <2>1, <2>4, <2>5 DEF ListInv
<1> QED
  BY <1>1, <1>2, <1>3 DEF DataInv

LEMMA HoldsLonger ==
  ASSUME NEW r \in Seq(Node), NEW Any, NEW values \in Seq(Any), NEW val, Holds(r, val, values), NEW v,
         NEW new \in Node, new \notin NodesOf(r), NEW val2, val2[new] = v, \A x \in NodesOf(r) : val2[x] = val[x]
  PROVE  Holds(Append(r, new), val2, Append(values, v))
<1>1. PICK n \in Nat : n = Len(r)
  OBVIOUS
<1>2. Len(values) = n
  BY <1>1 DEF Holds
<1>3. Len(Append(r, new)) = n + 1 /\ Append(r, new)[n + 1] = new /\ \A i \in 1 .. n : Append(r, new)[i] = r[i]
  BY <1>1
<1>4. /\ Len(Append(values, v)) = n + 1 /\ Append(values, v)[n + 1] = v
      /\ \A i \in 1 .. n : Append(values, v)[i] = values[i]
  BY <1>2
<1>5. \A i \in 1 .. n + 1 : i = n + 1 \/ i \in 1 .. n
  OBVIOUS
<1>6. \A i \in 1 .. n : r[i] \in NodesOf(r) /\ val[r[i]] = values[i]
  BY <1>1 DEF NodesOf, Holds
<1>7. \A i \in 1 .. n + 1 : val2[Append(r, new)[i]] = Append(values, v)[i]
  BY <1>3, <1>4, <1>5, <1>6
<1> QED
  BY <1>3, <1>4, <1>7 DEF Holds

LEMMA HoldsKept ==
  ASSUME NEW r \in Seq(Node), NEW values, NEW val, Holds(r, val, values), NEW val2,
         \A x \in NodesOf(r) : val2[x] = val[x]
  PROVE  Holds(r, val2, values)
<1>1. \A i \in 1 .. Len(r) : r[i] \in NodesOf(r)
  BY DEF NodesOf
<1> QED
  BY <1>1 DEF Holds

LEMMA AddDataInv ==
  ASSUME DataInv, NEW l \in D!Lists, D!AddData(l)
  PROVE  DataInv'
<1>1. PICK v \in D!Item \cup {D!NULLSTR}, copy_data \in BOOLEAN :
        LET n == CHOOSE x \in Node \ DOMAIN next : TRUE
        IN  /\ D!Linked(n, IF l = "root" THEN root ELSE extra)
            /\ value' = [x \in DOMAIN value \cup {n} |-> IF x = n THEN v ELSE value[x]]
            /\ data' = IF copy_data /\ v # D!NULLSTR THEN data \cup {n} ELSE data
            /\ root' = IF l = "root" /\ root = Nil THEN n ELSE root
            /\ extra' = IF l = "extra" /\ extra = Nil THEN n ELSE extra
            /\ made' = [made EXCEPT ![l] = Append(@, v)]
  BY DEF D!AddData
<1>2. /\ ~printing /\ Node # DOMAIN next
      /\ UNCHANGED <<json, printing, siz, tot, io, overrun, printed, prints>>
  BY DEF D!AddData, D!textVars
<1>3. v \in Items
  BY ItemsAre
<1>4. PICK rest \in Seq(Items), r \in Seq(Node), e \in Seq(Node) : Listed(rest, r, e)
  BY DEF DataInv, ListInv
<1>5. DOMAIN next = NodesOf(r) \cup NodesOf(e) /\ DOMAIN prev = DOMAIN next /\ DOMAIN value = DOMAIN next
  BY <1>4 DEF DataInv, ListInv, Listed
<1> DEFINE n == CHOOSE x \in Node \ DOMAIN next : TRUE
<1>6. PICK new \in Node : new = n /\ new \notin DOMAIN next
  <2>1. DOMAIN next \subseteq Node
    BY <1>5 DEF NodesOf
  <2> QED
    BY <1>2, <2>1
<1>7. /\ D!Linked(new, IF l = "root" THEN root ELSE extra)
      /\ value' = [x \in DOMAIN value \cup {new} |-> IF x = new THEN v ELSE value[x]]
      /\ data' \subseteq data \cup {new}
      /\ root' = IF l = "root" /\ root = Nil THEN new ELSE root
      /\ extra' = IF l = "extra" /\ extra = Nil THEN new ELSE extra
      /\ made' = [made EXCEPT ![l] = Append(@, v)]
  BY <1>1, <1>6
<1> HIDE DEF n
<1>8. printed = <<>> /\ made["root"] = rest /\ made["extra"] \in Seq(Items)
  BY <1>2, <1>4 DEF DataInv, PrintInv, Listed, D!Lists
<1>9. StringInv'
  BY <1>2 DEF DataInv, StringInv
<1>10. PrintInv'
  <2>1. Append(made[l], v) \in Seq(Items)
    BY <1>3 DEF DataInv, PrintInv
  <2>2. made' \in [D!Lists -> Seq(Items)]
    BY <1>7, <2>1 DEF DataInv, PrintInv
  <2> QED
    BY <1>2, <2>2 DEF DataInv, PrintInv
<1>11. /\ value'[new] = v
       /\ \A x \in NodesOf(r) \cup NodesOf(e) : value'[x] = value[x]
       /\ DOMAIN value' = DOMAIN next \cup {new}
       /\ new \notin NodesOf(r) /\ new \notin NodesOf(e)
  BY <1>5, <1>6, <1>7
<1>12. CASE l = "root"
  <2>1. /\ Once(Append(r, new)) /\ Closed(Append(r, new), next', prev') /\ Closed(e, next', prev')
        /\ DOMAIN next' = DOMAIN next \cup {new} /\ DOMAIN prev' = DOMAIN next \cup {new}
    BY <1>4, <1>5, <1>6, <1>7, <1>12, LinkedGrows DEF Listed
  <2>2. Holds(Append(r, new), value', Append(rest, v))
    BY <1>4, <1>11, HoldsLonger DEF Listed
  <2>3. Holds(e, value', made["extra"])
    BY <1>4, <1>11, HoldsKept DEF Listed
  <2>4. made'["root"] = Append(rest, v) /\ made'["extra"] = made["extra"]
    BY <1>7, <1>8, <1>12 DEF DataInv, PrintInv, D!Lists
  <2>5. NodesOf(Append(r, new)) = NodesOf(r) \cup {new}
    BY NodesOfAppend
  <2>6. root' = HeadOf(Append(r, new)) /\ extra' = HeadOf(e)
    <3>1. root = HeadOf(r) /\ extra = HeadOf(e)
      BY <1>4 DEF Listed
    <3>2. CASE r = <<>>
      <4>1. Append(r, new) = <<new>> /\ root = Nil
        BY <3>1, <3>2 DEF HeadOf
      <4> QED
        BY <1>7, <1>12, <3>1, <4>1 DEF HeadOf
    <3>3. CASE r # <<>>
      <4>1. Append(r, new) # <<>> /\ Append(r, new)[1] = r[1] /\ r[1] \in Node
        BY <3>3
      <4>2. root # Nil /\ root = r[1]
        BY <3>1, <3>3, <4>1, DataAssumed DEF HeadOf
      <4> QED
        BY <1>7, <1>12, <3>1, <4>1, <4>2 DEF HeadOf
    <3> QED
      BY <3>2, <3>3
  <2>7. Append(rest, v) \in Seq(Items) /\ Append(r, new) \in Seq(Node)
    BY <1>3
  <2>8. made'["root"] = printed' \o Append(rest, v)
    BY <1>2, <1>8, <2>4, <2>7
  <2>9. NodesOf(Append(r, new)) \cap NodesOf(e) = {}
    BY <1>4, <1>11, <2>5 DEF Listed
  <2>10. DOMAIN next' = NodesOf(Append(r, new)) \cup NodesOf(e)
    BY <1>5, <2>1, <2>5
  <2>11. Once(e)
    BY <1>4 DEF Listed
  <2>12. Listed(Append(rest, v), Append(r, new), e)'
    BY <2>1, <2>2, <2>3, <2>4, <2>6, <2>7, <2>8, <2>9, <2>10, <2>11 DEF Listed
  <2>13. ListInv'
    BY <1>5, <1>7, <1>11, <2>1, <2>7, <2>12 DEF DataInv, ListInv
  <2> QED
    BY <1>9, <1>10, <2>13 DEF DataInv
<1>13. CASE l = "extra"
  <2>1. /\ Once(Append(e, new)) /\ Closed(Append(e, new), next', prev') /\ Closed(r, next', prev')
        /\ DOMAIN next' = DOMAIN next \cup {new} /\ DOMAIN prev' = DOMAIN next \cup {new}
    <3>1. NodesOf(e) \cap NodesOf(r) = {} /\ DOMAIN next = NodesOf(e) \cup NodesOf(r)
      BY <1>4 DEF Listed
    <3> QED
      BY <1>4, <1>5, <1>6, <1>7, <1>13, <3>1, LinkedGrows DEF Listed
  <2>2. Holds(Append(e, new), value', Append(made["extra"], v))
    BY <1>4, <1>8, <1>11, HoldsLonger DEF Listed
  <2>3. Holds(r, value', rest)
    BY <1>4, <1>11, HoldsKept DEF Listed
  <2>4. made'["root"] = rest /\ made'["extra"] = Append(made["extra"], v)
    BY <1>7, <1>8, <1>13 DEF DataInv, PrintInv, D!Lists
  <2>5. NodesOf(Append(e, new)) = NodesOf(e) \cup {new}
    BY NodesOfAppend
  <2>6. extra' = HeadOf(Append(e, new)) /\ root' = HeadOf(r)
    <3>1. root = HeadOf(r) /\ extra = HeadOf(e)
      BY <1>4 DEF Listed
    <3>2. CASE e = <<>>
      <4>1. Append(e, new) = <<new>> /\ extra = Nil
        BY <3>1, <3>2 DEF HeadOf
      <4> QED
        BY <1>7, <1>13, <3>1, <4>1 DEF HeadOf
    <3>3. CASE e # <<>>
      <4>1. Append(e, new) # <<>> /\ Append(e, new)[1] = e[1] /\ e[1] \in Node
        BY <3>3
      <4>2. extra # Nil /\ extra = e[1]
        BY <3>1, <3>3, <4>1, DataAssumed DEF HeadOf
      <4> QED
        BY <1>7, <1>13, <3>1, <4>1, <4>2 DEF HeadOf
    <3> QED
      BY <3>2, <3>3
  <2>7. Append(e, new) \in Seq(Node)
    OBVIOUS
  <2>8. made'["root"] = printed' \o rest
    BY <1>2, <1>8, <2>4
  <2>9. NodesOf(r) \cap NodesOf(Append(e, new)) = {}
    BY <1>4, <1>11, <2>5 DEF Listed
  <2>10. DOMAIN next' = NodesOf(r) \cup NodesOf(Append(e, new))
    BY <1>5, <2>1, <2>5
  <2>11. Once(r)
    BY <1>4 DEF Listed
  <2>12. Listed(rest, r, Append(e, new))'
    BY <2>1, <2>2, <2>3, <2>4, <2>6, <2>7, <2>8, <2>9, <2>10, <2>11 DEF Listed
  <2>13. ListInv'
    BY <1>5, <1>7, <1>11, <2>1, <2>7, <2>12 DEF DataInv, ListInv
  <2> QED
    BY <1>9, <1>10, <2>13 DEF DataInv
<1> QED
  BY <1>12, <1>13 DEF D!Lists

LEMMA HoldsConcat ==
  ASSUME NEW r \in Seq(Node), NEW e \in Seq(Node), NEW Any, NEW vs \in Seq(Any), NEW ws \in Seq(Any), NEW val,
         Holds(r, val, vs), Holds(e, val, ws)
  PROVE  Holds(r \o e, val, vs \o ws)
<1>1. PICK n \in Nat : n = Len(r)
  OBVIOUS
<1>2. PICK m \in Nat : m = Len(e)
  OBVIOUS
<1>3. n = Len(vs) /\ m = Len(ws)
  BY <1>1, <1>2 DEF Holds
<1>4. Len(r \o e) = n + m /\ (\A i \in 1 .. n : (r \o e)[i] = r[i]) /\ \A i \in 1 .. m : (r \o e)[n + i] = e[i]
  BY <1>1, <1>2
<1>5. Len(vs \o ws) = n + m /\ (\A i \in 1 .. n : (vs \o ws)[i] = vs[i]) /\ \A i \in 1 .. m : (vs \o ws)[n + i] = ws[i]
  BY <1>3, ConcatProperties
<1>6. (\A i \in 1 .. n : val[r[i]] = vs[i]) /\ \A i \in 1 .. m : val[e[i]] = ws[i]
  BY <1>1, <1>2 DEF Holds
<1>7. ASSUME NEW i \in 1 .. n + m PROVE val[(r \o e)[i]] = (vs \o ws)[i]
  <2>1. CASE i \in 1 .. n
    BY <1>4, <1>5, <1>6, <2>1
  <2>2. CASE i \notin 1 .. n
    <3>1. PICK j \in 1 .. m : i = n + j
      <4>1. i - n \in 1 .. m /\ i = n + (i - n)
        BY <2>2
      <4> QED
        BY <4>1
    <3> QED
      BY <1>4, <1>5, <1>6, <3>1
  <2> QED
    BY <2>1, <2>2
<1> QED
  BY <1>4, <1>5, <1>7 DEF Holds

LEMMA AddExtraInv ==
  ASSUME DataInv, D!AddExtra
  PROVE  DataInv'
<1>1. PICK rest \in Seq(Items), r \in Seq(Node), e \in Seq(Node) : Listed(rest, r, e)
  BY DEF DataInv, ListInv
<1>2. /\ ~printing /\ extra # Nil /\ extra' = Nil
      /\ made' = [root |-> made["root"] \o made["extra"], extra |-> <<>>]
      /\ UNCHANGED <<json, value, data, printing, siz, tot, io, overrun, printed, prints>>
  BY DEF D!AddExtra, D!textVars
<1>3. /\ printed = <<>> /\ made["root"] = rest /\ made["extra"] \in Seq(Items)
      /\ DOMAIN prev = DOMAIN next /\ DOMAIN value = DOMAIN next /\ data \subseteq DOMAIN next
  BY <1>1, <1>2 DEF DataInv, PrintInv, ListInv, Listed, D!Lists
<1>4. StringInv'
  BY <1>2 DEF DataInv, StringInv
<1>5. PICK both \in Seq(Items) : both = rest \o made["extra"]
  <2>1. rest \o made["extra"] \in Seq(Items)
    BY <1>3, ConcatProperties
  <2> QED
    BY <2>1
<1>6. made' = [root |-> both, extra |-> <<>>] /\ made'["root"] = both /\ made'["extra"] = <<>>
  <2>1. both = made["root"] \o made["extra"]
    BY <1>3, <1>5
  <2>2. made' = [root |-> both, extra |-> <<>>]
    BY <1>2, <2>1, Zenon
  <2> QED
    BY <2>2
<1>7. PrintInv'
  <2>1. DOMAIN made' = D!Lists /\ made' \in [D!Lists -> Seq(Items)]
    <3>1. <<>> \in Seq(Items)
      OBVIOUS
    <3>2. made' = [l \in D!Lists |-> IF l = "root" THEN both ELSE <<>>]
      BY <1>6 DEF D!Lists
    <3> QED
      BY <3>1, <3>2
  <2> QED
    BY <1>2, <2>1 DEF DataInv, PrintInv
<1>8. Len(<<>>) = 0 /\ 1 .. 0 = {}
  OBVIOUS
<1>9. Once(<<>>) /\ Closed(<<>>, next', prev') /\ Holds(<<>>, value', <<>>) /\ HeadOf(<<>>) = Nil /\ NodesOf(<<>>) = {}
  BY <1>8 DEF Once, Closed, Holds, HeadOf, NodesOf
<1>10. Holds(r \o e, value', both)
  BY <1>1, <1>2, <1>3, <1>5, HoldsConcat DEF Listed
<1>11. NodesOf(r \o e) = NodesOf(r) \cup NodesOf(e) /\ r \o e \in Seq(Node)
  BY NodesOfConcat
<1>12. e # <<>> /\ extra = e[1] /\ e[1] \in NodesOf(e) /\ e[1] \in Node
  <2>1. e # <<>> /\ extra = e[1]
    BY <1>1, <1>2 DEF Listed, HeadOf
  <2>2. 1 \in 1 .. Len(e)
    BY <2>1
  <2> QED
    BY <2>1, <2>2 DEF NodesOf
<1>13. Once(r \o e) /\ Closed(r \o e, next', prev') /\ root' = HeadOf(r \o e)
       /\ DOMAIN next' = DOMAIN next /\ DOMAIN prev' = DOMAIN next
  <2>1. CASE r = <<>>
    <3>1. root = Nil /\ r \o e = e
      BY <1>1, <2>1 DEF Listed, HeadOf
    <3>2. root' = extra /\ UNCHANGED <<next, prev>>
      BY <3>1 DEF D!AddExtra
    <3> QED
      BY <1>1, <1>3, <3>1, <3>2 DEF Listed
  <2>2. CASE r # <<>>
    <3>1. root = r[1] /\ r[1] \in NodesOf(r) /\ r[1] \in Node /\ root # Nil
      <4>1. 1 \in 1 .. Len(r)
        BY <2>2
      <4>2. r[1] \in NodesOf(r) /\ r[1] \in Node
        BY <4>1 DEF NodesOf
      <4> QED
        BY <1>1, <2>2, <4>2, DataAssumed DEF Listed, HeadOf
    <3>2. /\ next' = D!Spliced
          /\ prev' = [prev EXCEPT ![extra] = prev[root], ![root] = prev[extra]]
          /\ root' = root
      BY <3>1 DEF D!AddExtra
    <3>3. NodesOf(r) \cap NodesOf(e) = {} /\ DOMAIN next = NodesOf(r) \cup NodesOf(e)
      BY <1>1 DEF Listed
    <3>4. prev[root] \in NodesOf(r) /\ prev[extra] \in NodesOf(e)
      <4>1. Len(r) \in 1 .. Len(r) /\ After(r, Len(r)) = 1
        BY <2>2 DEF After
      <4>2. Len(e) \in 1 .. Len(e) /\ After(e, Len(e)) = 1
        BY <1>12 DEF After
      <4>3. Closed(r, next, prev) /\ Closed(e, next, prev)
        BY <1>1 DEF Listed
      <4>4. prev[r[1]] = r[Len(r)]
        BY <4>1, <4>3 DEF Closed
      <4>5. prev[e[1]] = e[Len(e)]
        BY <4>2, <4>3 DEF Closed
      <4> QED
        BY <1>12, <3>1, <4>1, <4>2, <4>4, <4>5 DEF NodesOf
    <3>5. \A x \in NodesOf(r) \cup NodesOf(e) :
             next'[x] = IF x = prev[e[1]] THEN r[1] ELSE IF x = prev[r[1]] THEN e[1] ELSE next[x]
      BY <1>12, <3>1, <3>2, <3>3, <3>4 DEF D!Spliced
    <3>6. \A x \in NodesOf(r) \cup NodesOf(e) :
             prev'[x] = IF x = r[1] THEN prev[e[1]] ELSE IF x = e[1] THEN prev[r[1]] ELSE prev[x]
      BY <1>3, <1>12, <3>1, <3>2, <3>3, <3>4
    <3>7. DOMAIN next' = DOMAIN next /\ DOMAIN prev' = DOMAIN next
      BY <1>3, <3>2 DEF D!Spliced
    <3>8. Once(r \o e) /\ Closed(r \o e, next', prev')
      <4>1. Once(r) /\ Once(e) /\ Closed(r, next, prev) /\ Closed(e, next, prev)
        BY <1>1 DEF Listed
      <4>2. JoinedBy(r, e, next, prev, next', prev')
        BY <3>5, <3>6 DEF JoinedBy
      <4> QED
        BY <1>12, <2>2, <3>3, <4>1, <4>2, RingsJoin
    <3>9. r \o e # <<>> /\ (r \o e)[1] = r[1]
      BY <2>2
    <3> QED
      BY <3>1, <3>2, <3>7, <3>8, <3>9 DEF HeadOf
  <2> QED
    BY <2>1, <2>2
<1>14. Listed(both, r \o e, <<>>)'
  <2>1. made'["root"] = printed' \o both
    BY <1>2, <1>3, <1>5, <1>6
  <2>2. NodesOf(r \o e) \cap NodesOf(<<>>) = {} /\ DOMAIN next' = NodesOf(r \o e) \cup NodesOf(<<>>)
    BY <1>1, <1>9, <1>11, <1>13 DEF Listed
  <2> QED
    BY <1>2, <1>5, <1>6, <1>9, <1>10, <1>13, <2>1, <2>2 DEF Listed
<1>15. ListInv'
  <2>1. both \in Seq(Items) /\ r \o e \in Seq(Node) /\ <<>> \in Seq(Node)
    BY <1>11
  <2>2. DOMAIN prev' = DOMAIN next' /\ DOMAIN value' = DOMAIN next' /\ data' \subseteq DOMAIN next'
    BY <1>2, <1>3, <1>13
  <2> QED
    BY <1>14, <2>1, <2>2 DEF ListInv
<1> QED
  BY <1>4, <1>7, <1>15 DEF DataInv

LEMMA HoldsTail ==
  ASSUME NEW r \in Seq(Node), r # <<>>, NEW Any, NEW values \in Seq(Any), NEW val, Holds(r, val, values), NEW val2,
         \A x \in NodesOf(Tail(r)) : val2[x] = val[x]
  PROVE  Holds(Tail(r), val2, Tail(values)) /\ values # <<>> /\ val[r[1]] = values[1]
<1>1. PICK n \in Nat : n = Len(r) /\ n > 0
  OBVIOUS
<1>2. n = Len(values)
  BY <1>1 DEF Holds
<1>3. Len(Tail(r)) = n - 1 /\ \A i \in 1 .. n - 1 : Tail(r)[i] = r[i + 1]
  BY <1>1
<1>4. Len(Tail(values)) = n - 1 /\ \A i \in 1 .. n - 1 : Tail(values)[i] = values[i + 1]
  <2>1. values # <<>>
    BY <1>1, <1>2
  <2> QED
    BY <1>2, <2>1
<1>5. ASSUME NEW i \in 1 .. n - 1 PROVE val2[Tail(r)[i]] = Tail(values)[i]
  <2>1. i + 1 \in 1 .. n
    OBVIOUS
  <2>2. val[r[i + 1]] = values[i + 1]
    BY <1>1, <2>1 DEF Holds
  <2>3. Tail(r)[i] \in NodesOf(Tail(r))
    BY <1>3 DEF NodesOf
  <2> QED
    BY <1>3, <1>4, <2>2, <2>3
<1>6. 1 \in 1 .. Len(r)
  BY <1>1
<1>7. values # <<>>
  BY <1>1, <1>2
<1> QED
  BY <1>3, <1>4, <1>5, <1>6, <1>7 DEF Holds

\* The first of what is left, put at the end of what was taken.
LEMMA MoveFirst ==
  ASSUME NEW Any, NEW p \in Seq(Any), NEW q \in Seq(Any), q # <<>>
  PROVE  p \o q = Append(p, q[1]) \o Tail(q) /\ q[1] \in Any /\ Tail(q) \in Seq(Any)
<1>1. PICK n \in Nat : n = Len(p)
  OBVIOUS
<1>2. PICK m \in Nat : m = Len(q) /\ m > 0
  OBVIOUS
<1>3. q[1] \in Any /\ Tail(q) \in Seq(Any) /\ Len(Tail(q)) = m - 1 /\ \A i \in 1 .. m - 1 : Tail(q)[i] = q[i + 1]
  BY <1>2
<1>4. PICK s \in Seq(Any) : s = Append(p, q[1])
  <2>1. Append(p, q[1]) \in Seq(Any)
    BY <1>3, AppendProperties
  <2> QED
    BY <2>1
<1>5. PICK t \in Seq(Any) : t = Tail(q)
  BY <1>3
<1>6. Len(s) = n + 1 /\ s[n + 1] = q[1] /\ \A i \in 1 .. n : s[i] = p[i]
  BY <1>1, <1>3, <1>4
<1>7. Len(p \o q) = n + m /\ p \o q \in Seq(Any)
      /\ \A i \in 1 .. n + m : (p \o q)[i] = IF i <= n THEN p[i] ELSE q[i - n]
  BY <1>1, <1>2, ConcatProperties
<1>8. Len(t) = m - 1 /\ \A i \in 1 .. m - 1 : t[i] = q[i + 1]
  BY <1>3, <1>5
<1>9. Len(s \o t) = n + m /\ s \o t \in Seq(Any)
      /\ \A i \in 1 .. n + m : (s \o t)[i] = IF i <= n + 1 THEN s[i] ELSE t[i - (n + 1)]
  <2>1. PICK k \in Nat : k = n + 1
    OBVIOUS
  <2>2. PICK j \in Nat : j = m - 1
    BY <1>2
  <2>3. k = Len(s) /\ j = Len(t)
    BY <1>6, <1>8, <2>1, <2>2
  <2>4. Len(s \o t) = k + j /\ s \o t \in Seq(Any)
        /\ \A i \in 1 .. k + j : (s \o t)[i] = IF i <= k THEN s[i] ELSE t[i - k]
    BY <2>3, ConcatProperties
  <2>5. k + j = n + m
    BY <1>2, <2>1, <2>2
  <2> QED
    BY <2>1, <2>4, <2>5
<1>10. ASSUME NEW i \in 1 .. n + m PROVE (p \o q)[i] = (s \o t)[i]
  <2>1. CASE i \in 1 .. n
    BY <1>6, <1>7, <1>9, <2>1
  <2>2. CASE i = n + 1
    <3>1. i - n = 1 /\ ~(i <= n) /\ i <= n + 1
      BY <2>2
    <3> QED
      BY <1>6, <1>7, <1>9, <2>2, <3>1
  <2>3. CASE i \notin 1 .. n /\ i # n + 1
    <3>1. i - (n + 1) \in 1 .. m - 1 /\ (i - (n + 1)) + 1 = i - n /\ ~(i <= n) /\ ~(i <= n + 1)
      BY <2>3
    <3>2. t[i - (n + 1)] = q[i - n]
      BY <1>8, <3>1
    <3> QED
      BY <1>7, <1>9, <3>1, <3>2
  <2> QED
    BY <2>1, <2>2, <2>3
<1>11. p \o q = s \o t
  BY <1>7, <1>9, <1>10, SeqEqual
<1> QED
  BY <1>3, <1>4, <1>5, <1>11

\* What is left of a string that fits.
LEMMA WrittenFits ==
  ASSUME NEW st, TextFits(st), siz' = st[1], tot' = st[2], overrun' = st[3]
  PROVE  TextFits(<<siz, tot, overrun>>)'
<1>1. PICK used \in Nat, allocated \in Nat : used <= allocated /\ st = <<used, allocated, FALSE>>
  BY DEF TextFits
<1>2. siz' = used /\ tot' = allocated /\ overrun' = FALSE
  <2>1. st[1] = used /\ st[2] = allocated
    BY <1>1
  <2>2. st[3] = FALSE
    BY <1>1
  <2> QED
    BY <2>1, <2>2, Zenon
<1>3. <<siz', tot', overrun'>> = <<used, allocated, FALSE>>
  BY ONLY <1>2, Zenon
<1> QED
  BY <1>1, <1>3 DEF TextFits

LEMMA PrintNodeInv ==
  ASSUME DataInv, D!PrintNode
  PROVE  DataInv'
<1>1. PICK rest \in Seq(Items), r \in Seq(Node), e \in Seq(Node) : Listed(rest, r, e)
  BY DEF DataInv, ListInv
<1>2. /\ printing /\ root # Nil /\ printed' = Append(printed, value[root]) /\ data' = data \ {root}
      /\ UNCHANGED <<json, extra, printing, io, made, prints>>
  BY DEF D!PrintNode
<1>3. /\ extra = Nil /\ printed \in Seq(Items) /\ made["root"] = printed \o rest /\ made["extra"] \in Seq(Items)
      /\ DOMAIN prev = DOMAIN next /\ DOMAIN value = DOMAIN next /\ data \subseteq DOMAIN next
  BY <1>1, <1>2 DEF DataInv, PrintInv, ListInv, Listed, D!Lists
<1>4. e = <<>>
  <2>1. e # <<>> => e[1] \in Node /\ HeadOf(e) = e[1]
    BY DEF HeadOf
  <2> QED
    BY <1>1, <1>3, <2>1, DataAssumed DEF Listed
<1>5. r # <<>> /\ root = r[1]
  BY <1>1, <1>2 DEF Listed, HeadOf
<1>6. Once(r) /\ Closed(r, next, prev) /\ Holds(r, value, rest) /\ DOMAIN next = NodesOf(r)
  <2>1. NodesOf(<<>>) = {}
    <3>1. Len(<<>>) = 0 /\ 1 .. 0 = {}
      OBVIOUS
    <3> QED
      BY <3>1 DEF NodesOf
  <2> QED
    BY <1>1, <1>4, <2>1 DEF Listed
<1>7. NodesOf(Tail(r)) = DOMAIN next \ {root} /\ root \in DOMAIN next
  BY <1>5, <1>6, NodesOfTail
<1> DEFINE left == DOMAIN next \ {root}
           final == next[root] = root
<1>8. /\ root' = IF final THEN Nil ELSE next[root]
      /\ prev' = [x \in left |-> IF ~final /\ x = next[root] THEN prev[root] ELSE prev[x]]
      /\ next' = [x \in left |-> IF ~final /\ x = prev[root] THEN next[root] ELSE next[x]]
      /\ value' = [x \in left |-> value[x]]
  BY DEF D!PrintNode
<1>9. \A x \in NodesOf(Tail(r)) : value'[x] = value[x]
  BY <1>7, <1>8
<1>10. Holds(Tail(r), value', Tail(rest)) /\ rest # <<>> /\ value[root] = rest[1]
  BY <1>5, <1>6, <1>9, HoldsTail
<1>11. /\ printed \o rest = Append(printed, rest[1]) \o Tail(rest)
       /\ rest[1] \in Items /\ Tail(rest) \in Seq(Items)
  BY <1>3, <1>10, MoveFirst
<1>12. StringInv'
  <2>1. D!Written(D!PairOf(value[root], printed = <<>>))
    BY DEF D!PrintNode
  <2>2. PICK st : /\ st = D!FoldLeft(D!add_item_buf, <<siz, tot, overrun>>, D!PairOf(value[root], printed = <<>>))
                  /\ siz' = st[1] /\ tot' = st[2] /\ overrun' = st[3]
    BY <2>1 DEF D!Written
  <2>3. TextFits(st)
    <3>1. TextFits(<<siz, tot, overrun>>)
      BY DEF DataInv, StringInv
    <3> QED
      BY <1>10, <1>11, <2>2, <3>1, PairFits
  <2>4. TextFits(<<siz, tot, overrun>>)'
    BY <2>2, <2>3, WrittenFits
  <2> QED
    BY <1>2, <2>4 DEF DataInv, StringInv
<1>13. PrintInv'
  BY <1>2, <1>10, <1>11 DEF DataInv, PrintInv
<1>14. Once(Tail(r)) /\ Closed(Tail(r), next', prev') /\ root' = HeadOf(Tail(r))
  <2>1. PICK n \in Nat : n = Len(r) /\ n > 0
    BY <1>5
  <2>2. CASE n = 1
    <3>1. 1 \in 1 .. Len(r) /\ After(r, 1) = 1
      BY <2>1, <2>2 DEF After
    <3>2. final
      BY <1>5, <1>6, <3>1 DEF Closed
    <3>3. Tail(r) = <<>> /\ Len(<<>>) = 0 /\ 1 .. 0 = {}
      <4>1. Tail(r) \in Seq(Node) /\ Len(Tail(r)) = Len(r) - 1
        BY <1>5, HeadTailProperties
      <4>2. Len(Tail(r)) = 0
        BY <2>1, <2>2, <4>1
      <4>3. PICK t \in Seq(Node) : t = Tail(r)
        BY <4>1
      <4>4. Len(t) = 0
        BY <4>2, <4>3
      <4>5. t = <<>>
        BY <4>4
      <4> QED
        BY <4>3, <4>5
    <3> QED
      BY <1>8, <3>2, <3>3 DEF Once, Closed, HeadOf
  <2>3. CASE n > 1
    <3>1. 1 \in 1 .. Len(r) /\ 2 \in 1 .. Len(r) /\ After(r, 1) = 2 /\ Len(r) > 1
      BY <2>1, <2>3 DEF After
    <3>2. next[root] = r[2] /\ r[2] # r[1] /\ r[2] \in Node
      BY <1>5, <1>6, <3>1 DEF Closed, Once
    <3>3. ~final
      BY <1>5, <3>2
    <3>4. \A x \in NodesOf(r) \ {r[1]} : next'[x] = IF x = prev[r[1]] THEN next[r[1]] ELSE next[x]
      BY <1>5, <1>6, <1>8, <3>3
    <3>5. \A x \in NodesOf(r) \ {r[1]} : prev'[x] = IF x = next[r[1]] THEN prev[r[1]] ELSE prev[x]
      BY <1>5, <1>6, <1>8, <3>3
    <3>6. Once(Tail(r)) /\ Closed(Tail(r), next', prev')
      <4>1. ShrunkBy(r, next, prev, next', prev')
        BY <3>4, <3>5 DEF ShrunkBy
      <4> QED
        BY <1>6, <3>1, <4>1, RingShrinks
    <3>7. Tail(r) # <<>> /\ Tail(r)[1] = r[2]
      <4>1. Tail(r) \in Seq(Node) /\ Len(Tail(r)) = Len(r) - 1
            /\ \A i \in 1 .. Len(Tail(r)) : Tail(r)[i] = r[i + 1]
        BY <1>5, HeadTailProperties
      <4>2. 1 \in 1 .. Len(Tail(r)) /\ 1 + 1 = 2 /\ Len(Tail(r)) # 0
        BY <2>1, <2>3, <4>1
      <4>3. Len(<<>>) = 0
        OBVIOUS
      <4>4. Tail(r) # <<>>
        BY ONLY <4>2, <4>3
      <4>5. Tail(r)[1] = r[2]
        <5>1. Tail(r)[1] = r[1 + 1]
          BY <4>1, <4>2
        <5> QED
          BY <4>2, <5>1
      <4> QED
        BY <4>4, <4>5
    <3> QED
      BY <1>8, <3>2, <3>3, <3>6, <3>7 DEF HeadOf
  <2> QED
    BY <2>1, <2>2, <2>3
<1>15. PICK new \in Seq(Node), fewer \in Seq(Items) : new = Tail(r) /\ fewer = Tail(rest)
  <2>1. Tail(r) \in Seq(Node)
    BY <1>5, HeadTailProperties
  <2> QED
    BY <1>11, <2>1
<1>16. Listed(fewer, new, <<>>)'
  <2>1. Len(<<>>) = 0 /\ 1 .. 0 = {}
    OBVIOUS
  <2>2. NodesOf(<<>>) = {} /\ HeadOf(<<>>) = Nil /\ Once(<<>>) /\ Closed(<<>>, next', prev')
    BY <2>1 DEF NodesOf, HeadOf, Once, Closed
  <2>3. Holds(<<>>, value', made'["extra"])
    <3>1. Holds(<<>>, value, made["extra"])
      BY <1>1, <1>4 DEF Listed
    <3> QED
      BY <1>2, <2>1, <3>1 DEF Holds
  <2>4. made'["root"] = printed' \o fewer
    BY <1>2, <1>3, <1>10, <1>11, <1>15
  <2>5. DOMAIN next' = NodesOf(new) \cup NodesOf(<<>>) /\ NodesOf(new) \cap NodesOf(<<>>) = {}
    BY <1>7, <1>8, <1>15, <2>2
  <2>6. extra' = Nil
    BY <1>2, <1>3
  <2> QED
    BY <1>10, <1>14, <1>15, <2>2, <2>3, <2>4, <2>5, <2>6 DEF Listed
<1>17. ListInv'
  <2>1. <<>> \in Seq(Node)
    OBVIOUS
  <2>2. DOMAIN prev' = DOMAIN next' /\ DOMAIN value' = DOMAIN next' /\ data' \subseteq DOMAIN next'
    BY <1>2, <1>3, <1>8
  <2> QED
    BY <1>16, <2>1, <2>2 DEF ListInv
<1> QED
  BY <1>12, <1>13, <1>17 DEF DataInv

LEMMA StartPrintInv ==
  ASSUME DataInv, D!StartPrint
  PROVE  DataInv'
<1>1. /\ ~printing /\ extra = Nil /\ printing' = TRUE
      /\ UNCHANGED <<json, next, prev, root, extra, value, data, io, made, printed, prints>>
  BY DEF D!StartPrint, D!listVars
<1>2. PICK st : /\ st = IF json THEN D!add_item_buf(<<0, tot, overrun>>, 1) ELSE <<0, tot, overrun>>
                /\ siz' = st[1] /\ tot' = st[2] /\ overrun' = st[3]
  BY DEF D!StartPrint
<1>3. TextFits(<<0, tot, overrun>>)
  <2>1. PICK used \in Nat, allocated \in Nat : used <= allocated /\ <<siz, tot, overrun>> = <<used, allocated, FALSE>>
    BY DEF DataInv, StringInv, TextFits
  <2>2. tot = allocated /\ overrun = FALSE
    BY <2>1, Zenon
  <2>3. <<0, tot, overrun>> = <<0, allocated, FALSE>>
    BY ONLY <2>2, Zenon
  <2>4. 0 \in Nat /\ 0 <= allocated
    OBVIOUS
  <2> QED
    BY <2>3, <2>4 DEF TextFits
<1>4. TextFits(st)
  BY <1>2, <1>3, AddItemFits
<1>5. StringInv'
  BY <1>1, <1>2, <1>4, WrittenFits DEF DataInv, StringInv
<1>6. PrintInv'
  BY <1>1 DEF DataInv, PrintInv
<1>7. ListInv'
  <2>1. PICK rest \in Seq(Items), r \in Seq(Node), e \in Seq(Node) : Listed(rest, r, e)
    BY DEF DataInv, ListInv
  <2>2. Listed(rest, r, e)'
    BY <1>1, <2>1 DEF Listed
  <2> QED
    BY <1>1, <2>2 DEF DataInv, ListInv
<1> QED
  BY <1>5, <1>6, <1>7 DEF DataInv

LEMMA EndPrintInv ==
  ASSUME DataInv, D!EndPrint
  PROVE  DataInv'
<1>1. /\ printing /\ root = Nil /\ printing' = FALSE /\ printed' = <<>>
      /\ made' = [l \in D!Lists |-> <<>>]
      /\ UNCHANGED <<json, next, prev, root, extra, value, data>>
  BY DEF D!EndPrint, D!listVars
<1>2. PICK st : /\ st = D!add_item_buf(<<siz, tot, overrun>>, 1)
                /\ siz' = st[1] /\ tot' = st[2] /\ overrun' = st[3]
                /\ io' \in {D!IoAdded(st[1]), [D!IoAdded(st[1]) EXCEPT !.dif = 0]}
  BY DEF D!EndPrint
<1>3. TextFits(st)
  <2>1. TextFits(<<siz, tot, overrun>>)
    BY DEF DataInv, StringInv
  <2> QED
    BY <1>2, <2>1, AddItemFits
<1>4. TextFits(<<siz, tot, overrun>>)'
  BY <1>2, <1>3, WrittenFits
<1>5. io' \in [dif : Nat, siz : Nat] /\ io'.dif + 1 + MARKS <= io'.siz
  <2>1. st[1] \in Nat
    BY <1>3 DEF TextFits
  <2>2. PICK added : added = D!IoAdded(st[1])
    OBVIOUS
  <2>3. added \in [dif : Nat, siz : Nat] /\ added.dif + 1 + MARKS <= added.siz /\ 1 + MARKS <= added.siz
    BY <2>1, <2>2, IoFits DEF DataInv, StringInv
  <2>4. PICK marks \in Nat : marks = MARKS
    BY DataAssumed
  <2>5. CASE io' = added
    BY <2>3, <2>5
  <2>6. CASE io' = [added EXCEPT !.dif = 0]
    <3>1. io' \in [dif : Nat, siz : Nat] /\ io'.dif = 0 /\ io'.siz = added.siz
      BY <2>3, <2>6
    <3>2. 0 + 1 + marks <= added.siz
      BY <2>3, <2>4
    <3> QED
      BY <2>4, <3>1, <3>2
  <2> QED
    BY <1>2, <2>2, <2>5, <2>6
<1>6. StringInv'
  BY <1>4, <1>5 DEF StringInv
<1>7. PrintInv'
  <2>1. <<>> \in Seq(Items)
    OBVIOUS
  <2> QED
    BY <1>1, <2>1 DEF PrintInv
<1>8. ListInv'
  <2>1. PICK rest \in Seq(Items), r \in Seq(Node), e \in Seq(Node) : Listed(rest, r, e)
    BY DEF DataInv, ListInv
  <2>2. extra = Nil
    BY <1>1 DEF DataInv, PrintInv
  <2>3. r = <<>> /\ e = <<>>
    <3>1. e # <<>> => e[1] \in Node /\ HeadOf(e) = e[1]
      BY DEF HeadOf
    <3>2. r # <<>> => r[1] \in Node /\ HeadOf(r) = r[1]
      BY DEF HeadOf
    <3> QED
      BY <1>1, <2>1, <2>2, <3>1, <3>2, DataAssumed DEF Listed
  <2>4. Len(<<>>) = 0 /\ 1 .. 0 = {}
    OBVIOUS
  <2>5. Holds(<<>>, value', <<>>)
    BY <2>4 DEF Holds
  <2>6. made'["root"] = <<>> /\ made'["extra"] = <<>> /\ printed' \o <<>> = <<>>
    BY <1>1 DEF D!Lists
  <2>7. <<>> \in Seq(Items)
    OBVIOUS
  <2>8. Listed(<<>>, r, e)'
    BY <1>1, <2>1, <2>3, <2>5, <2>6, <2>7 DEF Listed
  <2> QED
    BY <1>1, <2>7, <2>8 DEF DataInv, ListInv
<1> QED
  BY <1>6, <1>7, <1>8 DEF DataInv

LEMMA DataStepInv ==
  ASSUME DataInv, D!Next
  PROVE  DataInv'
<1>1. CASE \E l \in D!Lists : D!AddData(l)
  BY <1>1, AddDataInv
<1>2. CASE D!AddExtra
  BY <1>2, AddExtraInv
<1>3. CASE D!StartPrint
  BY <1>3, StartPrintInv
<1>4. CASE D!PrintNode
  BY <1>4, PrintNodeInv
<1>5. CASE D!EndPrint
  BY <1>5, EndPrintInv
<1> QED
  BY <1>1, <1>2, <1>3, <1>4, <1>5 DEF D!Next

\* What was printed and what is left are the two parts of what was made.
LEMMA Halves ==
  ASSUME NEW Any, NEW p \in Seq(Any), NEW q \in Seq(Any)
  PROVE  SubSeq(p \o q, 1, Len(p)) = p /\ SubSeq(p \o q, Len(p) + 1, Len(p \o q)) = q
<1>1. PICK n \in Nat : n = Len(p)
  OBVIOUS
<1>2. PICK m \in Nat : m = Len(q)
  OBVIOUS
<1>3. PICK s \in Seq(Any) : s = p \o q
  BY ConcatProperties
<1>4. Len(s) = n + m /\ \A i \in 1 .. n + m : s[i] = IF i <= n THEN p[i] ELSE q[i - n]
  BY <1>1, <1>2, <1>3, ConcatProperties
<1>5. SubSeq(s, 1, n) = p
  <2>1. SubSeq(s, 1, n) \in Seq(Any) /\ Len(SubSeq(s, 1, n)) = n /\ \A i \in 1 .. n : SubSeq(s, 1, n)[i] = s[i]
    BY <1>4
  <2>2. \A i \in 1 .. n : SubSeq(s, 1, n)[i] = p[i]
    BY <1>4, <2>1
  <2> QED
    BY <1>1, <2>1, <2>2, SeqEqual
<1>6. SubSeq(s, n + 1, n + m) = q
  <2>1. /\ SubSeq(s, n + 1, n + m) \in Seq(Any) /\ Len(SubSeq(s, n + 1, n + m)) = m
        /\ \A i \in 1 .. m : SubSeq(s, n + 1, n + m)[i] = s[n + i]
    BY <1>4
  <2>2. ASSUME NEW i \in 1 .. m PROVE SubSeq(s, n + 1, n + m)[i] = q[i]
    <3>1. n + i \in 1 .. n + m /\ ~(n + i <= n) /\ (n + i) - n = i
      OBVIOUS
    <3>2. s[n + i] = q[i]
      BY <1>4, <3>1
    <3> QED
      BY <2>1, <3>2
  <2> QED
    BY <1>2, <2>1, <2>2, SeqEqual
<1> QED
  BY <1>1, <1>3, <1>4, <1>5, <1>6

LEMMA DataInvExact ==
  ASSUME DataInv
  PROVE  D!DataPrinted
<1>1. PICK rest \in Seq(Items), r \in Seq(Node), e \in Seq(Node) : Listed(rest, r, e)
  BY DEF DataInv, ListInv
<1>2. printed \in Seq(Items) /\ made["root"] = printed \o rest /\ made["extra"] \in Seq(Items)
  BY <1>1 DEF DataInv, PrintInv, Listed, D!Lists
<1>3. /\ SubSeq(made["root"], Len(printed) + 1, Len(made["root"])) = rest
      /\ SubSeq(made["root"], 1, Len(printed)) = printed
  BY <1>2, Halves
<1>4. D!Follows(root, rest)
  BY <1>1, RingFollows DEF Listed
<1>5. D!Follows(extra, made["extra"])
  BY <1>1, <1>2, RingFollows DEF Listed
<1>6. root = Nil /\ extra = Nil => DOMAIN next = {} /\ data = {}
  <2> SUFFICES ASSUME root = Nil, extra = Nil PROVE DOMAIN next = {} /\ data = {}
    OBVIOUS
  <2>1. e # <<>> => e[1] \in Node /\ HeadOf(e) = e[1]
    BY DEF HeadOf
  <2>2. r # <<>> => r[1] \in Node /\ HeadOf(r) = r[1]
    BY DEF HeadOf
  <2>3. r = <<>> /\ e = <<>>
    BY <1>1, <2>1, <2>2, DataAssumed DEF Listed
  <2>4. Len(<<>>) = 0 /\ 1 .. 0 = {}
    OBVIOUS
  <2>5. NodesOf(<<>>) = {}
    BY <2>4 DEF NodesOf
  <2> QED
    BY <1>1, <2>3, <2>5 DEF DataInv, ListInv, Listed
<1>7. ~overrun /\ io.dif + 1 + MARKS <= io.siz
  <2>1. overrun = FALSE
    <3>1. PICK used \in Nat, allocated \in Nat : <<siz, tot, overrun>> = <<used, allocated, FALSE>>
      BY DEF DataInv, StringInv, TextFits
    <3> QED
      BY <3>1, Zenon
  <2> QED
    BY <2>1 DEF DataInv, StringInv
<1>8. ASSUME NEW n \in DOMAIN value
      PROVE  Len(D!Escaped(value[n].text)) + 1 <= D!EscapeRoom(value[n].text)
  <2>1. n \in NodesOf(r) \/ n \in NodesOf(e)
    BY <1>1 DEF DataInv, ListInv, Listed
  <2>2. CASE n \in NodesOf(r)
    <3>1. PICK i \in 1 .. Len(r) : n = r[i]
      BY <2>2 DEF NodesOf
    <3>2. value[n] = rest[i] /\ rest[i] \in Items
      BY <1>1, <3>1 DEF Listed, Holds
    <3>3. value[n].text \in Seq(Char)
      BY <3>2 DEF Items
    <3> QED
      BY <3>3, EscapedFits
  <2>3. CASE n \in NodesOf(e)
    <3>1. PICK i \in 1 .. Len(e) : n = e[i]
      BY <2>3 DEF NodesOf
    <3>2. value[n] = made["extra"][i] /\ made["extra"][i] \in Items
      BY <1>1, <1>2, <3>1 DEF Listed, Holds
    <3>3. value[n].text \in Seq(Char)
      BY <3>2 DEF Items
    <3> QED
      BY <3>3, EscapedFits
  <2> QED
    BY <2>1, <2>2, <2>3
<1> QED
  BY <1>3, <1>4, <1>5, <1>6, <1>7, <1>8 DEF D!DataPrinted

DataPartInv == part = "data" => DataInv

\* api.c: a list holds what was added, in order, however it was put together, is printed whole and
\* freed; no string is written past what is allocated for it, nor the reply and the marks that end it.
THEOREM DataPrintedHolds == MCSpec => []DataPrinted
<1>1. MCInit => DataPartInv
  BY DataInitInv DEF MCInit, DataPartInv
<1>2. DataPartInv /\ [MCNext]_allVars => DataPartInv'
  <2> SUFFICES ASSUME DataPartInv, [MCNext]_allVars, part' = "data" PROVE DataInv'
    BY DEF DataPartInv
  <2>1. CASE part = "data" /\ D!Next /\ Only("data")
    BY <2>1, DataStepInv DEF DataPartInv
  <2>2. CASE UNCHANGED allVars
    <3>1. DataInv /\ UNCHANGED dataVars
      BY <2>2 DEF DataPartInv, allVars
    <3>2. ListInv' /\ PrintInv' /\ StringInv'
      <4>1. PICK rest \in Seq(Items), r \in Seq(Node), e \in Seq(Node) : Listed(rest, r, e)
        BY <3>1 DEF DataInv, ListInv
      <4>2. Listed(rest, r, e)'
        BY <3>1, <4>1 DEF Listed, dataVars
      <4>3. ListInv'
        BY <3>1, <4>2 DEF DataInv, ListInv, dataVars
      <4>4. PrintInv'
        BY <3>1 DEF DataInv, PrintInv, dataVars
      <4>5. StringInv'
        BY <3>1 DEF DataInv, StringInv, dataVars
      <4> QED
        BY <4>3, <4>4, <4>5
    <3> QED
      BY <3>2 DEF DataInv
  <2> QED
    BY <2>1, <2>2 DEF MCNext, Only
<1>3. DataPartInv => DataPrinted
  BY DataInvExact DEF DataPartInv, DataPrinted
<1> QED
  BY <1>1, <1>2, <1>3, PTL DEF MCSpec
=============================================================================
