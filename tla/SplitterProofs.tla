--------------------------- MODULE SplitterProofs ---------------------------
(* Proofs about Splitter, for any number of preimages, mappers and slots and *)
(* any choice of MPI_Send's mode.                                            *)
EXTENDS Splitter, FiniteSetTheorems, TLAPS

(* The number of mappers is a positive natural number. *)
LEMMA MapperCount == n_mapper \in Nat /\ n_mapper > 0
  BY SplitterAssumption, FS_CardinalityType, FS_EmptySet DEF n_mapper

(* Sending on, or receiving from, a channel of well-typed messages leaves it well-typed. *)
LEMMA ChannelType ==
  ASSUME NEW S, NEW c \in [Mapper -> Seq(S)], NEW m \in Mapper
  PROVE  /\ \A msg \in S : Put(c, m, msg) \in [Mapper -> Seq(S)]
         /\ c[m] # <<>> => Get(c, m) \in [Mapper -> Seq(S)] /\ Head(c[m]) \in S
  BY DEF Put, Get

(* What Msg builds is a message. *)
LEMMA MsgTyped ==
  ASSUME NEW tag \in Tag, NEW slot \in Slot, NEW block \in SUBSET Pos
  PROVE  Msg(tag, slot, block) \in MsgType
  BY DEF Msg, MsgType

(* There is a first dictionary. *)
LEMMA SlotZero == 0 \in Slot
  BY SplitterAssumption DEF Slot

(* Every step of reader, mapper and writer keeps positions, slots, counters and *)
(* messages in range; in particular the EOF counters never pass n_mapper.       *)
THEOREM TypeCorrect == Spec => []TypeOK
<1>1. Init => TypeOK
  BY SplitterAssumption, MapperCount, SlotZero DEF Init, TypeOK
<1>2. TypeOK /\ [Next]_vars => TypeOK'
  <2> SUFFICES ASSUME TypeOK, [Next]_vars PROVE TypeOK'
    OBVIOUS
  <2> USE SplitterAssumption, MapperCount, SlotZero
  <2>1. ASSUME ReaderFread PROVE TypeOK'
    <3>1. FreadItems \in 0 .. N - rpos
      BY DEF TypeOK, FreadItems
    <3>2. rpos' \in 0 .. N /\ rblock' \in SUBSET Pos
      BY <2>1, <3>1 DEF ReaderFread, TypeOK, Pos
    <3>. QED BY <2>1, <3>2 DEF ReaderFread, TypeOK, chans, mapper, writer
  <2>2. ASSUME NEW m \in Mapper, ReaderServe(m) PROVE TypeOK'
    <3>1. Msg("NONCE_BLOCK", 0, rblock) \in MsgType
      BY MsgTyped DEF TypeOK, Tag
    <3>2. toReader' \in [Mapper -> Seq(MsgType)] /\ toMapper' \in [Mapper -> Seq(MsgType)]
      BY <2>2, <3>1, ChannelType DEF ReaderServe, TypeOK
    <3>. QED BY <2>2, <3>2 DEF ReaderServe, TypeOK, mapper, writer
  <2>3. ASSUME NEW m \in Mapper, ReaderEof(m) PROVE TypeOK'
    <3>1. Msg("EOF", 0, {}) \in MsgType
      BY MsgTyped DEF Tag
    <3>2. toReader' \in [Mapper -> Seq(MsgType)] /\ toMapper' \in [Mapper -> Seq(MsgType)]
      BY <2>3, <3>1, ChannelType DEF ReaderEof, TypeOK
    <3>. QED BY <2>3, <3>2 DEF ReaderEof, TypeOK, mapper, writer, EofRounds
  <2>4. ASSUME ReaderDone PROVE TypeOK'
    BY <2>4 DEF ReaderDone, TypeOK, chans, mapper, writer
  <2>5. ASSUME NEW m \in Mapper, MapperRequest(m) PROVE TypeOK'
    <3>1. Msg("READER_REQUEST", 0, {}) \in MsgType
      BY MsgTyped DEF Tag
    <3>2. toReader' \in [Mapper -> Seq(MsgType)]
      BY <2>5, <3>1, ChannelType DEF MapperRequest, TypeOK
    <3>. QED BY <2>5, <3>2 DEF MapperRequest, TypeOK, reader, writer
  <2>6. ASSUME NEW m \in Mapper, MapperRecv(m) PROVE TypeOK'
    <3>1. toMapper' \in [Mapper -> Seq(MsgType)] /\ Head(toMapper[m]) \in MsgType
      BY <2>6, ChannelType DEF MapperRecv, TypeOK
    <3>2. mblock' \in [Mapper -> SUBSET Pos]
      BY <2>6, <3>1 DEF MapperRecv, TypeOK, MsgType
    <3>3. mpc' \in [Mapper -> {"map", "recv", "key", "block", "eof", "done"}]
      BY <2>6 DEF MapperRecv, TypeOK
    <3>4. meof' \in [Mapper -> BOOLEAN]
      BY <2>6 DEF MapperRecv, TypeOK
    <3>5. mslot' \in [Mapper -> Slot]
      BY <2>6 DEF MapperRecv, TypeOK
    <3>. QED BY <2>6, <3>1, <3>2, <3>3, <3>4, <3>5 DEF MapperRecv, TypeOK, reader, writer
  <2>7. ASSUME NEW m \in Mapper, MapperHash(m) PROVE TypeOK'
    <3>1. PICK i \in mblock[m] :
            /\ mblock' = [mblock EXCEPT ![m] = @ \ {i}]
            /\ \/ KeyOf[i] = Invalid /\ UNCHANGED <<mpc, output, mslot>>
               \/ /\ KeyOf[i] # Invalid
                  /\ LET buf == output[m][KeyOf[i]] \cup {i}
                     IN  /\ output' = [output EXCEPT ![m][KeyOf[i]] = buf]
                         /\ mslot' = [mslot EXCEPT ![m] = KeyOf[i]]
                         /\ mpc' = [mpc EXCEPT ![m] = IF FlushDue(buf) THEN "key" ELSE "map"]
      BY <2>7 DEF MapperHash
    <3>2. mblock' \in [Mapper -> SUBSET Pos] /\ i \in Pos
      BY <3>1 DEF TypeOK
    <3>3. CASE KeyOf[i] = Invalid
      BY <2>7, <3>1, <3>2, <3>3 DEF MapperHash, TypeOK, chans, reader, writer
    <3>4. CASE KeyOf[i] # Invalid
      <4>1. KeyOf[i] \in Slot
        BY <3>2, <3>4
      <4>2. output' \in [Mapper -> [Slot -> SUBSET Pos]]
        <5>1. output[m][KeyOf[i]] \cup {i} \in SUBSET Pos
          BY <3>2, <4>1 DEF TypeOK
        <5>2. output[m] \in [Slot -> SUBSET Pos]
          BY DEF TypeOK
        <5>3. [output[m] EXCEPT ![KeyOf[i]] = output[m][KeyOf[i]] \cup {i}] \in [Slot -> SUBSET Pos]
          BY <4>1, <5>1, <5>2
        <5>4. output' = [output EXCEPT ![m] =
                            [output[m] EXCEPT ![KeyOf[i]] = output[m][KeyOf[i]] \cup {i}]]
          BY <3>1, <3>4
        <5>. QED BY <5>3, <5>4 DEF TypeOK
      <4>3. mslot' \in [Mapper -> Slot]
        BY <3>1, <3>4, <4>1 DEF TypeOK
      <4>4. mpc' \in [Mapper -> {"map", "recv", "key", "block", "eof", "done"}]
        BY <3>1, <3>4 DEF TypeOK
      <4>. QED BY <2>7, <3>2, <4>2, <4>3, <4>4 DEF MapperHash, TypeOK, chans, reader, writer
    <3>. QED BY <3>3, <3>4
  <2>8. ASSUME NEW m \in Mapper, MapperSendKey(m) PROVE TypeOK'
    <3>1. Msg("KEY", mslot[m], {}) \in MsgType
      BY MsgTyped DEF Tag, TypeOK
    <3>2. toWriter' \in [Mapper -> Seq(MsgType)]
      BY <2>8, <3>1, ChannelType DEF MapperSendKey, TypeOK
    <3>. QED BY <2>8, <3>2 DEF MapperSendKey, TypeOK, reader, writer
  <2>9. ASSUME NEW m \in Mapper, MapperSendBlock(m) PROVE TypeOK'
    <3>1. Msg("HASH_BLOCK", 0, output[m][mslot[m]]) \in MsgType
      BY MsgTyped DEF Tag, TypeOK
    <3>2. toWriter' \in [Mapper -> Seq(MsgType)]
      BY <2>9, <3>1, ChannelType DEF MapperSendBlock, TypeOK
    <3>3. output' \in [Mapper -> [Slot -> SUBSET Pos]]
      BY <2>9 DEF MapperSendBlock, TypeOK, OutputEmptied
    <3>4. mslot' \in [Mapper -> Slot]
      BY <2>9 DEF MapperSendBlock, TypeOK, Slot, LastSlot
    <3>5. mpc' \in [Mapper -> {"map", "recv", "key", "block", "eof", "done"}]
      BY <2>9 DEF MapperSendBlock, TypeOK
    <3>. QED BY <2>9, <3>2, <3>3, <3>4, <3>5 DEF MapperSendBlock, TypeOK, reader, writer
  <2>10. ASSUME NEW m \in Mapper, MapperSendEof(m) PROVE TypeOK'
    <3>1. Msg("EOF", 0, {}) \in MsgType
      BY MsgTyped DEF Tag
    <3>2. toWriter' \in [Mapper -> Seq(MsgType)]
      BY <2>10, <3>1, ChannelType DEF MapperSendEof, TypeOK
    <3>. QED BY <2>10, <3>2 DEF MapperSendEof, TypeOK, reader, writer
  <2>11. ASSUME NEW m \in Mapper, WriterRecvKey(m) PROVE TypeOK'
    <3>1. toWriter' \in [Mapper -> Seq(MsgType)] /\ Head(toWriter[m]) \in MsgType
      BY <2>11, ChannelType DEF WriterRecvKey, TypeOK
    <3>2. /\ n_eof' \in 0 .. n_mapper /\ wslot' \in Slot /\ wsrc' \in SUBSET Mapper
          /\ wpc' \in {"key", "block", "done", "aborted"}
      BY <2>11, <3>1 DEF WriterRecvKey, TypeOK, MsgType, AllEof
    <3>. QED BY <2>11, <3>1, <3>2 DEF WriterRecvKey, TypeOK, reader, mapper
  <2>12. ASSUME NEW m \in Mapper, WriterRecvBlock(m) PROVE TypeOK'
    <3>1. PICK k \in 1 .. Len(toWriter[m]) :
            /\ file' = [file EXCEPT ![wslot] = @ \cup toWriter[m][k].block]
            /\ toWriter' = [toWriter EXCEPT ![m] =
                               SubSeq(@, 1, k - 1) \o SubSeq(@, k + 1, Len(@))]
      BY <2>12 DEF WriterRecvBlock
    <3>2. toWriter[m] \in Seq(MsgType) /\ toWriter[m][k] \in MsgType
      BY DEF TypeOK
    <3>3. SubSeq(toWriter[m], 1, k - 1) \in Seq(MsgType)
      BY <3>2
    <3>4. SubSeq(toWriter[m], k + 1, Len(toWriter[m])) \in Seq(MsgType)
      BY <3>2
    <3>5. toWriter' \in [Mapper -> Seq(MsgType)]
      BY <3>1, <3>3, <3>4 DEF TypeOK
    <3>6. file' \in [Slot -> SUBSET Pos]
      BY <3>1, <3>2 DEF TypeOK, MsgType
    <3>. QED BY <2>12, <3>5, <3>6 DEF WriterRecvBlock, TypeOK, reader, mapper
  <2>13. ASSUME WriterClose PROVE TypeOK'
    BY <2>13 DEF WriterClose, TypeOK, chans, reader, mapper
  <2>14. ASSUME UNCHANGED vars PROVE TypeOK'
    BY <2>14 DEF TypeOK, vars, chans, reader, mapper, writer
  <2>. QED
    BY <2>1, <2>2, <2>3, <2>4, <2>5, <2>6, <2>7, <2>8, <2>9, <2>10, <2>11, <2>12, <2>13, <2>14
       DEF Next, ReaderNext, MapperNext, WriterNext, Finalized
<1>. QED BY <1>1, <1>2, PTL DEF Spec

-----------------------------------------------------------------------------
(* The inductive invariant, in named parts. *)

\* The reader holds a block only while it waits for a request; it answers EOF
\* once the file is read to its end.
ReaderInv ==
    /\ rpc # "recv" => rblock = {}
    /\ rpc \in {"eof", "done"} => rpos = N

\* A mapper has at most one request or one answer under way, and its block is
\* exhausted while it waits.
RequestInv ==
    \A m \in Mapper :
        /\ toReader[m] # <<>> => mpc[m] = "recv" /\ toMapper[m] = <<>> /\ Len(toReader[m]) = 1
        /\ toMapper[m] # <<>> => mpc[m] = "recv" /\ Len(toMapper[m]) = 1
        /\ mpc[m] = "recv" => mblock[m] = {}

\* EOF reaches a mapper after the last block; in the final flush the slots
\* before mslot are empty, and after it all of them.
FlushInv ==
    \A m \in Mapper :
        /\ toMapper[m] # <<>> /\ toMapper[m][1].tag = "EOF" =>
              toMapper[m][1].block = {} /\ rpc \in {"eof", "done"}
        /\ mpc[m] \in {"eof", "done"} => meof[m]
        /\ meof[m] =>
              /\ mpc[m] \in {"key", "block", "eof", "done"}
              /\ mblock[m] = {} /\ rpc \in {"eof", "done"}
              /\ \A s \in Slot : s < mslot[m] \/ mpc[m] \in {"eof", "done"} => output[m][s] = {}

ControlInv == ReaderInv /\ RequestInv /\ FlushInv
-----------------------------------------------------------------------------

(* An empty channel is one of length zero. *)
LEMMA ChannelEmpty ==
  ASSUME NEW S, NEW c \in Seq(S)
  PROVE  Len(c) \in Nat /\ (c = <<>> <=> Len(c) = 0)
  OBVIOUS

(* What appending a message to a channel and taking its first one do to the  *)
(* channel, position by position.                                            *)
LEMMA ChannelEnds ==
  ASSUME NEW S, NEW c \in Seq(S), NEW x \in S
  PROVE  /\ Len(c) \in Nat /\ (c = <<>> <=> Len(c) = 0)
         /\ Append(c, x) # <<>> /\ Len(Append(c, x)) = Len(c) + 1
         /\ Append(c, x)[Len(c) + 1] = x
         /\ \A k \in 1 .. Len(c) : Append(c, x)[k] = c[k]
         /\ c # <<>> => /\ Head(c) = c[1] /\ Len(Tail(c)) = Len(c) - 1
                        /\ \A k \in 1 .. Len(c) - 1 : Tail(c)[k] = c[k + 1]
                        /\ Tail(c) = <<>> <=> Len(c) = 1
<1>1. ASSUME c # <<>> PROVE Tail(c) = <<>> <=> Len(c) = 1
  <2> DEFINE t == Tail(c)
  <2>1. t \in Seq(S) /\ Len(t) = Len(c) - 1 /\ Len(c) \in Nat
    BY <1>1
  <2> HIDE DEF t
  <2>2. t = <<>> <=> Len(t) = 0
    BY <2>1, ChannelEmpty
  <2>3. t = <<>> <=> Len(c) = 1
    BY <2>1, <2>2
  <2>. QED BY <2>3 DEF t
<1>2. Len(c) \in Nat /\ (c = <<>> <=> Len(c) = 0)
  OBVIOUS
<1>3. /\ Append(c, x) # <<>> /\ Len(Append(c, x)) = Len(c) + 1
      /\ Append(c, x)[Len(c) + 1] = x
      /\ \A k \in 1 .. Len(c) : Append(c, x)[k] = c[k]
  OBVIOUS
<1>4. c # <<>> => /\ Head(c) = c[1] /\ Len(Tail(c)) = Len(c) - 1
                  /\ \A k \in 1 .. Len(c) - 1 : Tail(c)[k] = c[k + 1]
  OBVIOUS
<1>. QED BY <1>1, <1>2, <1>3, <1>4, Zenon

(* What a message is when it is written out. *)
LEMMA MsgFields ==
  ASSUME NEW tag, NEW slot, NEW block
  PROVE  /\ Msg(tag, slot, block).tag = tag
         /\ Msg(tag, slot, block).slot = slot
         /\ Msg(tag, slot, block).block = block
  BY DEF Msg

(* Requests and answers alternate, the file is read to its end before EOF is *)
(* answered, and the final flush empties one slot after the other.           *)
LEMMA ControlStep ==
  ASSUME TypeOK, TypeOK', ControlInv, [Next]_vars
  PROVE  ControlInv'
<1> USE SplitterAssumption, MapperCount DEF ControlInv
<1>1. ASSUME ReaderFread PROVE ControlInv'
  <2>1. FreadItems \in 0 .. N - rpos /\ (FreadItems = 0 => rpos = N)
    BY DEF TypeOK, FreadItems
  <2>2. ReaderInv'
    BY <1>1, <2>1 DEF ReaderFread, ReaderInv, TypeOK
  <2>. QED BY <1>1, <2>2 DEF ReaderFread, RequestInv, FlushInv, chans, mapper
<1>2. ASSUME NEW m \in Mapper, ReaderServe(m) PROVE ControlInv'
  <2>1. ReaderInv'
    BY <1>2 DEF ReaderServe, ReaderInv
  <2>2. toReader'[m] = <<>> /\ toMapper[m] = <<>> /\ mpc[m] = "recv"
    <3>1. toReader[m] \in Seq(MsgType) /\ toReader[m] # <<>> /\ toReader'[m] = Tail(toReader[m])
      BY <1>2 DEF ReaderServe, Get, TypeOK
    <3>. QED BY <3>1, ChannelEnds DEF RequestInv
  <2>3. /\ Len(toMapper'[m]) = 1 /\ toMapper'[m][1] = Msg("NONCE_BLOCK", 0, rblock)
        /\ \A n \in Mapper \ {m} : toReader'[n] = toReader[n] /\ toMapper'[n] = toMapper[n]
    BY <1>2, <2>2 DEF ReaderServe, Put, Get, TypeOK
  <2>4. RequestInv'
    BY <1>2, <2>2, <2>3 DEF ReaderServe, RequestInv, mapper
  <2>5. FlushInv'
    BY <1>2, <2>2, <2>3, MsgFields DEF ReaderServe, FlushInv, mapper
  <2>. QED BY <2>1, <2>4, <2>5
<1>3. ASSUME NEW m \in Mapper, ReaderEof(m) PROVE ControlInv'
  <2>1. ReaderInv'
    BY <1>3 DEF ReaderEof, ReaderInv
  <2>2. toReader'[m] = <<>> /\ toMapper[m] = <<>> /\ mpc[m] = "recv"
    <3>1. toReader[m] \in Seq(MsgType) /\ toReader[m] # <<>> /\ toReader'[m] = Tail(toReader[m])
      BY <1>3 DEF ReaderEof, Get, TypeOK
    <3>. QED BY <3>1, ChannelEnds DEF RequestInv
  <2>3. /\ Len(toMapper'[m]) = 1 /\ toMapper'[m][1] = Msg("EOF", 0, {})
        /\ \A n \in Mapper \ {m} : toReader'[n] = toReader[n] /\ toMapper'[n] = toMapper[n]
    BY <1>3, <2>2 DEF ReaderEof, Put, Get, TypeOK
  <2>4. RequestInv'
    BY <1>3, <2>2, <2>3 DEF ReaderEof, RequestInv, mapper
  <2>5. FlushInv'
    BY <1>3, <2>2, <2>3, MsgFields DEF ReaderEof, FlushInv, mapper
  <2>. QED BY <2>1, <2>4, <2>5
<1>4. ASSUME ReaderDone PROVE ControlInv'
  BY <1>4 DEF ReaderDone, ReaderInv, RequestInv, FlushInv, chans, mapper
<1>5. ASSUME NEW m \in Mapper, MapperRequest(m) PROVE ControlInv'
  <2>1. toReader[m] = <<>> /\ toMapper[m] = <<>> /\ ~meof[m]
    BY <1>5 DEF MapperRequest, RequestInv, FlushInv
  <2>2. /\ Len(toReader'[m]) = 1
        /\ \A n \in Mapper \ {m} : toReader'[n] = toReader[n] /\ mpc'[n] = mpc[n]
        /\ mpc'[m] = "recv"
    BY <1>5, <2>1 DEF MapperRequest, Put, TypeOK
  <2>3. ReaderInv'
    BY <1>5 DEF MapperRequest, ReaderInv, reader
  <2>4. RequestInv'
    BY <1>5, <2>1, <2>2 DEF MapperRequest, RequestInv
  <2>5. FlushInv'
    BY <1>5, <2>1, <2>2 DEF MapperRequest, FlushInv, reader
  <2>. QED BY <2>3, <2>4, <2>5
<1>6. ASSUME NEW m \in Mapper, MapperRecv(m) PROVE ControlInv'
  <2> DEFINE msg == Head(toMapper[m])
  <2>1. /\ msg = toMapper[m][1] /\ toMapper'[m] = <<>> /\ toReader[m] = <<>>
    <3>1. /\ toMapper[m] \in Seq(MsgType) /\ toMapper[m] # <<>>
          /\ toMapper'[m] = Tail(toMapper[m])
      BY <1>6 DEF MapperRecv, Get, TypeOK
    <3>. QED BY <3>1, ChannelEnds DEF RequestInv
  <2>2. \A n \in Mapper \ {m} :
          /\ toMapper'[n] = toMapper[n] /\ mpc'[n] = mpc[n] /\ meof'[n] = meof[n]
          /\ mblock'[n] = mblock[n] /\ mslot'[n] = mslot[n]
    BY <1>6 DEF MapperRecv, Get, TypeOK
  <2>3. /\ mpc'[m] = IF msg.tag = "EOF" THEN "key" ELSE "map"
        /\ meof'[m] = (msg.tag = "EOF")
        /\ mblock'[m] = msg.block /\ mslot'[m] = 0
    BY <1>6 DEF MapperRecv, TypeOK
  <2>4. ReaderInv'
    BY <1>6 DEF MapperRecv, ReaderInv, reader
  <2>5. RequestInv'
    BY <1>6, <2>1, <2>2, <2>3 DEF MapperRecv, RequestInv
  <2>6. FlushInv'
    <3>1. ASSUME NEW n \in Mapper \ {m} PROVE FlushInv!(n)'
      BY <1>6, <2>2 DEF MapperRecv, FlushInv, reader
    <3>2. CASE msg.tag = "EOF"
      <4>1. mblock'[m] = {} /\ rpc' \in {"eof", "done"}
        BY <1>6, <2>1, <2>3, <3>2 DEF MapperRecv, FlushInv, reader
      <4>2. \A s \in Slot : ~(s < mslot'[m])
        BY <2>3 DEF Slot
      <4>. QED BY <2>1, <2>3, <3>1, <3>2, <4>1, <4>2 DEF FlushInv
    <3>3. CASE msg.tag # "EOF"
      BY <2>1, <2>3, <3>1, <3>3 DEF FlushInv
    <3>. QED BY <3>2, <3>3
  <2>. QED BY <2>4, <2>5, <2>6
<1>7. ASSUME NEW m \in Mapper, MapperHash(m) PROVE ControlInv'
  <2>1. ~meof[m] /\ mpc[m] = "map"
    BY <1>7 DEF MapperHash, FlushInv
  <2>2. /\ mpc'[m] \in {"map", "key"}
        /\ \A n \in Mapper \ {m} : /\ mpc'[n] = mpc[n] /\ mslot'[n] = mslot[n]
                                   /\ mblock'[n] = mblock[n] /\ output'[n] = output[n]
    BY <1>7 DEF MapperHash, TypeOK
  <2>3. ReaderInv'
    BY <1>7 DEF MapperHash, ReaderInv, reader
  <2>4. RequestInv'
    BY <1>7, <2>1, <2>2 DEF MapperHash, RequestInv, chans
  <2>5. FlushInv'
    BY <1>7, <2>1, <2>2 DEF MapperHash, FlushInv, chans, reader
  <2>. QED BY <2>3, <2>4, <2>5
<1>8. ASSUME NEW m \in Mapper, MapperSendKey(m) PROVE ControlInv'
  <2>1. mpc[m] = "key" /\ mpc'[m] = "block" /\ \A n \in Mapper \ {m} : mpc'[n] = mpc[n]
    BY <1>8 DEF MapperSendKey, TypeOK
  <2>. QED BY <1>8, <2>1 DEF MapperSendKey, ReaderInv, RequestInv, FlushInv, reader
<1>9. ASSUME NEW m \in Mapper, MapperSendBlock(m) PROVE ControlInv'
  <2>1. /\ mpc[m] = "block"
        /\ mpc'[m] = IF ~meof[m] THEN "map" ELSE IF mslot[m] < LastSlot THEN "key" ELSE "eof"
        /\ mslot'[m] = IF meof[m] /\ mslot[m] < LastSlot THEN mslot[m] + 1 ELSE mslot[m]
        /\ \A n \in Mapper \ {m} : mpc'[n] = mpc[n] /\ mslot'[n] = mslot[n] /\ output'[n] = output[n]
    BY <1>9 DEF MapperSendBlock, TypeOK, OutputEmptied
  <2>2. output'[m][mslot[m]] = {} /\ \A s \in Slot \ {mslot[m]} : output'[m][s] = output[m][s]
    BY <1>9 DEF MapperSendBlock, TypeOK, OutputEmptied
  <2>3. ReaderInv'
    BY <1>9 DEF MapperSendBlock, ReaderInv, reader
  <2>4. RequestInv'
    BY <1>9, <2>1 DEF MapperSendBlock, RequestInv
  <2>5. FlushInv'
    <3>1. ASSUME NEW n \in Mapper \ {m} PROVE FlushInv!(n)'
      BY <1>9, <2>1 DEF MapperSendBlock, FlushInv, reader
    <3>2. mslot[m] \in Slot
      BY DEF TypeOK
    <3>3. meof[m] => \A s \in Slot : s < mslot'[m] \/ mpc'[m] = "eof" => output'[m][s] = {}
      BY <2>1, <2>2, <3>2 DEF FlushInv, Slot, LastSlot
    <3>4. FlushInv!(m)'
      BY <1>9, <2>1, <3>3 DEF MapperSendBlock, FlushInv, reader
    <3>. QED BY <3>1, <3>4 DEF FlushInv
  <2>. QED BY <2>3, <2>4, <2>5
<1>10. ASSUME NEW m \in Mapper, MapperSendEof(m) PROVE ControlInv'
  <2>1. mpc[m] = "eof" /\ mpc'[m] = "done" /\ \A n \in Mapper \ {m} : mpc'[n] = mpc[n]
    BY <1>10 DEF MapperSendEof, TypeOK
  <2>. QED BY <1>10, <2>1 DEF MapperSendEof, ReaderInv, RequestInv, FlushInv, reader
<1>11. ASSUME NEW m \in Mapper, WriterRecvKey(m) \/ WriterRecvBlock(m) PROVE ControlInv'
  <2>1. UNCHANGED <<toReader, toMapper, reader, mapper>>
    BY <1>11 DEF WriterRecvKey, WriterRecvBlock
  <2>. QED BY <2>1 DEF ReaderInv, RequestInv, FlushInv, reader, mapper
<1>12. ASSUME WriterClose \/ UNCHANGED vars PROVE ControlInv'
  BY <1>12 DEF WriterClose, vars, ReaderInv, RequestInv, FlushInv, chans, reader, mapper
<1>. QED
  BY <1>1, <1>2, <1>3, <1>4, <1>5, <1>6, <1>7, <1>8, <1>9, <1>10, <1>11, <1>12
     DEF Next, ReaderNext, MapperNext, WriterNext, Finalized

-----------------------------------------------------------------------------
(* The pairs of messages on the way to the writer. *)

OfKey(s) == {i \in Pos : KeyOf[i] = s}

\* Slot numbers and blocks alternate, and a block holds entries of the key
\* announced before it.
LanePairs(c) ==
    \A k \in 1 .. Len(c) :
        /\ c[k].tag \in {"KEY", "HASH_BLOCK", "EOF"}
        /\ c[k].tag # "HASH_BLOCK" => c[k].block = {}
        /\ k > 1 => (c[k].tag = "HASH_BLOCK" <=> c[k - 1].tag = "KEY")
        /\ k > 1 /\ c[k].tag = "HASH_BLOCK" => c[k].block \subseteq OfKey(c[k - 1].slot)

\* A block comes first exactly if the writer waits for one (exp), for slot ws.
LaneFirst(c, exp, ws) ==
    c # <<>> => /\ exp <=> c[1].tag = "HASH_BLOCK"
                /\ exp => c[1].block \subseteq OfKey(ws)

\* An announced block that is not sent yet is the next message of the mapper,
\* whose program counter is pc and whose slot number is slot; EOF is its last.
LaneLast(c, exp, ws, pc, slot) ==
    /\ \A k \in 1 .. Len(c) : c[k].tag = "EOF" => k = Len(c) /\ pc = "done"
    /\ c = <<>> => /\ pc = "block" <=> exp
                   /\ pc = "block" => slot = ws
    /\ c # <<>> => /\ pc = "block" <=> c[Len(c)].tag = "KEY"
                   /\ pc = "block" => slot = c[Len(c)].slot
                   /\ pc = "done" => c[Len(c)].tag = "EOF"

LaneOK(c, exp, ws, pc, slot) ==
    LanePairs(c) /\ LaneFirst(c, exp, ws) /\ LaneLast(c, exp, ws, pc, slot)

(* Announcing a slot number keeps the messages in pairs. *)
LEMMA LaneSendKey ==
  ASSUME NEW c \in Seq(MsgType), NEW exp \in BOOLEAN, NEW ws, NEW slot \in Slot,
         LaneOK(c, exp, ws, "key", slot)
  PROVE  LaneOK(Append(c, Msg("KEY", slot, {})), exp, ws, "block", slot)
<1> DEFINE x == Msg("KEY", slot, {})
           d == Append(c, x)
<1>1. x \in MsgType
  BY MsgTyped DEF Tag
<1>2. x.tag = "KEY" /\ x.slot = slot /\ x.block = {}
  BY MsgFields
<1>3. /\ Len(c) \in Nat /\ (c = <<>> <=> Len(c) = 0) /\ d # <<>>
      /\ Len(d) = Len(c) + 1 /\ d[Len(c) + 1] = x /\ \A k \in 1 .. Len(c) : d[k] = c[k]
  BY <1>1, ChannelEnds
<1> HIDE DEF x, d
<1>4. LanePairs(d)
  BY <1>2, <1>3 DEF LaneOK, LanePairs, LaneLast
<1>5. LaneFirst(d, exp, ws)
  BY <1>2, <1>3 DEF LaneOK, LaneFirst, LaneLast
<1>6. LaneLast(d, exp, ws, "block", slot)
  BY <1>2, <1>3 DEF LaneOK, LaneLast
<1>. QED BY <1>4, <1>5, <1>6 DEF LaneOK, d, x

(* The announced block completes the pair, whatever the mapper does next *)
(* short of announcing another one.                                      *)
LEMMA LaneSendBlock ==
  ASSUME NEW c \in Seq(MsgType), NEW exp \in BOOLEAN, NEW ws, NEW slot \in Slot,
         LaneOK(c, exp, ws, "block", slot),
         NEW block \in SUBSET OfKey(slot), NEW pc \in {"map", "key", "eof"}, NEW next
  PROVE  LaneOK(Append(c, Msg("HASH_BLOCK", 0, block)), exp, ws, pc, next)
<1> DEFINE x == Msg("HASH_BLOCK", 0, block)
           d == Append(c, x)
<1>1. x \in MsgType
  BY MsgTyped, SlotZero DEF Tag, OfKey
<1>2. x.tag = "HASH_BLOCK" /\ x.block = block
  BY MsgFields
<1>3. /\ Len(c) \in Nat /\ (c = <<>> <=> Len(c) = 0) /\ d # <<>>
      /\ Len(d) = Len(c) + 1 /\ d[Len(c) + 1] = x /\ \A k \in 1 .. Len(c) : d[k] = c[k]
  BY <1>1, ChannelEnds
<1> HIDE DEF x, d
<1>4. LanePairs(d)
  BY <1>2, <1>3 DEF LaneOK, LanePairs, LaneLast
<1>5. LaneFirst(d, exp, ws)
  BY <1>2, <1>3 DEF LaneOK, LaneFirst, LaneLast
<1>6. LaneLast(d, exp, ws, pc, next)
  BY <1>2, <1>3 DEF LaneOK, LaneLast
<1>. QED BY <1>4, <1>5, <1>6 DEF LaneOK, d, x

(* EOF is the last message a mapper sends. *)
LEMMA LaneSendEof ==
  ASSUME NEW c \in Seq(MsgType), NEW exp \in BOOLEAN, NEW ws, NEW slot,
         LaneOK(c, exp, ws, "eof", slot)
  PROVE  LaneOK(Append(c, Msg("EOF", 0, {})), exp, ws, "done", slot)
<1> DEFINE x == Msg("EOF", 0, {})
           d == Append(c, x)
<1>1. x \in MsgType
  BY MsgTyped, SlotZero DEF Tag
<1>2. x.tag = "EOF" /\ x.block = {}
  BY MsgFields
<1>3. /\ Len(c) \in Nat /\ (c = <<>> <=> Len(c) = 0) /\ d # <<>>
      /\ Len(d) = Len(c) + 1 /\ d[Len(c) + 1] = x /\ \A k \in 1 .. Len(c) : d[k] = c[k]
  BY <1>1, ChannelEnds
<1> HIDE DEF x, d
<1>4. LanePairs(d)
  BY <1>2, <1>3 DEF LaneOK, LanePairs, LaneLast
<1>5. LaneFirst(d, exp, ws)
  BY <1>2, <1>3 DEF LaneOK, LaneFirst, LaneLast
<1>6. LaneLast(d, exp, ws, "done", slot)
  BY <1>2, <1>3 DEF LaneOK, LaneLast
<1>. QED BY <1>4, <1>5, <1>6 DEF LaneOK, d, x

(* A writer that waits for a slot number finds a slot number or an EOF; it *)
(* waits for that mapper's block after a slot number, and an EOF leaves    *)
(* the channel empty, which nothing else does to a mapper that is done.    *)
LEMMA LaneRecvKey ==
  ASSUME NEW c \in Seq(MsgType), NEW ws, NEW pc, NEW slot,
         LaneOK(c, FALSE, ws, pc, slot), c # <<>>
  PROVE  \/ /\ Head(c).tag = "KEY" /\ (Tail(c) = <<>> => pc # "done")
            /\ LaneOK(Tail(c), TRUE, Head(c).slot, pc, slot)
         \/ /\ Head(c).tag = "EOF" /\ Tail(c) = <<>> /\ pc = "done"
            /\ LaneOK(Tail(c), FALSE, ws, pc, slot)
<1> DEFINE d == Tail(c)
<1>1. /\ Len(c) \in Nat /\ Len(c) # 0
      /\ d \in Seq(MsgType) /\ Len(d) = Len(c) - 1 /\ (d = <<>> <=> Len(c) = 1)
      /\ \A k \in 1 .. Len(c) - 1 : d[k] = c[k + 1]
      /\ Head(c) = c[1]
  BY MsgTyped, SlotZero, ChannelEnds DEF Tag
<1> HIDE DEF d
<1>2. c[1].tag \in {"KEY", "EOF"}
  BY <1>1 DEF LaneOK, LanePairs, LaneFirst
<1>3. LanePairs(d)
  <2> SUFFICES ASSUME NEW k \in 1 .. Len(d) PROVE LanePairs(d)!(k)
    BY DEF LanePairs
  <2>1. k + 1 \in 1 .. Len(c) /\ d[k] = c[k + 1] /\ (k > 1 => d[k - 1] = c[k])
    BY <1>1
  <2>. QED BY <1>1, <2>1 DEF LaneOK, LanePairs
<1>4. CASE c[1].tag = "KEY"
  <2>1. LaneFirst(d, TRUE, c[1].slot)
    BY <1>1, <1>4 DEF LaneOK, LanePairs, LaneFirst
  <2>2. LaneLast(d, TRUE, c[1].slot, pc, slot)
    BY <1>1, <1>4 DEF LaneOK, LaneLast
  <2>3. d = <<>> => pc # "done"
    BY <2>2 DEF LaneLast
  <2>. QED BY <1>1, <1>3, <1>4, <2>1, <2>2, <2>3 DEF LaneOK, d
<1>5. CASE c[1].tag = "EOF"
  <2>1. d = <<>> /\ pc = "done"
    BY <1>1, <1>5 DEF LaneOK, LaneLast
  <2>2. Len(d) = 0
    BY <1>1, <2>1
  <2>3. LaneFirst(d, FALSE, ws)
    BY <2>1 DEF LaneFirst
  <2>4. LaneLast(d, FALSE, ws, pc, slot)
    BY <2>1, <2>2 DEF LaneLast
  <2>. QED BY <1>1, <1>3, <1>5, <2>1, <2>3, <2>4 DEF LaneOK, d
<1>. QED BY <1>2, <1>4, <1>5

(* A writer that waits for a block finds it at once, with entries of the slot *)
(* number received before it.                                                 *)
LEMMA LaneRecvBlock ==
  ASSUME NEW c \in Seq(MsgType), NEW ws, NEW pc, NEW slot,
         LaneOK(c, TRUE, ws, pc, slot),
         NEW k \in 1 .. Len(c), c[k].tag = "HASH_BLOCK",
         \A j \in 1 .. k - 1 : c[j].tag # "HASH_BLOCK"
  PROVE  /\ k = 1 /\ c # <<>> /\ c[1].block \subseteq OfKey(ws)
         /\ SubSeq(c, 1, k - 1) \o SubSeq(c, k + 1, Len(c)) = Tail(c)
         /\ \A wt : LaneOK(Tail(c), FALSE, wt, pc, slot)
         /\ Tail(c) = <<>> => pc # "done"
<1> DEFINE d == Tail(c)
<1>1. c # <<>> /\ Len(c) \in Nat /\ Len(c) # 0
  BY ChannelEmpty
<1>2. k = 1
  BY <1>1 DEF LaneOK, LaneFirst
<1>3. SubSeq(c, 1, k - 1) \o SubSeq(c, k + 1, Len(c)) = Tail(c)
  BY <1>1, <1>2
<1>4. /\ d \in Seq(MsgType) /\ Len(d) = Len(c) - 1 /\ (d = <<>> <=> Len(c) = 1)
      /\ \A n \in 1 .. Len(c) - 1 : d[n] = c[n + 1]
  BY <1>1, MsgTyped, SlotZero, ChannelEnds DEF Tag
<1> HIDE DEF d
<1>5. ASSUME NEW wt PROVE LaneOK(d, FALSE, wt, pc, slot)
  <2>1. LanePairs(d)
    <3> SUFFICES ASSUME NEW n \in 1 .. Len(d) PROVE LanePairs(d)!(n)
      BY DEF LanePairs
    <3>1. n + 1 \in 1 .. Len(c) /\ d[n] = c[n + 1] /\ (n > 1 => d[n - 1] = c[n])
      <4>1. n \in 1 .. Len(c) - 1 /\ n + 1 \in 1 .. Len(c)
        BY <1>1, <1>4
      <4>2. ASSUME n > 1 PROVE n - 1 \in 1 .. Len(c) - 1 /\ (n - 1) + 1 = n
        BY <1>1, <4>1, <4>2
      <4>3. n > 1 => d[n - 1] = c[n]
        BY <1>4, <4>2
      <4>. QED BY <1>4, <4>1, <4>3
    <3>. QED BY <1>1, <3>1 DEF LaneOK, LanePairs
  <2>2. LaneFirst(d, FALSE, wt)
    BY <1>1, <1>2, <1>4 DEF LaneOK, LanePairs, LaneFirst
  <2>3. d # <<>> => d[Len(d)] = c[Len(c)]
    BY <1>1, <1>4
  <2>4. d = <<>> => pc # "block"
    BY <1>1, <1>2, <1>4 DEF LaneOK, LaneLast
  <2>5. \A n \in 1 .. Len(d) : d[n].tag = "EOF" => n = Len(d) /\ pc = "done"
    BY <1>1, <1>4 DEF LaneOK, LaneLast
  <2>6. LaneLast(d, FALSE, wt, pc, slot)
    BY <1>1, <2>3, <2>4, <2>5 DEF LaneOK, LaneLast
  <2>. QED BY <2>1, <2>2, <2>6 DEF LaneOK
<1>6. c[1].block \subseteq OfKey(ws)
  BY <1>1 DEF LaneOK, LaneFirst
<1>7. d = <<>> => pc # "done"
  BY <1>1, <1>2, <1>4 DEF LaneOK, LaneLast
<1>. QED BY <1>1, <1>2, <1>3, <1>5, <1>6, <1>7 DEF d

(* Nothing else a mapper or the writer does matters to the channel. *)
LEMMA LaneFrame ==
  ASSUME NEW c \in Seq(MsgType), NEW exp \in BOOLEAN, NEW ws, NEW pc, NEW slot,
         LaneOK(c, exp, ws, pc, slot), NEW pc2 \in {"map", "recv", "key"}, NEW slot2, NEW ws2
  PROVE  /\ pc \in {"map", "recv", "key"} => LaneOK(c, exp, ws, pc2, slot2)
         /\ ~exp => LaneOK(c, exp, ws2, pc, slot)
  BY ChannelEmpty DEF LaneOK, LaneFirst, LaneLast

\* The writer waits for a block of mapper m.
Expected(m) == wpc = "block" /\ m \in wsrc

\* The channel of mapper m agrees with where the mapper and the writer are.
LaneInv(m) == LaneOK(toWriter[m], Expected(m), wslot, mpc[m], mslot[m])

\* The writer never aborts, and waits for one mapper at a time.
WriterInv == wpc # "aborted" /\ (wpc = "block" => \E w \in Mapper : wsrc = {w})

\* Buffers and dictionaries hold entries of their own slot.
KeyInv ==
    \A s \in Slot : /\ file[s] \subseteq OfKey(s)
                    /\ \A m \in Mapper : output[m][s] \subseteq OfKey(s)

PairInv == WriterInv /\ KeyInv /\ \A m \in Mapper : LaneInv(m)

(* A step that changes neither the writer nor the channels to it keeps the     *)
(* pairs if it leaves each mapper where it is or takes it from hashing on.     *)
LEMMA PairFrame ==
  ASSUME TypeOK, WriterInv, \A n \in Mapper : LaneInv(n), UNCHANGED <<toWriter, wpc, wsrc, wslot>>,
         \A n \in Mapper : \/ mpc'[n] = mpc[n] /\ mslot'[n] = mslot[n]
                           \/ /\ mpc[n] \in {"map", "recv"}
                              /\ mpc'[n] \in {"map", "recv", "key"}
  PROVE  WriterInv' /\ \A n \in Mapper : LaneInv(n)'
<1>1. WriterInv'
  BY DEF WriterInv
<1>2. ASSUME NEW n \in Mapper PROVE LaneInv(n)'
  <2>1. toWriter[n] \in Seq(MsgType) /\ Expected(n) \in BOOLEAN
    BY DEF TypeOK, Expected
  <2>2. LaneOK(toWriter[n], Expected(n), wslot, mpc[n], mslot[n])
    BY DEF LaneInv
  <2>3. LaneOK(toWriter[n], Expected(n), wslot, mpc'[n], mslot'[n])
    BY <2>1, <2>2, LaneFrame
  <2>. QED BY <2>3 DEF LaneInv, Expected
<1>. QED BY <1>1, <1>2

(* No step brings the writer out of step with a mapper's pairs of messages, or *)
(* an entry into a buffer or dictionary of another key.                        *)
LEMMA PairStep ==
  ASSUME TypeOK, TypeOK', ControlInv, PairInv, [Next]_vars
  PROVE  PairInv'
<1> USE SplitterAssumption DEF PairInv
<1>1. ASSUME ReaderNext \/ UNCHANGED vars PROVE PairInv'
  <2>1. UNCHANGED <<toWriter, mapper, writer>>
    BY <1>1 DEF ReaderNext, ReaderFread, ReaderServe, ReaderEof, ReaderDone, vars, chans
  <2>2. KeyInv'
    BY <2>1 DEF KeyInv, mapper, writer
  <2>. QED BY <2>1, <2>2, PairFrame DEF mapper, writer
<1>2. ASSUME NEW m \in Mapper, MapperRequest(m) \/ MapperRecv(m) PROVE PairInv'
  <2>1. UNCHANGED <<toWriter, writer, output>>
    BY <1>2 DEF MapperRequest, MapperRecv
  <2>2. KeyInv'
    BY <2>1 DEF KeyInv, writer
  <2>3. /\ mpc[m] \in {"map", "recv"} /\ mpc'[m] \in {"map", "recv", "key"}
        /\ \A n \in Mapper \ {m} : mpc'[n] = mpc[n] /\ mslot'[n] = mslot[n]
    BY <1>2 DEF MapperRequest, MapperRecv, TypeOK
  <2>. QED BY <2>1, <2>2, <2>3, PairFrame DEF writer
<1>3. ASSUME NEW m \in Mapper, MapperHash(m) PROVE PairInv'
  <2>1. UNCHANGED <<toWriter, writer>>
    BY <1>3 DEF MapperHash, chans
  <2>2. /\ mpc[m] = "map" /\ mpc'[m] \in {"map", "recv", "key"}
        /\ \A n \in Mapper \ {m} : mpc'[n] = mpc[n] /\ mslot'[n] = mslot[n]
    BY <1>3 DEF MapperHash, TypeOK
  <2>3. KeyInv'
    <3>1. PICK i \in mblock[m] :
            \/ output' = output
            \/ /\ KeyOf[i] # Invalid
               /\ output' = [output EXCEPT ![m][KeyOf[i]] = output[m][KeyOf[i]] \cup {i}]
      BY <1>3 DEF MapperHash
    <3>2. i \in Pos
      BY DEF TypeOK
    <3>3. CASE output' = output
      BY <2>1, <3>3 DEF KeyInv, writer
    <3>4. CASE /\ KeyOf[i] # Invalid
               /\ output' = [output EXCEPT ![m][KeyOf[i]] = output[m][KeyOf[i]] \cup {i}]
      <4>1. KeyOf[i] \in Slot /\ i \in OfKey(KeyOf[i])
        BY <3>2, <3>4 DEF OfKey
      <4>2. ASSUME NEW n \in Mapper, NEW s \in Slot
            PROVE  output'[n][s] = IF n = m /\ s = KeyOf[i] THEN output[m][s] \cup {i} ELSE output[n][s]
        BY <3>4, <4>1 DEF TypeOK
      <4>3. ASSUME NEW n \in Mapper, NEW s \in Slot PROVE output'[n][s] \subseteq OfKey(s)
        <5>1. output[n][s] \subseteq OfKey(s)
          BY DEF KeyInv
        <5>2. CASE n = m /\ s = KeyOf[i]
          <6>1. output'[n][s] = output[n][s] \cup {i} /\ i \in OfKey(s)
            BY <4>1, <4>2, <5>2
          <6>. QED BY <5>1, <6>1
        <5>3. CASE ~(n = m /\ s = KeyOf[i])
          BY <4>2, <5>1, <5>3
        <5>. QED BY <5>2, <5>3
      <4>4. \A s \in Slot : file'[s] \subseteq OfKey(s)
        BY <2>1 DEF KeyInv, writer
      <4>. QED BY <4>3, <4>4 DEF KeyInv
    <3>. QED BY <3>1, <3>3, <3>4
  <2>. QED BY <2>1, <2>2, <2>3, PairFrame DEF writer
<1>4. ASSUME NEW m \in Mapper, MapperSendKey(m) PROVE PairInv'
  <2>1. UNCHANGED <<writer, output, mslot>>
    BY <1>4 DEF MapperSendKey
  <2>2. /\ mpc[m] = "key" /\ mpc'[m] = "block"
        /\ toWriter'[m] = Append(toWriter[m], Msg("KEY", mslot[m], {}))
        /\ \A n \in Mapper \ {m} : mpc'[n] = mpc[n] /\ toWriter'[n] = toWriter[n]
    BY <1>4 DEF MapperSendKey, TypeOK, Put
  <2>3. toWriter[m] \in Seq(MsgType) /\ mslot[m] \in Slot /\ Expected(m) \in BOOLEAN
    BY DEF TypeOK, Expected
  <2>4. LaneOK(toWriter'[m], Expected(m), wslot, "block", mslot[m])
    BY <2>2, <2>3, LaneSendKey DEF LaneInv
  <2>5. \A n \in Mapper : LaneInv(n)'
    BY <2>1, <2>2, <2>4 DEF LaneInv, Expected, writer
  <2>. QED BY <2>1, <2>5 DEF WriterInv, KeyInv, writer
<1>5. ASSUME NEW m \in Mapper, MapperSendBlock(m) PROVE PairInv'
  <2>1. UNCHANGED writer
    BY <1>5 DEF MapperSendBlock
  <2>2. /\ mpc[m] = "block" /\ mpc'[m] \in {"map", "key", "eof"}
        /\ toWriter'[m] = Append(toWriter[m], Msg("HASH_BLOCK", 0, output[m][mslot[m]]))
        /\ \A n \in Mapper \ {m} : /\ mpc'[n] = mpc[n] /\ mslot'[n] = mslot[n]
                                   /\ toWriter'[n] = toWriter[n]
    BY <1>5 DEF MapperSendBlock, TypeOK, Put
  <2>3. toWriter[m] \in Seq(MsgType) /\ mslot[m] \in Slot /\ Expected(m) \in BOOLEAN
    BY DEF TypeOK, Expected
  <2>4. output[m][mslot[m]] \in SUBSET OfKey(mslot[m])
    BY <2>3 DEF KeyInv
  <2>5. LaneOK(toWriter'[m], Expected(m), wslot, mpc'[m], mslot'[m])
    BY <2>2, <2>3, <2>4, LaneSendBlock DEF LaneInv
  <2>6. \A n \in Mapper : LaneInv(n)'
    BY <2>1, <2>2, <2>5 DEF LaneInv, Expected, writer
  <2>7. \A n \in Mapper, s \in Slot : output'[n][s] \subseteq output[n][s]
    BY <1>5 DEF MapperSendBlock, OutputEmptied, TypeOK
  <2>8. KeyInv'
    BY <2>1, <2>7 DEF KeyInv, writer
  <2>. QED BY <2>1, <2>6, <2>8 DEF WriterInv, writer
<1>6. ASSUME NEW m \in Mapper, MapperSendEof(m) PROVE PairInv'
  <2>1. UNCHANGED <<writer, output, mslot>>
    BY <1>6 DEF MapperSendEof
  <2>2. /\ mpc[m] = "eof" /\ mpc'[m] = "done"
        /\ toWriter'[m] = Append(toWriter[m], Msg("EOF", 0, {}))
        /\ \A n \in Mapper \ {m} : mpc'[n] = mpc[n] /\ toWriter'[n] = toWriter[n]
    BY <1>6 DEF MapperSendEof, TypeOK, Put
  <2>3. toWriter[m] \in Seq(MsgType) /\ mslot[m] \in Slot /\ Expected(m) \in BOOLEAN
    BY DEF TypeOK, Expected
  <2>4. LaneOK(toWriter'[m], Expected(m), wslot, "done", mslot[m])
    BY <2>2, <2>3, LaneSendEof DEF LaneInv
  <2>5. \A n \in Mapper : LaneInv(n)'
    BY <2>1, <2>2, <2>4 DEF LaneInv, Expected, writer
  <2>. QED BY <2>1, <2>5 DEF WriterInv, KeyInv, writer
<1>7. ASSUME NEW m \in Mapper, WriterRecvKey(m) PROVE PairInv'
  <2> DEFINE msg == Head(toWriter[m])
  <2>1. UNCHANGED <<mapper, file>> /\ wpc = "key" /\ \A n \in Mapper : Expected(n) = FALSE
    BY <1>7 DEF WriterRecvKey, Expected
  <2>2. /\ toWriter[m] \in Seq(MsgType) /\ toWriter[m] # <<>> /\ toWriter'[m] = Tail(toWriter[m])
        /\ \A n \in Mapper \ {m} : toWriter'[n] = toWriter[n]
    BY <1>7 DEF WriterRecvKey, Get, TypeOK
  <2>3. \/ /\ msg.tag = "KEY" /\ LaneOK(toWriter'[m], TRUE, msg.slot, mpc[m], mslot[m])
        \/ /\ msg.tag = "EOF" /\ LaneOK(toWriter'[m], FALSE, wslot, mpc[m], mslot[m])
    <3>1. LaneOK(toWriter[m], FALSE, wslot, mpc[m], mslot[m])
      <4>1. LaneOK(toWriter[m], Expected(m), wslot, mpc[m], mslot[m]) /\ Expected(m) = FALSE
        BY <2>1 DEF LaneInv
      <4>. QED BY <4>1, Zenon
    <3>2. \/ msg.tag = "KEY" /\ LaneOK(Tail(toWriter[m]), TRUE, msg.slot, mpc[m], mslot[m])
          \/ msg.tag = "EOF" /\ LaneOK(Tail(toWriter[m]), FALSE, wslot, mpc[m], mslot[m])
      BY <2>2, <3>1, LaneRecvKey
    <3>. QED BY <2>2, <3>2
  <2>4. KeyInv'
    BY <2>1 DEF KeyInv, mapper
  <2>5. CASE msg.tag = "KEY"
    <3>1. wpc' = "block" /\ wsrc' = {m} /\ wslot' = msg.slot
      BY <1>7, <2>5 DEF WriterRecvKey
    <3>2. LaneInv(m)'
      BY <2>1, <2>3, <2>5, <3>1 DEF LaneInv, Expected, mapper
    <3>3. ASSUME NEW n \in Mapper \ {m} PROVE LaneInv(n)'
      <4>1. LaneOK(toWriter[n], FALSE, wslot, mpc[n], mslot[n]) /\ toWriter[n] \in Seq(MsgType)
        <5>1. LaneOK(toWriter[n], Expected(n), wslot, mpc[n], mslot[n]) /\ Expected(n) = FALSE
          BY <2>1 DEF LaneInv
        <5>2. LaneOK(toWriter[n], FALSE, wslot, mpc[n], mslot[n])
          BY <5>1, Zenon
        <5>. QED BY <5>2 DEF TypeOK
      <4>2. LaneOK(toWriter[n], FALSE, wslot', mpc[n], mslot[n])
        BY <4>1, LaneFrame
      <4>3. Expected(n)' = FALSE
        BY <3>1 DEF Expected
      <4>. QED BY <2>1, <2>2, <4>2, <4>3 DEF LaneInv, mapper
    <3>. QED BY <2>4, <3>1, <3>2, <3>3 DEF WriterInv
  <2>6. CASE msg.tag = "EOF"
    <3>1. UNCHANGED <<wpc, wsrc, wslot>>
      BY <1>7, <2>6 DEF WriterRecvKey
    <3>2. \A n \in Mapper : Expected(n)' = FALSE
      BY <2>1, <3>1 DEF Expected
    <3>3. \A n \in Mapper : LaneInv(n)'
      BY <2>1, <2>2, <2>3, <2>6, <3>1, <3>2 DEF LaneInv, mapper
    <3>. QED BY <2>4, <3>1, <3>3 DEF WriterInv
  <2>. QED BY <2>3, <2>5, <2>6
<1>8. ASSUME NEW m \in Mapper, WriterRecvBlock(m) PROVE PairInv'
  <2>1. UNCHANGED <<mapper, wslot>> /\ wpc = "block" /\ m \in wsrc /\ wpc' = "key" /\ wsrc' = {}
    BY <1>8 DEF WriterRecvBlock, FromKeySource
  <2>2. Expected(m) = TRUE /\ \A n \in Mapper : Expected(n)' = FALSE /\ (n # m => Expected(n) = FALSE)
    BY <2>1 DEF Expected, WriterInv
  <2>3. PICK k \in 1 .. Len(toWriter[m]) :
          /\ toWriter[m][k].tag = "HASH_BLOCK"
          /\ \A j \in 1 .. k - 1 : toWriter[m][j].tag # "HASH_BLOCK"
          /\ file' = [file EXCEPT ![wslot] = @ \cup toWriter[m][k].block]
          /\ toWriter' = [toWriter EXCEPT ![m] = SubSeq(@, 1, k - 1) \o SubSeq(@, k + 1, Len(@))]
    BY <1>8 DEF WriterRecvBlock
  <2>4. toWriter[m] \in Seq(MsgType) /\ LaneOK(toWriter[m], TRUE, wslot, mpc[m], mslot[m])
    BY <2>2 DEF TypeOK, LaneInv
  <2>5. /\ k = 1 /\ toWriter[m][1].block \subseteq OfKey(wslot)
        /\ SubSeq(toWriter[m], 1, k - 1) \o SubSeq(toWriter[m], k + 1, Len(toWriter[m])) = Tail(toWriter[m])
        /\ LaneOK(Tail(toWriter[m]), FALSE, wslot, mpc[m], mslot[m])
    BY <2>3, <2>4, LaneRecvBlock
  <2>6. toWriter'[m] = Tail(toWriter[m]) /\ \A n \in Mapper \ {m} : toWriter'[n] = toWriter[n]
    BY <2>3, <2>5 DEF TypeOK
  <2>7. \A n \in Mapper : LaneInv(n)'
    BY <2>1, <2>2, <2>5, <2>6 DEF LaneInv, mapper
  <2>8. KeyInv'
    BY <2>1, <2>3, <2>5 DEF KeyInv, mapper, TypeOK
  <2>. QED BY <2>1, <2>7, <2>8 DEF WriterInv
<1>9. ASSUME WriterClose PROVE PairInv'
  <2>1. UNCHANGED <<toWriter, mapper, wslot, file>> /\ wpc = "key" /\ wpc' = "done"
    BY <1>9 DEF WriterClose, chans
  <2>2. \A n \in Mapper : LaneInv(n)'
    BY <2>1 DEF LaneInv, Expected, mapper
  <2>. QED BY <2>1, <2>2 DEF WriterInv, KeyInv, mapper
<1>. QED
  BY <1>1, <1>2, <1>3, <1>4, <1>5, <1>6, <1>7, <1>8, <1>9
     DEF Next, MapperNext, WriterNext, Finalized

-----------------------------------------------------------------------------
(* The count of EOFs and the room in the buffers. *)

\* The mappers whose EOF the writer has received.
Through == {m \in Mapper : mpc[m] = "done" /\ toWriter[m] = <<>>}

CountInv == n_eof = Cardinality(Through) /\ (wpc = "done" => AllEof)

\* Only the buffer that is about to be flushed may be full.
BufferInv ==
    \A m \in Mapper, s \in Slot :
        \/ Cardinality(output[m][s]) < WRITER_BUFFER_SIZE
        \/ /\ Cardinality(output[m][s]) = WRITER_BUFFER_SIZE
           /\ mpc[m] \in {"key", "block"} /\ mslot[m] = s

(* The mappers are finitely many, and so are those that are through. *)
LEMMA ThroughFinite == IsFiniteSet(Through) /\ Cardinality(Through) \in Nat
  BY SplitterAssumption, FS_Subset, FS_CardinalityType DEF Through

(* The writer's counter is the number of mappers whose EOF it has received. *)
LEMMA CountStep ==
  ASSUME TypeOK, TypeOK', PairInv, CountInv, [Next]_vars
  PROVE  CountInv'
<1> USE SplitterAssumption
<1>1. ASSUME UNCHANGED <<toWriter, n_eof, wpc>>,
             \A m \in Mapper : mpc'[m] = "done" <=> mpc[m] = "done"
      PROVE  CountInv'
  <2>1. Through' = Through
    BY <1>1 DEF Through
  <2>. QED BY <1>1, <2>1 DEF CountInv, AllEof
<1>2. ASSUME ReaderNext \/ UNCHANGED vars PROVE CountInv'
  <2>1. UNCHANGED <<toWriter, mpc, n_eof, wpc>>
    BY <1>2 DEF ReaderNext, ReaderFread, ReaderServe, ReaderEof, ReaderDone, vars, chans, mapper, writer
  <2>. QED BY <1>1, <2>1
<1>3. ASSUME NEW m \in Mapper, MapperRequest(m) \/ MapperRecv(m) \/ MapperHash(m) PROVE CountInv'
  <2>1. UNCHANGED <<toWriter, n_eof, wpc>>
    BY <1>3 DEF MapperRequest, MapperRecv, MapperHash, chans, writer
  <2>2. /\ mpc[m] \in {"map", "recv"} /\ mpc'[m] \in {"map", "recv", "key"}
        /\ \A n \in Mapper \ {m} : mpc'[n] = mpc[n]
    BY <1>3 DEF MapperRequest, MapperRecv, MapperHash, TypeOK
  <2>. QED BY <1>1, <2>1, <2>2
<1>4. ASSUME NEW m \in Mapper, MapperSendKey(m) \/ MapperSendBlock(m) \/ MapperSendEof(m) PROVE CountInv'
  <2>1. UNCHANGED <<n_eof, wpc>>
    BY <1>4 DEF MapperSendKey, MapperSendBlock, MapperSendEof, writer
  <2>2. mpc[m] # "done" /\ \A n \in Mapper \ {m} : mpc'[n] = mpc[n] /\ toWriter'[n] = toWriter[n]
    BY <1>4 DEF MapperSendKey, MapperSendBlock, MapperSendEof, Put, TypeOK
  <2>3. PICK x \in MsgType : toWriter' = Put(toWriter, m, x)
    <3>1. /\ Msg("KEY", mslot[m], {}) \in MsgType
          /\ Msg("HASH_BLOCK", 0, output[m][mslot[m]]) \in MsgType
          /\ Msg("EOF", 0, {}) \in MsgType
      BY MsgTyped, SlotZero DEF Tag, TypeOK
    <3>. QED BY <1>4, <3>1 DEF MapperSendKey, MapperSendBlock, MapperSendEof
  <2>4. toWriter'[m] # <<>>
    <3>1. toWriter'[m] = Append(toWriter[m], x) /\ toWriter[m] \in Seq(MsgType)
      BY <2>3 DEF Put, TypeOK
    <3>. QED BY <3>1, ChannelEnds
  <2>5. Through' = Through
    BY <2>2, <2>4 DEF Through
  <2>. QED BY <2>1, <2>5 DEF CountInv, AllEof
<1>5. ASSUME NEW m \in Mapper, WriterRecvKey(m) PROVE CountInv'
  <2> DEFINE msg == Head(toWriter[m])
  <2>1. mpc' = mpc /\ wpc = "key" /\ wpc' # "done" /\ Expected(m) = FALSE
    BY <1>5 DEF WriterRecvKey, Expected, mapper
  <2>2. /\ toWriter[m] \in Seq(MsgType) /\ toWriter[m] # <<>> /\ toWriter'[m] = Tail(toWriter[m])
        /\ \A n \in Mapper \ {m} : toWriter'[n] = toWriter[n]
    BY <1>5 DEF WriterRecvKey, Get, TypeOK
  <2>3. \/ msg.tag = "KEY" /\ (Tail(toWriter[m]) = <<>> => mpc[m] # "done")
        \/ msg.tag = "EOF" /\ Tail(toWriter[m]) = <<>> /\ mpc[m] = "done"
    <3>1. LaneOK(toWriter[m], Expected(m), wslot, mpc[m], mslot[m]) /\ Expected(m) = FALSE
      BY <2>1 DEF PairInv, LaneInv
    <3>2. LaneOK(toWriter[m], FALSE, wslot, mpc[m], mslot[m])
      BY <3>1, Zenon
    <3>. QED BY <2>2, <3>2, LaneRecvKey
  <2>4. CASE msg.tag = "KEY"
    <3>1. n_eof' = n_eof
      BY <1>5, <2>4 DEF WriterRecvKey
    <3>2. Through' = Through
      BY <2>1, <2>2, <2>3, <2>4 DEF Through
    <3>. QED BY <2>1, <3>1, <3>2 DEF CountInv
  <2>5. CASE msg.tag = "EOF"
    <3>1. n_eof' = n_eof + 1
      BY <1>5, <2>5 DEF WriterRecvKey
    <3>2. m \notin Through /\ Through' = Through \cup {m}
      BY <2>1, <2>2, <2>3, <2>5 DEF Through
    <3>3. Cardinality(Through') = Cardinality(Through) + 1
      BY <3>2, ThroughFinite, FS_AddElement
    <3>. QED BY <2>1, <3>1, <3>3 DEF CountInv
  <2>. QED BY <2>3, <2>4, <2>5
<1>6. ASSUME NEW m \in Mapper, WriterRecvBlock(m) PROVE CountInv'
  <2>1. mpc' = mpc /\ n_eof' = n_eof /\ wpc' = "key" /\ Expected(m) = TRUE
    BY <1>6 DEF WriterRecvBlock, FromKeySource, Expected, mapper
  <2>2. PICK k \in 1 .. Len(toWriter[m]) :
          /\ toWriter[m][k].tag = "HASH_BLOCK"
          /\ \A j \in 1 .. k - 1 : toWriter[m][j].tag # "HASH_BLOCK"
          /\ toWriter' = [toWriter EXCEPT ![m] = SubSeq(@, 1, k - 1) \o SubSeq(@, k + 1, Len(@))]
    BY <1>6 DEF WriterRecvBlock
  <2>3. toWriter[m] \in Seq(MsgType) /\ LaneOK(toWriter[m], TRUE, wslot, mpc[m], mslot[m])
    BY <2>1 DEF TypeOK, PairInv, LaneInv
  <2>4. /\ SubSeq(toWriter[m], 1, k - 1) \o SubSeq(toWriter[m], k + 1, Len(toWriter[m])) = Tail(toWriter[m])
        /\ toWriter[m] # <<>> /\ (Tail(toWriter[m]) = <<>> => mpc[m] # "done")
    BY <2>2, <2>3, LaneRecvBlock
  <2>5. toWriter'[m] = Tail(toWriter[m]) /\ \A n \in Mapper \ {m} : toWriter'[n] = toWriter[n]
    BY <2>2, <2>4 DEF TypeOK
  <2>6. Through' = Through
    BY <2>1, <2>4, <2>5 DEF Through
  <2>. QED BY <2>1, <2>6 DEF CountInv
<1>7. ASSUME WriterClose PROVE CountInv'
  <2>1. UNCHANGED <<toWriter, mpc, n_eof>> /\ AllEof
    BY <1>7 DEF WriterClose, chans, mapper
  <2>2. Through' = Through
    BY <2>1 DEF Through
  <2>. QED BY <2>1, <2>2 DEF CountInv, AllEof
<1>. QED
  BY <1>2, <1>3, <1>4, <1>5, <1>6, <1>7 DEF Next, MapperNext, WriterNext, Finalized

(* The entries of a buffer are finitely many, and one more adds at most one. *)
LEMMA BufferCount ==
  ASSUME NEW buf \in SUBSET Pos, NEW i \in Pos
  PROVE  /\ IsFiniteSet(buf) /\ Cardinality(buf) \in Nat
         /\ Cardinality(buf \cup {i}) \in Nat
         /\ Cardinality(buf \cup {i}) <= Cardinality(buf) + 1
<1>1. IsFiniteSet(Pos)
  BY SplitterAssumption, FS_Interval DEF Pos
<1>2. IsFiniteSet(buf) /\ IsFiniteSet(buf \cup {i})
  BY <1>1, FS_Subset
<1>. QED BY <1>2, FS_CardinalityType, FS_AddElement

(* A buffer that becomes full is flushed before the mapper hashes on. *)
LEMMA BufferStep ==
  ASSUME TypeOK, TypeOK', BufferInv, [Next]_vars
  PROVE  BufferInv'
<1> USE SplitterAssumption
<1>1. ASSUME UNCHANGED <<mpc, mslot, output>> PROVE BufferInv'
  BY <1>1 DEF BufferInv
<1>2. ASSUME ReaderNext \/ UNCHANGED vars \/ WriterNext PROVE BufferInv'
  <2>1. UNCHANGED <<mpc, mslot, output>>
    BY <1>2 DEF ReaderNext, ReaderFread, ReaderServe, ReaderEof, ReaderDone, vars, mapper,
                WriterNext, WriterRecvKey, WriterRecvBlock, WriterClose
  <2>. QED BY <1>1, <2>1
<1>3. ASSUME NEW m \in Mapper, MapperRequest(m) \/ MapperRecv(m) \/ MapperSendEof(m) PROVE BufferInv'
  <2>1. /\ output' = output /\ mpc[m] \notin {"key", "block"}
        /\ \A n \in Mapper \ {m} : mpc'[n] = mpc[n] /\ mslot'[n] = mslot[n]
    BY <1>3 DEF MapperRequest, MapperRecv, MapperSendEof, TypeOK
  <2>. QED BY <2>1 DEF BufferInv
<1>4. ASSUME NEW m \in Mapper, MapperHash(m) PROVE BufferInv'
  <2>1. PICK i \in mblock[m] :
          \/ UNCHANGED <<mpc, output, mslot>>
          \/ /\ KeyOf[i] # Invalid
             /\ LET buf == output[m][KeyOf[i]] \cup {i}
                IN  /\ output' = [output EXCEPT ![m][KeyOf[i]] = buf]
                    /\ mslot' = [mslot EXCEPT ![m] = KeyOf[i]]
                    /\ mpc' = [mpc EXCEPT ![m] = IF FlushDue(buf) THEN "key" ELSE "map"]
    BY <1>4 DEF MapperHash
  <2>2. i \in Pos /\ mpc[m] = "map"
    BY <1>4 DEF MapperHash, TypeOK
  <2>3. CASE UNCHANGED <<mpc, output, mslot>>
    BY <1>1, <2>3
  <2>4. CASE ~UNCHANGED <<mpc, output, mslot>>
    <3> DEFINE slot == KeyOf[i]
               buf == output[m][slot] \cup {i}
    <3>1. slot \in Slot /\ output[m][slot] \in SUBSET Pos
      BY <2>1, <2>2, <2>4 DEF TypeOK
    <3>2. /\ mpc'[m] = IF FlushDue(buf) THEN "key" ELSE "map"
          /\ mslot'[m] = slot /\ output'[m][slot] = buf
          /\ \A s \in Slot \ {slot} : output'[m][s] = output[m][s]
          /\ \A n \in Mapper \ {m} : /\ mpc'[n] = mpc[n] /\ mslot'[n] = mslot[n]
                                     /\ output'[n] = output[n]
      BY <2>1, <2>4, <3>1 DEF TypeOK
    <3>3. \A s \in Slot : Cardinality(output[m][s]) < WRITER_BUFFER_SIZE
      BY <2>2 DEF BufferInv
    <3>4. Cardinality(buf) \in Nat /\ Cardinality(buf) <= WRITER_BUFFER_SIZE
      BY <2>2, <3>1, <3>3, BufferCount
    <3> HIDE DEF slot, buf
    <3>5. ASSUME NEW s \in Slot PROVE BufferInv!(m, s)'
      BY <3>1, <3>2, <3>3, <3>4, <3>5 DEF FlushDue
    <3>6. ASSUME NEW n \in Mapper \ {m}, NEW s \in Slot PROVE BufferInv!(n, s)'
      BY <3>2 DEF BufferInv
    <3>. QED BY <3>5, <3>6 DEF BufferInv
  <2>. QED BY <2>3, <2>4
<1>5. ASSUME NEW m \in Mapper, MapperSendKey(m) PROVE BufferInv'
  <2>1. /\ UNCHANGED <<output, mslot>> /\ mpc[m] = "key" /\ mpc'[m] = "block"
        /\ \A n \in Mapper \ {m} : mpc'[n] = mpc[n]
    BY <1>5 DEF MapperSendKey, TypeOK
  <2>. QED BY <2>1 DEF BufferInv
<1>6. ASSUME NEW m \in Mapper, MapperSendBlock(m) PROVE BufferInv'
  <2>1. /\ output'[m][mslot[m]] = {} /\ \A s \in Slot \ {mslot[m]} : output'[m][s] = output[m][s]
        /\ \A n \in Mapper \ {m} : mpc'[n] = mpc[n] /\ mslot'[n] = mslot[n] /\ output'[n] = output[n]
    BY <1>6 DEF MapperSendBlock, OutputEmptied, TypeOK
  <2>2. ASSUME NEW s \in Slot PROVE Cardinality(output'[m][s]) < WRITER_BUFFER_SIZE
    <3>1. CASE s = mslot[m]
      <4>1. output'[m][s] = {} /\ Cardinality({}) = 0
        BY <2>1, <3>1, FS_EmptySet
      <4>. QED BY <4>1
    <3>2. CASE s # mslot[m]
      BY <2>1, <3>2 DEF BufferInv
    <3>. QED BY <3>1, <3>2
  <2>. QED BY <2>1, <2>2 DEF BufferInv
<1>. QED
  BY <1>2, <1>3, <1>4, <1>5, <1>6 DEF Next, MapperNext, Finalized

-----------------------------------------------------------------------------
(* The place of an entry. *)

\* The entries that the messages of a channel carry, no two of them the same.
Blocks(c) == UNION {c[k].block : k \in 1 .. Len(c)}
Spread(c) == \A j, k \in 1 .. Len(c) : j # k => c[j].block \cap c[k].block = {}

\* The entries that mapper m has received, or is about to, and not hashed.
ToHash(m) == mblock[m] \cup Blocks(toMapper[m])

Place == {"unread", "reader", "mapper", "output", "writer", "file", "gone"}

\* Entry i is in that place and in no other; at "mapper", "output" and
\* "writer", it is in the hands, the buffers or the channel of mapper m.
IsAt(i, place, m) ==
    /\ place = "unread" <=> rpos < i
    /\ place = "reader" <=> i \in rblock
    /\ \A n \in Mapper :
         /\ place = "mapper" /\ m = n <=> i \in ToHash(n)
         /\ place = "output" /\ m = n <=> \E s \in Slot : i \in output[n][s]
         /\ place = "writer" /\ m = n <=> i \in Blocks(toWriter[n])
    /\ place = "file" <=> \E s \in Slot : i \in file[s]
    /\ place = "gone" => KeyOf[i] = Invalid

\* Every entry is in exactly one place; only an invalid one is gone.
EntryInv ==
    /\ \A m \in Mapper : Spread(toWriter[m])
    /\ \A i \in Pos : \E place \in Place, m \in Mapper : IsAt(i, place, m)

(* The blocks of a channel to which a message is appended. *)
LEMMA BlocksAppend ==
  ASSUME NEW c \in Seq(MsgType), NEW x \in MsgType
  PROVE  /\ Blocks(Append(c, x)) = Blocks(c) \cup x.block
         /\ Spread(c) /\ x.block \cap Blocks(c) = {} => Spread(Append(c, x))
<1> DEFINE d == Append(c, x)
<1>1. /\ Len(c) \in Nat /\ Len(d) = Len(c) + 1 /\ d[Len(c) + 1] = x
      /\ \A k \in 1 .. Len(c) : d[k] = c[k]
  BY ChannelEnds
<1> HIDE DEF d
<1>2. Blocks(d) = Blocks(c) \cup x.block
  <2>1. ASSUME NEW i PROVE i \in Blocks(d) <=> i \in Blocks(c) \/ i \in x.block
    BY <1>1 DEF Blocks
  <2>. QED BY <2>1
<1>3. Spread(c) /\ x.block \cap Blocks(c) = {} => Spread(d)
  BY <1>1 DEF Blocks, Spread
<1>. QED BY <1>2, <1>3 DEF d

(* The blocks of a channel whose first message is taken. *)
LEMMA BlocksTail ==
  ASSUME NEW c \in Seq(MsgType), c # <<>>
  PROVE  /\ Blocks(c) = Head(c).block \cup Blocks(Tail(c))
         /\ Spread(c) => Spread(Tail(c)) /\ Head(c).block \cap Blocks(Tail(c)) = {}
<1> DEFINE d == Tail(c)
<1>1. /\ Len(c) \in Nat /\ Len(c) # 0 /\ Len(d) = Len(c) - 1 /\ Head(c) = c[1]
      /\ \A k \in 1 .. Len(c) - 1 : d[k] = c[k + 1]
  BY MsgTyped, SlotZero, ChannelEnds DEF Tag
<1> HIDE DEF d
<1>2. Blocks(c) = c[1].block \cup Blocks(d)
  <2>1. ASSUME NEW i, i \in Blocks(c) PROVE i \in c[1].block \/ i \in Blocks(d)
    <3>1. PICK k \in 1 .. Len(c) : i \in c[k].block
      BY <2>1 DEF Blocks
    <3>2. CASE k # 1
      <4>1. k - 1 \in 1 .. Len(d) /\ d[k - 1] = c[k]
        BY <1>1, <3>2
      <4>. QED BY <3>1, <4>1 DEF Blocks
    <3>. QED BY <3>1, <3>2
  <2>2. ASSUME NEW i, i \in Blocks(d) PROVE i \in Blocks(c)
    <3>1. PICK k \in 1 .. Len(d) : i \in d[k].block
      BY <2>2 DEF Blocks
    <3>2. k + 1 \in 1 .. Len(c) /\ d[k] = c[k + 1]
      BY <1>1
    <3>. QED BY <3>1, <3>2 DEF Blocks
  <2>3. c[1].block \subseteq Blocks(c)
    BY <1>1 DEF Blocks
  <2>. QED BY <2>1, <2>2, <2>3
<1>3. ASSUME Spread(c) PROVE Spread(d) /\ c[1].block \cap Blocks(d) = {}
  <2>1. ASSUME NEW k \in 1 .. Len(d) PROVE k + 1 \in 2 .. Len(c) /\ d[k] = c[k + 1]
    BY <1>1
  <2>2. ASSUME NEW j \in 1 .. Len(d), NEW k \in 1 .. Len(d), j # k
        PROVE  d[j].block \cap d[k].block = {}
    <3>1. j + 1 \in 1 .. Len(c) /\ k + 1 \in 1 .. Len(c) /\ j + 1 # k + 1
      BY <1>1, <2>2
    <3>2. c[j + 1].block \cap c[k + 1].block = {}
      BY <1>3, <3>1 DEF Spread
    <3>. QED BY <2>1, <3>2
  <2>3. c[1].block \cap Blocks(d) = {}
    BY <1>1, <1>3, <2>1 DEF Spread, Blocks
  <2>. QED BY <2>2, <2>3 DEF Spread
<1>. QED BY <1>1, <1>2, <1>3 DEF d

(* An empty channel carries nothing. *)
LEMMA BlocksEmpty == Blocks(<<>>) = {}
  BY DEF Blocks

(* A step that moves no entry keeps all in their places. *)
LEMMA EntryFrame ==
  ASSUME EntryInv, UNCHANGED <<rpos, rblock, output, file>>,
         \A n \in Mapper : /\ ToHash(n)' = ToHash(n)
                           /\ Blocks(toWriter'[n]) = Blocks(toWriter[n])
                           /\ Spread(toWriter'[n])
  PROVE  EntryInv'
<1>1. ASSUME NEW i \in Pos, NEW place \in Place, NEW m \in Mapper, IsAt(i, place, m)
      PROVE  IsAt(i, place, m)'
  BY <1>1 DEF IsAt
<1>. QED BY <1>1 DEF EntryInv

(* No step loses an entry or brings it to a second place. *)
LEMMA EntryStep ==
  ASSUME TypeOK, TypeOK', ControlInv, PairInv, EntryInv, [Next]_vars
  PROVE  EntryInv'
<1> USE SplitterAssumption
<1>1. ASSUME NEW m \in Mapper PROVE toMapper[m] \in Seq(MsgType) /\ toWriter[m] \in Seq(MsgType)
  BY DEF TypeOK
<1>2. ASSUME NEW m \in Mapper PROVE mpc[m] = "map" => ToHash(m) = mblock[m]
  BY BlocksEmpty DEF ControlInv, RequestInv, ToHash
<1>3. ASSUME ReaderDone \/ WriterClose \/ UNCHANGED vars PROVE EntryInv'
  BY <1>3, EntryFrame
     DEF ReaderDone, WriterClose, vars, chans, reader, mapper, writer, ToHash, EntryInv
<1>4. ASSUME NEW m \in Mapper, MapperRequest(m) PROVE EntryInv'
  BY <1>4, EntryFrame DEF MapperRequest, reader, writer, ToHash, EntryInv
<1>5. ASSUME ReaderFread PROVE EntryInv'
  <2>1. /\ FreadItems \in 0 .. N - rpos /\ rblock = {}
        /\ rblock' = (rpos + 1) .. (rpos + FreadItems) /\ rpos' = rpos + FreadItems
        /\ rpos \in 0 .. N
    BY <1>5 DEF ReaderFread, FreadItems, TypeOK, ControlInv, ReaderInv
  <2>2. UNCHANGED <<toMapper, toWriter, mblock, output, file>>
    BY <1>5 DEF ReaderFread, chans, mapper, writer
  <2>3. ASSUME NEW i \in Pos PROVE \E place \in Place, m \in Mapper : IsAt(i, place, m)'
    <3>1. PICK place \in Place, m \in Mapper : IsAt(i, place, m)
      BY DEF EntryInv
    <3>2. i \in rblock' <=> rpos < i /\ ~(rpos' < i)
      BY <2>1 DEF Pos
    <3>3. rpos' < i => rpos < i
      BY <2>1 DEF Pos
    <3>4. CASE i \in rblock'
      <4>1. IsAt(i, "reader", m)'
        BY <2>1, <2>2, <3>1, <3>2, <3>4 DEF IsAt, ToHash
      <4>. QED BY <4>1 DEF Place
    <3>5. CASE i \notin rblock'
      <4>1. IsAt(i, place, m)'
        BY <2>1, <2>2, <3>1, <3>2, <3>3, <3>5 DEF IsAt, ToHash
      <4>. QED BY <4>1
    <3>. QED BY <3>4, <3>5
  <2>. QED BY <2>2, <2>3 DEF EntryInv
<1>6. ASSUME NEW m \in Mapper, ReaderServe(m) PROVE EntryInv'
  <2>1. /\ UNCHANGED <<rpos, mblock, output, toWriter, file>> /\ rblock' = {}
        /\ toMapper'[m] = Append(toMapper[m], Msg("NONCE_BLOCK", 0, rblock))
        /\ \A n \in Mapper \ {m} : toMapper'[n] = toMapper[n]
    BY <1>6 DEF ReaderServe, Put, mapper, writer, TypeOK
  <2>2. Msg("NONCE_BLOCK", 0, rblock) \in MsgType
    BY MsgTyped, SlotZero DEF Tag, TypeOK
  <2>3. Blocks(toMapper'[m]) = Blocks(toMapper[m]) \cup rblock
    BY <1>1, <2>1, <2>2, BlocksAppend, MsgFields
  <2>4. ToHash(m)' = ToHash(m) \cup rblock /\ \A n \in Mapper \ {m} : ToHash(n)' = ToHash(n)
    BY <2>1, <2>3 DEF ToHash
  <2>5. ASSUME NEW i \in Pos PROVE \E place \in Place, n \in Mapper : IsAt(i, place, n)'
    <3>1. PICK place \in Place, n \in Mapper : IsAt(i, place, n)
      BY DEF EntryInv
    <3>2. CASE i \in rblock
      <4>1. IsAt(i, "mapper", m)'
        BY <2>1, <2>4, <3>1, <3>2 DEF IsAt
      <4>. QED BY <4>1 DEF Place
    <3>3. CASE i \notin rblock
      <4>1. IsAt(i, place, n)'
        BY <2>1, <2>4, <3>1, <3>3 DEF IsAt
      <4>. QED BY <4>1
    <3>. QED BY <3>2, <3>3
  <2>. QED BY <2>1, <2>5 DEF EntryInv
<1>7. ASSUME NEW m \in Mapper, ReaderEof(m) PROVE EntryInv'
  <2>1. /\ UNCHANGED <<rpos, rblock, mblock, output, toWriter, file>>
        /\ toMapper'[m] = Append(toMapper[m], Msg("EOF", 0, {}))
        /\ \A n \in Mapper \ {m} : toMapper'[n] = toMapper[n]
    BY <1>7 DEF ReaderEof, Put, mapper, writer, TypeOK
  <2>2. Msg("EOF", 0, {}) \in MsgType
    BY MsgTyped, SlotZero DEF Tag
  <2>3. Blocks(toMapper'[m]) = Blocks(toMapper[m])
    <3>1. Blocks(toMapper'[m]) = Blocks(toMapper[m]) \cup Msg("EOF", 0, {}).block
      BY <1>1, <2>1, <2>2, BlocksAppend
    <3>. QED BY <3>1, MsgFields
  <2>. QED BY <2>1, <2>3, EntryFrame DEF ToHash, EntryInv
<1>8. ASSUME NEW m \in Mapper, MapperRecv(m) PROVE EntryInv'
  <2>1. /\ UNCHANGED <<rpos, rblock, output, toWriter, file>> /\ mblock[m] = {}
        /\ toMapper[m] # <<>> /\ toMapper'[m] = Tail(toMapper[m])
        /\ mblock'[m] = Head(toMapper[m]).block
        /\ \A n \in Mapper \ {m} : toMapper'[n] = toMapper[n] /\ mblock'[n] = mblock[n]
    BY <1>8 DEF MapperRecv, Get, reader, writer, TypeOK, ControlInv, RequestInv
  <2>2. Blocks(toMapper[m]) = Head(toMapper[m]).block \cup Blocks(toMapper'[m])
    BY <1>1, <2>1, BlocksTail
  <2>3. \A n \in Mapper : ToHash(n)' = ToHash(n)
    BY <2>1, <2>2 DEF ToHash
  <2>. QED BY <2>1, <2>3, EntryFrame DEF EntryInv
<1>9. ASSUME NEW m \in Mapper, MapperHash(m) PROVE EntryInv'
  <2>1. UNCHANGED <<rpos, rblock, toMapper, toWriter, file>> /\ mpc[m] = "map"
    BY <1>9 DEF MapperHash, chans, reader, writer
  <2>2. PICK i \in mblock[m] :
          /\ mblock' = [mblock EXCEPT ![m] = @ \ {i}]
          /\ \/ KeyOf[i] = Invalid /\ output' = output
             \/ /\ KeyOf[i] # Invalid
                /\ output' = [output EXCEPT ![m][KeyOf[i]] = output[m][KeyOf[i]] \cup {i}]
    BY <1>9 DEF MapperHash
  <2>3. i \in Pos
    BY DEF TypeOK
  <2>4. ToHash(m)' = ToHash(m) \ {i} /\ \A n \in Mapper \ {m} : ToHash(n)' = ToHash(n)
    <3>1. mblock'[m] = mblock[m] \ {i} /\ \A n \in Mapper \ {m} : mblock'[n] = mblock[n]
      BY <2>2 DEF TypeOK
    <3>2. Blocks(toMapper[m]) = {}
      BY <2>1, BlocksEmpty DEF ControlInv, RequestInv
    <3>. QED BY <2>1, <3>1, <3>2 DEF ToHash
  <2>5. i \in ToHash(m)
    BY DEF ToHash
  <2>6. /\ \A n \in Mapper, j \in Pos \ {i} :
             (\E s \in Slot : j \in output'[n][s]) <=> (\E s \in Slot : j \in output[n][s])
        /\ \A n \in Mapper \ {m} : output'[n] = output[n]
        /\ KeyOf[i] # Invalid => \E s \in Slot : i \in output'[m][s]
        /\ KeyOf[i] = Invalid => output' = output
    <3>1. CASE KeyOf[i] = Invalid
      BY <2>2, <3>1
    <3>2. CASE KeyOf[i] # Invalid
      <4>1. /\ KeyOf[i] \in Slot
            /\ output' = [output EXCEPT ![m][KeyOf[i]] = output[m][KeyOf[i]] \cup {i}]
        BY <2>2, <2>3, <3>2
      <4>2. ASSUME NEW n \in Mapper, NEW s \in Slot
            PROVE  output'[n][s] = IF n = m /\ s = KeyOf[i] THEN output[m][s] \cup {i} ELSE output[n][s]
        BY <4>1 DEF TypeOK
      <4>3. ASSUME NEW n \in Mapper, NEW j \in Pos \ {i}, NEW s \in Slot
            PROVE  j \in output'[n][s] <=> j \in output[n][s]
        BY <4>2
      <4>4. \A n \in Mapper \ {m} : output'[n] = output[n]
        BY <2>2, <3>2, <4>1 DEF TypeOK
      <4>5. i \in output'[m][KeyOf[i]]
        BY <4>1, <4>2
      <4>. QED BY <3>2, <4>1, <4>3, <4>4, <4>5
    <3>. QED BY <3>1, <3>2
  <2>7. ASSUME NEW j \in Pos PROVE \E place \in Place, n \in Mapper : IsAt(j, place, n)'
    <3>1. PICK place \in Place, n \in Mapper : IsAt(j, place, n)
      BY DEF EntryInv
    <3>2. CASE j # i
      <4>1. IsAt(j, place, n)'
        BY <2>1, <2>4, <2>6, <3>1, <3>2 DEF IsAt
      <4>. QED BY <4>1
    <3>3. CASE j = i /\ KeyOf[i] # Invalid
      <4>1. IsAt(i, "output", m)'
        BY <2>1, <2>4, <2>5, <2>6, <3>1, <3>3 DEF IsAt
      <4>. QED BY <3>3, <4>1 DEF Place
    <3>4. CASE j = i /\ KeyOf[i] = Invalid
      <4>1. IsAt(i, "gone", m)'
        BY <2>1, <2>4, <2>5, <2>6, <3>1, <3>4 DEF IsAt
      <4>. QED BY <3>4, <4>1 DEF Place
    <3>. QED BY <3>2, <3>3, <3>4
  <2>. QED BY <2>1, <2>7 DEF EntryInv
<1>10. ASSUME NEW m \in Mapper, NEW x \in MsgType, x.block = {}, toWriter' = Put(toWriter, m, x),
              UNCHANGED <<toMapper, reader, mblock, output, file>>
       PROVE  EntryInv'
  <2>1. /\ toWriter'[m] = Append(toWriter[m], x)
        /\ \A n \in Mapper \ {m} : toWriter'[n] = toWriter[n]
    BY <1>10 DEF Put, TypeOK
  <2>2. Blocks(toWriter'[m]) = Blocks(toWriter[m]) /\ Spread(toWriter'[m])
    <3>1. /\ Blocks(Append(toWriter[m], x)) = Blocks(toWriter[m]) \cup x.block
          /\ Spread(Append(toWriter[m], x))
      BY <1>1, <1>10, BlocksAppend DEF EntryInv
    <3>. QED BY <1>10, <2>1, <3>1
  <2>. QED BY <1>10, <2>1, <2>2, EntryFrame DEF ToHash, EntryInv, reader
<1>11. ASSUME NEW m \in Mapper, MapperSendKey(m) PROVE EntryInv'
  <2>1. Msg("KEY", mslot[m], {}) \in MsgType /\ Msg("KEY", mslot[m], {}).block = {}
    BY MsgTyped, MsgFields DEF Tag, TypeOK
  <2>. QED BY <1>10, <1>11, <2>1 DEF MapperSendKey, writer
<1>12. ASSUME NEW m \in Mapper, MapperSendEof(m) PROVE EntryInv'
  <2>1. Msg("EOF", 0, {}) \in MsgType /\ Msg("EOF", 0, {}).block = {}
    BY MsgTyped, MsgFields, SlotZero DEF Tag
  <2>. QED BY <1>10, <1>12, <2>1 DEF MapperSendEof, writer
<1>13. ASSUME NEW m \in Mapper, MapperSendBlock(m) PROVE EntryInv'
  <2> DEFINE block == output[m][mslot[m]]
             x == Msg("HASH_BLOCK", 0, block)
  <2>1. /\ UNCHANGED <<rpos, rblock, toMapper, mblock, file>>
        /\ toWriter'[m] = Append(toWriter[m], x)
        /\ \A n \in Mapper \ {m} : toWriter'[n] = toWriter[n] /\ output'[n] = output[n]
        /\ output'[m][mslot[m]] = {} /\ \A s \in Slot \ {mslot[m]} : output'[m][s] = output[m][s]
        /\ mslot[m] \in Slot
    BY <1>13 DEF MapperSendBlock, OutputEmptied, Put, reader, writer, TypeOK
  <2>2. x \in MsgType /\ x.block = block
    BY MsgTyped, MsgFields, SlotZero DEF Tag, TypeOK
  <2> HIDE DEF x
  <2>3. block \cap Blocks(toWriter[m]) = {}
    <3> SUFFICES ASSUME NEW i \in Pos, i \in block PROVE i \notin Blocks(toWriter[m])
      BY <2>1 DEF TypeOK
    <3>1. PICK place \in Place, n \in Mapper : IsAt(i, place, n)
      BY DEF EntryInv
    <3>. QED BY <2>1, <3>1 DEF IsAt
  <2>4. Blocks(toWriter'[m]) = Blocks(toWriter[m]) \cup block /\ Spread(toWriter'[m])
    BY <1>1, <2>1, <2>2, <2>3, BlocksAppend DEF EntryInv
  <2>5. ASSUME NEW i \in block, NEW s \in Slot PROVE i \notin output'[m][s]
    BY <2>1 DEF PairInv, KeyInv, OfKey
  <2>6. ASSUME NEW i \in Pos PROVE \E place \in Place, n \in Mapper : IsAt(i, place, n)'
    <3>1. PICK place \in Place, n \in Mapper : IsAt(i, place, n)
      BY DEF EntryInv
    <3>2. CASE i \in block
      <4>1. place = "output" /\ m = n
        BY <2>1, <3>1, <3>2 DEF IsAt
      <4>2. \A q \in Mapper : i \notin ToHash(q)' /\ ~(\E s \in Slot : i \in output'[q][s])
        BY <2>1, <2>5, <3>1, <3>2, <4>1 DEF IsAt, ToHash
      <4>3. \A q \in Mapper : i \in Blocks(toWriter'[q]) <=> q = m
        BY <2>1, <2>4, <3>1, <3>2, <4>1 DEF IsAt
      <4>4. ~(rpos' < i) /\ i \notin rblock' /\ ~(\E s \in Slot : i \in file'[s])
        BY <2>1, <3>1, <4>1 DEF IsAt
      <4>5. IsAt(i, "writer", m)'
        BY <4>2, <4>3, <4>4 DEF IsAt
      <4>. QED BY <4>5 DEF Place
    <3>3. CASE i \notin block
      <4>1. (\E s \in Slot : i \in output'[m][s]) <=> (\E s \in Slot : i \in output[m][s])
        BY <2>1, <3>3
      <4>2. IsAt(i, place, n)'
        BY <2>1, <2>4, <3>1, <3>3, <4>1 DEF IsAt, ToHash
      <4>. QED BY <4>2
    <3>. QED BY <3>2, <3>3
  <2>. QED BY <2>1, <2>4, <2>6 DEF EntryInv
<1>14. ASSUME NEW m \in Mapper, WriterRecvKey(m) PROVE EntryInv'
  <2>1. /\ UNCHANGED <<rpos, rblock, toMapper, mblock, output, file>>
        /\ toWriter[m] # <<>> /\ toWriter'[m] = Tail(toWriter[m])
        /\ \A n \in Mapper \ {m} : toWriter'[n] = toWriter[n]
        /\ Expected(m) = FALSE
    BY <1>14 DEF WriterRecvKey, Expected, Get, reader, mapper, TypeOK
  <2>2. Head(toWriter[m]).block = {}
    <3>1. LaneFirst(toWriter[m], Expected(m), wslot) /\ LanePairs(toWriter[m])
      BY DEF PairInv, LaneInv, LaneOK
    <3>2. toWriter[m][1].tag # "HASH_BLOCK" /\ 1 \in 1 .. Len(toWriter[m])
      BY <1>1, <2>1, <3>1, ChannelEmpty DEF LaneFirst
    <3>. QED BY <1>1, <2>1, <3>1, <3>2 DEF LanePairs
  <2>3. Blocks(toWriter'[m]) = Blocks(toWriter[m]) /\ Spread(toWriter'[m])
    <3>1. /\ Blocks(toWriter[m]) = Head(toWriter[m]).block \cup Blocks(Tail(toWriter[m]))
          /\ Spread(Tail(toWriter[m]))
      BY <1>1, <2>1, BlocksTail DEF EntryInv
    <3>. QED BY <2>1, <2>2, <3>1
  <2>. QED BY <2>1, <2>3, EntryFrame DEF ToHash, EntryInv
<1>15. ASSUME NEW m \in Mapper, WriterRecvBlock(m) PROVE EntryInv'
  <2>1. UNCHANGED <<rpos, rblock, toMapper, mblock, output>> /\ Expected(m) = TRUE
    BY <1>15 DEF WriterRecvBlock, FromKeySource, Expected, reader, mapper
  <2>2. PICK k \in 1 .. Len(toWriter[m]) :
          /\ toWriter[m][k].tag = "HASH_BLOCK"
          /\ \A j \in 1 .. k - 1 : toWriter[m][j].tag # "HASH_BLOCK"
          /\ file' = [file EXCEPT ![wslot] = @ \cup toWriter[m][k].block]
          /\ toWriter' = [toWriter EXCEPT ![m] = SubSeq(@, 1, k - 1) \o SubSeq(@, k + 1, Len(@))]
    BY <1>15 DEF WriterRecvBlock
  <2>3. LaneOK(toWriter[m], TRUE, wslot, mpc[m], mslot[m])
    BY <2>1 DEF PairInv, LaneInv
  <2>4. /\ SubSeq(toWriter[m], 1, k - 1) \o SubSeq(toWriter[m], k + 1, Len(toWriter[m])) = Tail(toWriter[m])
        /\ toWriter[m] # <<>> /\ k = 1 /\ toWriter[m][k] = Head(toWriter[m])
    <3>1. k = 1 /\ toWriter[m] # <<>>
      BY <1>1, <2>2, <2>3, LaneRecvBlock
    <3>2. SubSeq(toWriter[m], 1, k - 1) \o SubSeq(toWriter[m], k + 1, Len(toWriter[m])) = Tail(toWriter[m])
      BY <1>1, <2>2, <2>3, LaneRecvBlock
    <3>3. Head(toWriter[m]) = toWriter[m][1]
      BY <1>1, <3>1
    <3>. QED BY <3>1, <3>2, <3>3
  <2> DEFINE block == Head(toWriter[m]).block
  <2>5. /\ toWriter'[m] = Tail(toWriter[m]) /\ \A n \in Mapper \ {m} : toWriter'[n] = toWriter[n]
        /\ file'[wslot] = file[wslot] \cup block /\ wslot \in Slot
        /\ \A s \in Slot \ {wslot} : file'[s] = file[s]
    BY <2>2, <2>4 DEF TypeOK
  <2>6. /\ Blocks(toWriter[m]) = block \cup Blocks(toWriter'[m])
        /\ Spread(toWriter'[m]) /\ block \cap Blocks(toWriter'[m]) = {}
    BY <1>1, <2>4, <2>5, BlocksTail DEF EntryInv
  <2> HIDE DEF block
  <2>7. ASSUME NEW i \in Pos PROVE \E place \in Place, n \in Mapper : IsAt(i, place, n)'
    <3>1. PICK place \in Place, n \in Mapper : IsAt(i, place, n)
      BY DEF EntryInv
    <3>2. CASE i \in block
      <4>1. IsAt(i, "file", m)'
        BY <2>1, <2>5, <2>6, <3>1, <3>2 DEF IsAt, ToHash
      <4>. QED BY <4>1 DEF Place
    <3>3. CASE i \notin block
      <4>1. (\E s \in Slot : i \in file'[s]) <=> (\E s \in Slot : i \in file[s])
        BY <2>5, <3>3
      <4>2. IsAt(i, place, n)'
        BY <2>1, <2>5, <2>6, <3>1, <3>3, <4>1 DEF IsAt, ToHash
      <4>. QED BY <4>2
    <3>. QED BY <3>2, <3>3
  <2>. QED BY <2>5, <2>6, <2>7 DEF EntryInv
<1>. QED
  BY <1>3, <1>4, <1>5, <1>6, <1>7, <1>8, <1>9, <1>11, <1>12, <1>13, <1>14, <1>15
     DEF Next, ReaderNext, MapperNext, WriterNext, Finalized

-----------------------------------------------------------------------------
(* What the invariant says about the splitter. *)

IInv == ControlInv /\ PairInv /\ CountInv /\ BufferInv /\ EntryInv

(* A set with at most one element has a cardinality of at most one. *)
LEMMA AtMostOne ==
  ASSUME NEW S, NEW h, S \subseteq {h}
  PROVE  Cardinality(S) <= 1
<1>1. IsFiniteSet({h}) /\ Cardinality({h}) = 1
  BY FS_Singleton
<1>. QED BY <1>1, FS_Subset, FS_CardinalityType

(* An entry that is in one place has one holder, down to the position of the *)
(* message that carries it and the slot of its buffer or dictionary.         *)
LEMMA OneHolder ==
  ASSUME TypeOK, IInv PROVE EntriesConserved
<1> SUFFICES ASSUME NEW i \in Pos
             PROVE  /\ Cardinality(Holders(i)) <= 1
                    /\ KeyOf[i] # Invalid => Holders(i) # {}
  BY DEF EntriesConserved
<1> USE SplitterAssumption DEF IInv
<1>1. PICK place \in Place, m \in Mapper : IsAt(i, place, m)
  BY DEF EntryInv
<1> DEFINE Unread == {"unread" : j \in {rpos} \cap (0 .. i - 1)}
           Reader == {"reader" : j \in rblock \cap {i}}
           Mapped == {<<"mapper", n>> : n \in {q \in Mapper : i \in mblock[q]}}
           Output == {<<"output", p>> : p \in {q \in Mapper \X Slot : i \in output[q[1]][q[2]]}}
           Filed  == {<<"file", s>> : s \in {t \in Slot : i \in file[t]}}
           Sent(n) == {<<"toMapper", n, k>> : k \in {j \in DOMAIN toMapper[n] : i \in toMapper[n][j].block}}
           Wired(n) == {<<"toWriter", n, k>> : k \in {j \in DOMAIN toWriter[n] : i \in toWriter[n][j].block}}
           AllSent == UNION {Sent(n) : n \in Mapper}
           AllWired == UNION {Wired(n) : n \in Mapper}
<1>2. Holders(i) = Unread \cup Reader \cup Mapped \cup Output \cup Filed \cup AllSent \cup AllWired
  BY DEF Holders
<1>3. \A n \in Mapper : /\ toMapper[n] \in Seq(MsgType) /\ toWriter[n] \in Seq(MsgType)
                        /\ DOMAIN toMapper[n] = 1 .. Len(toMapper[n])
                        /\ DOMAIN toWriter[n] = 1 .. Len(toWriter[n])
  BY DEF TypeOK
<1>4. IF place = "unread" THEN Unread = {"unread"} ELSE Unread = {}
  <2>1. place = "unread" <=> rpos < i
    BY <1>1 DEF IsAt
  <2>2. rpos \in 0 .. i - 1 <=> rpos < i
    BY DEF TypeOK, Pos
  <2>. QED BY <2>1, <2>2
<1>5. IF place = "reader" THEN Reader = {"reader"} ELSE Reader = {}
  BY <1>1 DEF IsAt
<1>3a. ASSUME NEW n \in Mapper, i \notin Blocks(toMapper[n]) PROVE Sent(n) = {}
  <2>1. \A j \in DOMAIN toMapper[n] : i \notin toMapper[n][j].block
    BY <1>3, <1>3a DEF Blocks
  <2>. QED BY <2>1
<1>3b. ASSUME NEW n \in Mapper, i \notin Blocks(toWriter[n]) PROVE Wired(n) = {}
  <2>1. \A j \in DOMAIN toWriter[n] : i \notin toWriter[n][j].block
    BY <1>3, <1>3b DEF Blocks
  <2>. QED BY <2>1
<1>6. place # "mapper" => Mapped = {} /\ AllSent = {}
  <2> SUFFICES ASSUME place # "mapper" PROVE Mapped = {} /\ AllSent = {}
    OBVIOUS
  <2>1. \A n \in Mapper : i \notin mblock[n] /\ i \notin Blocks(toMapper[n])
    BY <1>1 DEF IsAt, ToHash
  <2>2. \A n \in Mapper : Sent(n) = {}
    BY <1>3a, <2>1
  <2> HIDE DEF Sent
  <2>. QED BY <2>1, <2>2
<1>7. place = "mapper" => \E h : Mapped \cup AllSent = {h}
  <2> SUFFICES ASSUME place = "mapper" PROVE \E h : Mapped \cup AllSent = {h}
    OBVIOUS
  <2>1. \A n \in Mapper \ {m} : i \notin mblock[n] /\ i \notin Blocks(toMapper[n])
    BY <1>1 DEF IsAt, ToHash
  <2>2. \A n \in Mapper \ {m} : Sent(n) = {}
    BY <1>3a, <2>1
  <2>3. AllSent = Sent(m)
    <3> HIDE DEF Sent
    <3>. QED BY <2>2
  <2>4. CASE i \in mblock[m]
    <3>1. toMapper[m] = <<>>
      BY <2>4 DEF ControlInv, RequestInv
    <3>2. Sent(m) = {}
      BY <1>3a, <3>1, BlocksEmpty
    <3>3. Mapped = {<<"mapper", m>>}
      BY <2>1, <2>4
    <3>. QED BY <2>3, <3>2, <3>3
  <2>5. CASE i \notin mblock[m]
    <3>1. i \in Blocks(toMapper[m])
      BY <1>1, <2>5 DEF IsAt, ToHash
    <3>2. toMapper[m] # <<>>
      BY <3>1, BlocksEmpty
    <3>3. Len(toMapper[m]) = 1
      BY <3>2 DEF ControlInv, RequestInv
    <3>4. DOMAIN toMapper[m] = {1} /\ i \in toMapper[m][1].block
      BY <1>3, <3>1, <3>3 DEF Blocks
    <3>5. Sent(m) = {<<"toMapper", m, 1>>}
      BY <3>4
    <3>6. Mapped = {}
      BY <2>1, <2>5
    <3>. QED BY <2>3, <3>5, <3>6
  <2>. QED BY <2>4, <2>5
<1>8. place # "output" => Output = {}
  BY <1>1 DEF IsAt
<1>9. place = "output" => \E h : Output = {h}
  <2> SUFFICES ASSUME place = "output" PROVE \E h : Output = {h}
    OBVIOUS
  <2>1. PICK s \in Slot : i \in output[m][s]
    BY <1>1 DEF IsAt
  <2>2. \A n \in Mapper, t \in Slot : i \in output[n][t] => n = m
    BY <1>1 DEF IsAt
  <2>3. \A n \in Mapper, t \in Slot : i \in output[n][t] => KeyOf[i] = t
    BY DEF PairInv, KeyInv, OfKey
  <2>4. \A q \in Mapper \X Slot : i \in output[q[1]][q[2]] <=> q = <<m, s>>
    BY <2>1, <2>2, <2>3
  <2>5. Output = {<<"output", <<m, s>>>>}
    BY <2>4
  <2>. QED BY <2>5
<1>10. place # "writer" => AllWired = {}
  <2> SUFFICES ASSUME place # "writer" PROVE AllWired = {}
    OBVIOUS
  <2>1. \A n \in Mapper : Wired(n) = {}
    BY <1>1, <1>3b DEF IsAt
  <2> HIDE DEF Wired
  <2>. QED BY <2>1
<1>11. place = "writer" => \E h : AllWired = {h}
  <2> SUFFICES ASSUME place = "writer" PROVE \E h : AllWired = {h}
    OBVIOUS
  <2>1. i \in Blocks(toWriter[m]) /\ \A n \in Mapper \ {m} : i \notin Blocks(toWriter[n])
    BY <1>1 DEF IsAt
  <2>2. \A n \in Mapper \ {m} : Wired(n) = {}
    BY <1>3b, <2>1
  <2>3. AllWired = Wired(m)
    <3> HIDE DEF Wired
    <3>. QED BY <2>2
  <2>4. PICK k \in 1 .. Len(toWriter[m]) : i \in toWriter[m][k].block
    BY <2>1 DEF Blocks
  <2>5. \A j \in 1 .. Len(toWriter[m]) : i \in toWriter[m][j].block <=> j = k
    BY <2>4 DEF EntryInv, Spread
  <2>6. Wired(m) = {<<"toWriter", m, k>>}
    BY <1>3, <2>4, <2>5
  <2>. QED BY <2>3, <2>6
<1>12. place # "file" => Filed = {}
  BY <1>1 DEF IsAt
<1>13. place = "file" => \E h : Filed = {h}
  <2> SUFFICES ASSUME place = "file" PROVE \E h : Filed = {h}
    OBVIOUS
  <2>1. PICK s \in Slot : i \in file[s]
    BY <1>1 DEF IsAt
  <2>2. \A t \in Slot : i \in file[t] <=> t = s
    BY <2>1 DEF PairInv, KeyInv, OfKey
  <2>3. Filed = {<<"file", s>>}
    BY <2>1, <2>2
  <2>. QED BY <2>3
<1> HIDE DEF Unread, Reader, Mapped, Output, Filed, AllSent, AllWired
<1>14. place \in {"unread", "reader", "mapper", "output", "writer", "file"} => \E h : Holders(i) = {h}
  <2>1. CASE place \in {"unread", "reader"}
    BY <1>2, <1>4, <1>5, <1>6, <1>8, <1>10, <1>12, <2>1
  <2>2. CASE place = "mapper"
    BY <1>2, <1>4, <1>5, <1>7, <1>8, <1>10, <1>12, <2>2
  <2>3. CASE place = "output"
    BY <1>2, <1>4, <1>5, <1>6, <1>9, <1>10, <1>12, <2>3
  <2>4. CASE place = "writer"
    BY <1>2, <1>4, <1>5, <1>6, <1>8, <1>11, <1>12, <2>4
  <2>5. CASE place = "file"
    BY <1>2, <1>4, <1>5, <1>6, <1>8, <1>10, <1>13, <2>5
  <2>. QED BY <2>1, <2>2, <2>3, <2>4, <2>5
<1>15. place = "gone" => Holders(i) = {} /\ KeyOf[i] = Invalid
  BY <1>1, <1>2, <1>4, <1>5, <1>6, <1>8, <1>10, <1>12 DEF IsAt
<1>. QED BY <1>14, <1>15, AtMostOne DEF Place

(* When every EOF is in, no entry is on its way any more. *)
LEMMA AllStored ==
  ASSUME TypeOK, IInv, AllEof
  PROVE  \A s \in Slot : file[s] = OfKey(s)
<1> USE SplitterAssumption, MapperCount DEF IInv
<1>1. Through = Mapper
  <2>1. Cardinality(Through) = Cardinality(Mapper)
    BY DEF CountInv, AllEof, TypeOK, n_mapper
  <2>2. Through \subseteq Mapper
    BY DEF Through
  <2>. QED BY <2>1, <2>2, FS_Subset
<1>2. \A m \in Mapper : mpc[m] = "done" /\ toWriter[m] = <<>>
  BY <1>1 DEF Through
<1>3. \A m \in Mapper : meof[m] /\ mblock[m] = {} /\ toMapper[m] = <<>> /\ rpc \in {"eof", "done"}
  BY <1>2 DEF ControlInv, RequestInv, FlushInv
<1>4. \A m \in Mapper, s \in Slot : output[m][s] = {}
  BY <1>2, <1>3 DEF ControlInv, FlushInv
<1>5. rpos = N /\ rblock = {}
  BY <1>3 DEF ControlInv, ReaderInv
<1>6. ASSUME NEW s \in Slot, NEW i \in OfKey(s) PROVE i \in file[s]
  <2>1. i \in Pos /\ KeyOf[i] = s
    BY DEF OfKey
  <2>2. PICK place \in Place, m \in Mapper : IsAt(i, place, m)
    BY <2>1 DEF EntryInv
  <2>3. place = "file"
    <3>1. place # "unread"
      BY <1>5, <2>1, <2>2 DEF IsAt, Pos
    <3>2. place # "gone"
      BY <2>1, <2>2 DEF IsAt
    <3>3. place \notin {"reader", "mapper", "output", "writer"}
      BY <1>2, <1>3, <1>4, <1>5, <2>2, BlocksEmpty DEF IsAt, ToHash
    <3>. QED BY <3>1, <3>2, <3>3 DEF Place
  <2>4. PICK t \in Slot : i \in file[t]
    BY <2>2, <2>3 DEF IsAt
  <2>5. t = s
    BY <2>1, <2>4 DEF PairInv, KeyInv, OfKey
  <2>. QED BY <2>4, <2>5
<1>. QED BY <1>6 DEF PairInv, KeyInv

(* The invariant implies each part of SplitExact. *)
LEMMA InvImplies ==
  ASSUME TypeOK, IInv PROVE SplitExact
<1>1. EntriesConserved
  BY OneHolder
<1>2. WriterInStep
  BY DEF IInv, PairInv, WriterInv, KeyInv, OfKey, WriterInStep
<1>3. SplitComplete
  <2>1. wpc = "done" => AllEof
    BY DEF IInv, CountInv
  <2>. QED BY <2>1, AllStored DEF SplitComplete, OfKey
<1>4. OutputHasRoom
  BY DEF IInv, BufferInv, OutputHasRoom
<1>. QED BY <1>1, <1>2, <1>3, <1>4 DEF SplitExact

(* The initial state satisfies the invariant, with every entry unread. *)
LEMMA InitInv == Init => IInv
<1> SUFFICES ASSUME Init PROVE IInv
  OBVIOUS
<1> USE SplitterAssumption, MapperCount, SlotZero
<1>1. ControlInv
  BY DEF Init, ControlInv, ReaderInv, RequestInv, FlushInv
<1>2. PairInv
  <2>1. \A m \in Mapper : Expected(m) = FALSE
    BY DEF Init, Expected
  <2>2. ASSUME NEW m \in Mapper PROVE LaneInv(m)
    <3>1. toWriter[m] = <<>> /\ Len(toWriter[m]) = 0 /\ mpc[m] = "map"
      BY DEF Init
    <3>. QED BY <2>1, <3>1 DEF LaneInv, LaneOK, LanePairs, LaneFirst, LaneLast
  <2>. QED BY <2>2 DEF Init, PairInv, WriterInv, KeyInv
<1>3. CountInv
  <2>1. Through = {}
    BY DEF Init, Through
  <2>. QED BY <2>1, FS_EmptySet DEF Init, CountInv
<1>4. BufferInv
  <2>1. \A m \in Mapper, s \in Slot : output[m][s] = {}
    BY DEF Init
  <2>2. Cardinality({}) = 0
    BY FS_EmptySet
  <2>3. ASSUME NEW m \in Mapper, NEW s \in Slot PROVE Cardinality(output[m][s]) = 0
    BY <2>1, <2>2
  <2>. QED BY <2>3 DEF BufferInv
<1>5. EntryInv
  <2>1. /\ rpos = 0 /\ rblock = {}
        /\ \A n \in Mapper : /\ mblock[n] = {} /\ toMapper[n] = <<>> /\ toWriter[n] = <<>>
                             /\ \A s \in Slot : output[n][s] = {}
        /\ \A s \in Slot : file[s] = {}
    BY DEF Init
  <2>2. ASSUME NEW i \in Pos, NEW m \in Mapper PROVE IsAt(i, "unread", m)
    BY <2>1, BlocksEmpty DEF IsAt, ToHash, Pos
  <2>3. \A m \in Mapper : Spread(toWriter[m])
    BY <2>1 DEF Spread
  <2>. QED BY <2>2, <2>3 DEF EntryInv, Place
<1>. QED BY <1>1, <1>2, <1>3, <1>4, <1>5 DEF IInv

(* Every step preserves the invariant. *)
LEMMA StepInv == TypeOK /\ TypeOK' /\ IInv /\ [Next]_vars => IInv'
  BY ControlStep, PairStep, CountStep, BufferStep, EntryStep DEF IInv

(* In every reachable state each valid preimage is in exactly one place, the  *)
(* writer is in step with every mapper's pairs of messages, the dictionaries  *)
(* are complete when they are closed, and the mappers' buffers have room.     *)
THEOREM SplitExactHolds == Spec => []SplitExact
<1>1. TypeOK /\ IInv => SplitExact
  BY InvImplies
<1>. QED BY <1>1, InitInv, StepInv, TypeCorrect, PTL DEF Spec

(* A step of the splitter is a step of the abstract partition, or changes     *)
(* nothing there: a block the writer receives holds entries of one key that   *)
(* are stored nowhere yet, and the files are closed when they are complete.   *)
LEMMA PartitionStep ==
  ASSUME TypeOK, IInv, [Next]_vars
  PROVE  [Partition!Next]_(Partition!vars)
<1> USE SplitterAssumption
<1>1. ASSUME NEW m \in Mapper, WriterRecvBlock(m) PROVE Partition!Next
  <2>1. wpc = "block" /\ wpc' = "key" /\ Expected(m) = TRUE
    BY <1>1 DEF WriterRecvBlock, FromKeySource, Expected
  <2>2. PICK k \in 1 .. Len(toWriter[m]) :
          /\ toWriter[m][k].tag = "HASH_BLOCK"
          /\ \A j \in 1 .. k - 1 : toWriter[m][j].tag # "HASH_BLOCK"
          /\ file' = [file EXCEPT ![wslot] = @ \cup toWriter[m][k].block]
    BY <1>1 DEF WriterRecvBlock
  <2>3. toWriter[m] \in Seq(MsgType) /\ LaneOK(toWriter[m], TRUE, wslot, mpc[m], mslot[m])
    BY <2>1 DEF TypeOK, IInv, PairInv, LaneInv
  <2>4. k = 1 /\ toWriter[m][1].block \subseteq OfKey(wslot)
    BY <2>2, <2>3, LaneRecvBlock
  <2> DEFINE block == toWriter[m][k].block
  <2>5. block \subseteq Blocks(toWriter[m]) /\ block \in SUBSET Pos /\ wslot \in Slot
    <3>1. toWriter[m][k] \in MsgType /\ block \subseteq Blocks(toWriter[m])
      BY <2>3 DEF Blocks
    <3>. QED BY <3>1 DEF MsgType, TypeOK
  <2>6. ASSUME NEW i \in block, NEW s \in Slot PROVE i \notin file[s]
    <3>1. PICK place \in Place, n \in Mapper : IsAt(i, place, n)
      BY <2>5 DEF IInv, EntryInv
    <3>. QED BY <2>5, <3>1 DEF IsAt
  <2>7. \A i \in block : KeyOf[i] = wslot
    BY <2>4 DEF OfKey
  <2>8. Partition!Store(wslot, block)
    BY <2>1, <2>2, <2>5, <2>6, <2>7 DEF Partition!Store, Partition!Stored, Partition!Dictionary, Slot
  <2>. QED BY <2>5, <2>8 DEF Partition!Next, Partition!Dictionary, Slot
<1>2. ASSUME WriterClose PROVE Partition!Next
  <2>1. wpc = "key" /\ wpc' = "done" /\ AllEof /\ file' = file
    BY <1>2 DEF WriterClose
  <2>2. \A i \in Pos : KeyOf[i] \in Slot => i \in file[KeyOf[i]]
    BY <2>1, AllStored DEF OfKey
  <2>3. Partition!Close
    BY <2>1, <2>2 DEF Partition!Close, Partition!Dictionary, Slot
  <2>. QED BY <2>3 DEF Partition!Next
<1>3. ASSUME file' = file, wpc' = "done" <=> wpc = "done" PROVE UNCHANGED Partition!vars
  BY <1>3 DEF Partition!vars
<1>4. ASSUME ReaderNext \/ (\E m \in Mapper : MapperNext(m)) \/ UNCHANGED vars PROVE UNCHANGED Partition!vars
  <2>1. UNCHANGED writer
    BY <1>4 DEF ReaderNext, ReaderFread, ReaderServe, ReaderEof, ReaderDone, MapperNext, MapperRequest,
                MapperRecv, MapperHash, MapperSendKey, MapperSendBlock, MapperSendEof, vars
  <2>. QED BY <1>3, <2>1 DEF writer
<1>5. ASSUME NEW m \in Mapper, WriterRecvKey(m) PROVE UNCHANGED Partition!vars
  <2>1. wpc = "key" /\ wpc' # "done" /\ file' = file
    BY <1>5 DEF WriterRecvKey
  <2>. QED BY <1>3, <2>1
<1>. QED
  BY <1>1, <1>2, <1>4, <1>5 DEF Next, WriterNext, Finalized

(* The safety part of the refinement: every behaviour of the splitter is one  *)
(* of the abstract partition, step by step.  (That the files are closed at    *)
(* last is liveness, which RefinesPartition adds and the run checks.)         *)
THEOREM PartitionRefined == Spec => Partition!Init /\ [][Partition!Next]_(Partition!vars)
<1>1. Init => Partition!Init
  BY DEF Init, Partition!Init, Partition!Dictionary, Slot
<1>2. TypeOK /\ IInv /\ [Next]_vars => [Partition!Next]_(Partition!vars)
  BY PartitionStep
<1>. QED BY <1>1, <1>2, InitInv, StepInv, TypeCorrect, PTL DEF Spec

=============================================================================
