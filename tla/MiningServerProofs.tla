------------------------- MODULE MiningServerProofs -------------------------
(* Proofs about MiningServer, for any set of miners, any bounds on counters,  *)
(* buffers and messages, and any number of stops and restarts.                *)
EXTENDS MiningServer, SequenceTheorems, TLAPS

Word == Counter \X (1 .. RECORD)

\* The counters miners took: worked on, thrown away, or in work.
Taken == worked \cup dropped \cup UNION {inflight[n] : n \in Miner}

\* Every counter below c was taken by a miner.
Below(c) == \A d \in 0 .. c - 1 : d \in Taken

(* The inductive strengthening of NoCounterSkipped: wherever a counter can be *)
(* on its way back to a miner (a work item, a message, the server's memory,   *)
(* the status file, a greeting), miners have taken everything below it.       *)
ServerSide == Below(counter) /\ \A saved \in status : saved # <<>> => Below(saved[1])
MinerSide == \A m \in Miner : Below(next[m]) /\ \A c \in inflight[m] : Below(c)
InTransit ==
    /\ \A m \in Miner : \A c \in greeting[m] : Below(c)
    /\ \A i \in DOMAIN net : Below(net[i])

IInv == TypeOK /\ ServerSide /\ MinerSide /\ InTransit

(* A record is RECORD words. *)
LEMMA WordsType == ASSUME NEW c \in Counter PROVE Words(c) \in Seq(Word) /\ Len(Words(c)) = RECORD
  BY MiningAssumption DEF Words, Word

(* fwrite leaves words in buffer and file, and no more than a buffer in the buffer. *)
LEMMA FwriteType ==
  ASSUME NEW c \in Counter, TypeOK, Fwrite(c)
  PROVE  /\ work_buf' \in Seq(Word) /\ Len(work_buf') <= BUFSIZ
         /\ work_disk' \in Seq(Word)
<1> DEFINE all == work_buf \o Words(c)
<1>0. work_disk \in Seq(Word) /\ work_buf \in Seq(Word) /\ Len(work_buf) <= BUFSIZ
  BY DEF TypeOK, Word
<1>1. all \in Seq(Word) /\ Len(all) = Len(work_buf) + RECORD
  BY <1>0, WordsType, MiningAssumption
<1>2. IF Len(all) > BUFSIZ
      THEN /\ work_disk' = work_disk \o SubSeq(all, 1, BUFSIZ)
           /\ work_buf' = SubSeq(all, BUFSIZ + 1, Len(all))
      ELSE work_buf' = all /\ work_disk' = work_disk
  BY DEF Fwrite
<1>3. Len(work_buf) \in Nat
  BY <1>0
<1> HIDE DEF all
<1>4. CASE Len(all) > BUFSIZ
  <2>1. SubSeq(all, 1, BUFSIZ) \in Seq(Word)
    BY <1>1, <1>4, MiningAssumption
  <2>2. SubSeq(all, BUFSIZ + 1, Len(all)) \in Seq(Word)
    BY <1>1, <1>4, MiningAssumption
  <2>3. Len(SubSeq(all, BUFSIZ + 1, Len(all))) = Len(all) - BUFSIZ
    BY <1>1, <1>4, MiningAssumption
  <2>4. work_disk' \in Seq(Word)
    <3>1. work_disk \o SubSeq(all, 1, BUFSIZ) \in Seq(Word)
      <4> DEFINE front == SubSeq(all, 1, BUFSIZ)
      <4>1. front \in Seq(Word)
        BY <2>1
      <4> HIDE DEF front
      <4>2. work_disk \o front \in Seq(Word)
        BY <1>0, <4>1
      <4>. QED BY <4>2 DEF front
    <3>. QED BY <1>2, <1>4, <3>1
  <2>5. Len(work_buf') <= BUFSIZ
    BY <1>0, <1>1, <1>2, <1>3, <1>4, <2>3, MiningAssumption
  <2>. QED BY <1>2, <1>4, <2>2, <2>4, <2>5
<1>5. CASE ~(Len(all) > BUFSIZ)
  <2>1. Len(all) <= BUFSIZ
    BY <1>1, <1>3, <1>5, MiningAssumption
  <2>. QED BY <1>0, <1>1, <1>2, <1>5, <2>1
<1>. QED BY <1>4, <1>5

(* Every value the server, the files, the miners and the messages hold stays in *)
(* range, and stdio never buffers more than BUFSIZ words.                       *)
LEMMA TypeStep == TypeOK /\ [Next]_vars => TypeOK'
<1> SUFFICES ASSUME TypeOK, [Next]_vars PROVE TypeOK'
  OBVIOUS
<1> USE MiningAssumption DEF history
<1>1. ASSUME ServerTurn PROVE TypeOK'
  <2>1. hello' \in SUBSET Miner /\ greeting' \in [Miner -> SUBSET Counter]
    BY <1>1 DEF ServerTurn, TypeOK, Answer, GreetCounter
  <2>2. CASE net = <<>> /\ UNCHANGED <<net, counter, nonce_received, work_buf, work_disk>>
    BY <1>1, <2>1, <2>2 DEF ServerTurn, TypeOK, miners
  <2>3. CASE /\ net # <<>> /\ net' = Tail(net) /\ counter' = HighestCounter(Head(net))
             /\ Fwrite(Head(net)) /\ nonce_received' = nonce_received + 1
    <3>1. Head(net) \in Counter /\ Tail(net) \in Seq(Counter)
      BY <2>3 DEF TypeOK
    <3>2. /\ work_buf' \in Seq(Word) /\ Len(work_buf') <= BUFSIZ /\ work_disk' \in Seq(Word)
      BY <2>3, <3>1, FwriteType
    <3>3. counter' \in Counter /\ nonce_received' \in Nat
      BY <2>3, <3>1 DEF HighestCounter, TypeOK
    <3>. QED BY <1>1, <2>1, <2>3, <3>1, <3>2, <3>3 DEF ServerTurn, TypeOK, miners, Word
  <2>. QED BY <1>1, <2>2, <2>3 DEF ServerTurn
<1>2. ASSUME NoSave PROVE TypeOK'
  BY <1>2 DEF NoSave, TypeOK, files, miners, network
<1>3. ASSUME OpenStatus PROVE TypeOK'
  BY <1>3 DEF OpenStatus, TypeOK, miners, network
<1>4. ASSUME WriteStatus PROVE TypeOK'
  BY <1>4 DEF WriteStatus, TypeOK, miners, network
<1>5. ASSUME FlushWork PROVE TypeOK'
  <2>1. work_disk' \in Seq(Word) /\ work_buf' \in Seq(Word) /\ Len(work_buf') <= BUFSIZ
    BY <1>5 DEF FlushWork, TypeOK, Word
  <2>. QED BY <1>5, <2>1 DEF FlushWork, TypeOK, miners, network, SaveMark, Word
<1>6. ASSUME ServerStart PROVE TypeOK'
  <2>1. counter' \in Counter /\ spc' \in {"poll", "dead"}
    BY <1>6 DEF ServerStart, TypeOK, NoFile, FileOf, Counter
  <2>. QED BY <1>6, <2>1 DEF ServerStart, TypeOK, files, miners, network
<1>7. ASSUME ServerStop PROVE TypeOK'
  <2>1. hello' \in SUBSET Miner /\ greeting' \in [Miner -> SUBSET Counter]
    BY <1>7 DEF ServerStop, TypeOK
  <2>2. net' \in Seq(Counter)
    <3>1. net \in Seq(Counter) /\ <<>> \in Seq(Counter)
      BY DEF TypeOK
    <3>2. net' = net \/ net' = <<>>
      BY <1>7 DEF ServerStop
    <3>. QED BY <3>1, <3>2
  <2>3. work_buf' \in Seq(Counter \X (1 .. RECORD))
    BY <1>7 DEF ServerStop
  <2>4. Len(work_buf') <= BUFSIZ
    BY <1>7 DEF ServerStop
  <2>5. counter' \in Counter /\ nonce_received' \in Nat /\ last_counter_saved' \in Nat
    BY <1>7 DEF ServerStop, Counter
  <2>6. /\ spc' \in {"poll", "check", "write", "flush", "down", "dead"}
        /\ scrashes' \in 0 .. MAX_SERVER_CRASH
    BY <1>7 DEF ServerStop, TypeOK
  <2>7. UNCHANGED <<work_disk, status, mpc, next, inflight, worked, dropped, mcrashes>>
    BY <1>7 DEF ServerStop, files, miners, history
  <2>. QED BY <2>1, <2>2, <2>3, <2>4, <2>5, <2>6, <2>7 DEF TypeOK
<1>8. ASSUME NEW m \in Miner, Hello(m) PROVE TypeOK'
  BY <1>8 DEF Hello, TypeOK, server, files
<1>9. ASSUME NEW m \in Miner, Greeted(m) PROVE TypeOK'
  <2>1. next' \in [Miner -> Counter] /\ greeting' \in [Miner -> SUBSET Counter]
    BY <1>9 DEF Greeted, TypeOK
  <2>. QED BY <1>9, <2>1 DEF Greeted, TypeOK, server, files
<1>10. ASSUME NEW m \in Miner, GenWork(m) PROVE TypeOK'
  <2>1. next[m] \in Counter /\ next[m] + 1 \in Counter
    BY <1>10 DEF GenWork, TypeOK, Counter
  <2>2. next' \in [Miner -> Counter] /\ inflight' \in [Miner -> SUBSET Counter]
    BY <1>10, <2>1 DEF GenWork, TypeOK
  <2>. QED BY <1>10, <2>1, <2>2 DEF GenWork, TypeOK, server, files, network
<1>11. ASSUME NEW m \in Miner, NEW c \in inflight[m], FinishWork(m, c) PROVE TypeOK'
  <2>1. c \in Counter
    BY DEF TypeOK
  <2>2. net' \in Seq(Counter) /\ inflight' \in [Miner -> SUBSET Counter]
    <3>1. net \in Seq(Counter) /\ Append(net, c) \in Seq(Counter)
      BY <2>1 DEF TypeOK
    <3>2. net' = net \/ net' = Append(net, c)
      BY <1>11 DEF FinishWork
    <3>3. inflight' \in [Miner -> SUBSET Counter]
      BY <1>11 DEF FinishWork, TypeOK
    <3>. QED BY <3>1, <3>2, <3>3
  <2>. QED BY <1>11, <2>1, <2>2 DEF FinishWork, TypeOK, server, files
<1>12. ASSUME NEW m \in Miner, NEW c \in inflight[m], DropWork(m, c) PROVE TypeOK'
  <2>1. c \in Counter /\ inflight' \in [Miner -> SUBSET Counter]
    BY <1>12 DEF DropWork, TypeOK
  <2>2. UNCHANGED <<server, files, mpc, next, network, worked, scrashes, mcrashes>>
    BY <1>12 DEF DropWork
  <2>3. dropped' \in SUBSET Counter
    BY <1>12, <2>1 DEF DropWork, TypeOK
  <2>. QED BY <2>1, <2>2, <2>3 DEF TypeOK, server, files, network
<1>13. ASSUME NEW m \in Miner, MinerRestart(m) PROVE TypeOK'
  <2>1. 0 \in Counter
    BY DEF Counter
  <2>2. dropped' \in SUBSET Counter
    BY <1>13 DEF MinerRestart, TypeOK
  <2>3. /\ mpc' \in [Miner -> {"start", "waiting", "mining"}] /\ next' \in [Miner -> Counter]
        /\ inflight' \in [Miner -> SUBSET Counter] /\ greeting' \in [Miner -> SUBSET Counter]
        /\ hello' \in SUBSET Miner /\ mcrashes' \in 0 .. MAX_MINER_CRASH
    BY <1>13, <2>1 DEF MinerRestart, TypeOK
  <2>4. UNCHANGED <<server, files, net, worked, scrashes>>
    BY <1>13 DEF MinerRestart
  <2>. QED BY <2>2, <2>3, <2>4 DEF TypeOK, server, files
<1>14. ASSUME UNCHANGED vars PROVE TypeOK'
  BY <1>14 DEF vars, TypeOK, server, files, miners, network
<1>. QED
  BY <1>1, <1>2, <1>3, <1>4, <1>5, <1>6, <1>7, <1>8, <1>9, <1>10, <1>11, <1>12, <1>13, <1>14
     DEF Next, ServerNext, MinerNext

(* Counters are never forgotten: an item in work is done, thrown away or still in work. *)
LEMMA TakenGrows == TypeOK /\ [Next]_vars => Taken \subseteq Taken'
<1> SUFFICES ASSUME TypeOK, [Next]_vars PROVE Taken \subseteq Taken'
  OBVIOUS
<1>1. ASSUME worked \subseteq worked', dropped \subseteq dropped',
             \A n \in Miner : inflight[n] \subseteq inflight'[n]
      PROVE  Taken \subseteq Taken'
  BY <1>1 DEF Taken
<1>2. ASSUME NEW m \in Miner, NEW c \in inflight[m],
             \A n \in Miner : inflight[n] \ {c} \subseteq inflight'[n],
             worked \subseteq worked', dropped \subseteq dropped', c \in worked' \cup dropped'
      PROVE  Taken \subseteq Taken'
  BY <1>2 DEF Taken
<1>3. ASSUME ServerNext \/ ServerStop \/ UNCHANGED vars PROVE Taken \subseteq Taken'
  <2>1. UNCHANGED <<worked, dropped, inflight>>
    BY <1>3 DEF ServerNext, ServerTurn, NoSave, OpenStatus, WriteStatus, FlushWork, ServerStart,
                ServerStop, vars, miners, history
  <2>. QED BY <1>1, <2>1
<1>4. ASSUME NEW m \in Miner, Hello(m) \/ Greeted(m) PROVE Taken \subseteq Taken'
  <2>1. UNCHANGED <<worked, dropped, inflight>>
    BY <1>4 DEF Hello, Greeted, history
  <2>. QED BY <1>1, <2>1
<1>5. ASSUME NEW m \in Miner, GenWork(m) PROVE Taken \subseteq Taken'
  <2>1. UNCHANGED <<worked, dropped>> /\ \A n \in Miner : inflight[n] \subseteq inflight'[n]
    BY <1>5 DEF GenWork, TypeOK, history
  <2>. QED BY <1>1, <2>1
<1>6. ASSUME NEW m \in Miner, NEW c \in inflight[m], FinishWork(m, c) \/ DropWork(m, c)
      PROVE  Taken \subseteq Taken'
  <2>1. \A n \in Miner : inflight[n] \ {c} \subseteq inflight'[n]
    BY <1>6 DEF FinishWork, DropWork, TypeOK
  <2>2. worked \subseteq worked' /\ dropped \subseteq dropped' /\ c \in worked' \cup dropped'
    BY <1>6 DEF FinishWork, DropWork
  <2>. QED BY <1>2, <2>1, <2>2
<1>7. ASSUME NEW m \in Miner, MinerRestart(m) PROVE Taken \subseteq Taken'
  <2>1. /\ worked' = worked /\ dropped' = dropped \cup inflight[m]
        /\ \A n \in Miner : n # m => inflight'[n] = inflight[n]
    BY <1>7 DEF MinerRestart, TypeOK
  <2>. QED BY <2>1 DEF Taken
<1>. QED BY <1>3, <1>4, <1>5, <1>6, <1>7 DEF Next, MinerNext

(* Nothing has been handed out: every counter about is 0. *)
LEMMA InitIInv == Init => IInv
  BY MiningAssumption
     DEF Init, IInv, TypeOK, ServerSide, MinerSide, InTransit, Below, Counter, NoFile, FileOf

(* Every action keeps the counters on their way back closed downwards: it moves *)
(* one of them, takes the higher of two, goes back to 0, or takes the next.     *)
LEMMA StepIInv == IInv /\ [Next]_vars => IInv'
<1> SUFFICES ASSUME IInv, [Next]_vars PROVE ServerSide' /\ MinerSide' /\ InTransit'
  BY TypeStep DEF IInv
<1>0. TypeOK /\ ServerSide /\ MinerSide /\ InTransit
  BY DEF IInv
<1>z. Below(0)
  BY DEF Below
<1>t. Taken \subseteq Taken'
  BY <1>0, TakenGrows
<1>s. ASSUME NEW c, Below(c) PROVE Below(c)'
  BY <1>s, <1>t DEF Below
<1>1. ASSUME ServerTurn PROVE ServerSide' /\ MinerSide' /\ InTransit'
  <2>1. /\ status' = status /\ next' = next /\ inflight' = inflight
    BY <1>1 DEF ServerTurn, miners
  <2>2. \A m \in Miner : \A c \in greeting'[m] : c = counter \/ c \in greeting[m]
    BY <1>0, <1>1 DEF ServerTurn, TypeOK, Answer, GreetCounter
  <2>3. \/ net' = net /\ counter' = counter
        \/ net # <<>> /\ net' = Tail(net) /\ counter' \in {Head(net), counter}
    BY <1>1 DEF ServerTurn, HighestCounter
  <2>4. net \in Seq(Counter)
    BY <1>0 DEF TypeOK
  <2>5. /\ \A i \in DOMAIN net' : \E j \in DOMAIN net : net'[i] = net[j]
        /\ counter' = counter \/ \E j \in DOMAIN net : counter' = net[j]
    <3>1. CASE net' = net /\ counter' = counter
      BY <3>1
    <3>2. CASE net # <<>> /\ net' = Tail(net) /\ counter' \in {Head(net), counter}
      <4>1. 1 \in DOMAIN net /\ Head(net) = net[1]
        BY <2>4, <3>2
      <4>2. \A i \in DOMAIN Tail(net) : i + 1 \in DOMAIN net /\ Tail(net)[i] = net[i + 1]
        BY <2>4, <3>2
      <4>. QED BY <3>2, <4>1, <4>2
    <3>. QED BY <2>3, <3>1, <3>2
  <2>. QED BY <1>0, <1>s, <2>1, <2>2, <2>5 DEF ServerSide, MinerSide, InTransit
<1>2. ASSUME NoSave PROVE ServerSide' /\ MinerSide' /\ InTransit'
  BY <1>0, <1>2, <1>s DEF NoSave, files, miners, network, ServerSide, MinerSide, InTransit
<1>3. ASSUME OpenStatus PROVE ServerSide' /\ MinerSide' /\ InTransit'
  BY <1>0, <1>3, <1>s DEF OpenStatus, FileOf, miners, network, ServerSide, MinerSide, InTransit
<1>4. ASSUME WriteStatus PROVE ServerSide' /\ MinerSide' /\ InTransit'
  BY <1>0, <1>4, <1>s DEF WriteStatus, FileOf, miners, network, ServerSide, MinerSide, InTransit
<1>5. ASSUME FlushWork PROVE ServerSide' /\ MinerSide' /\ InTransit'
  BY <1>0, <1>5, <1>s DEF FlushWork, miners, network, ServerSide, MinerSide, InTransit
<1>6. ASSUME ServerStart PROVE ServerSide' /\ MinerSide' /\ InTransit'
  <2>1. Below(counter')
    BY <1>0, <1>6, <1>z DEF ServerStart, ServerSide
  <2>. QED BY <1>0, <1>6, <1>s, <2>1
           DEF ServerStart, files, miners, network, ServerSide, MinerSide, InTransit
<1>7. ASSUME ServerStop PROVE ServerSide' /\ MinerSide' /\ InTransit'
  <2>1. \A m \in Miner : greeting'[m] \subseteq greeting[m]
    BY <1>7 DEF ServerStop
  <2>2. \A i \in DOMAIN net' : Below(net'[i])
    BY <1>0, <1>7 DEF ServerStop, InTransit
  <2>. QED BY <1>0, <1>7, <1>s, <1>z, <2>1, <2>2
           DEF ServerStop, files, miners, ServerSide, MinerSide, InTransit
<1>8. ASSUME NEW m \in Miner, Hello(m) PROVE ServerSide' /\ MinerSide' /\ InTransit'
  BY <1>0, <1>8, <1>s DEF Hello, server, files, ServerSide, MinerSide, InTransit
<1>9. ASSUME NEW m \in Miner, Greeted(m) PROVE ServerSide' /\ MinerSide' /\ InTransit'
  <2>1. \A n \in Miner : Below(next'[n]) /\ greeting'[n] \subseteq greeting[n]
    BY <1>0, <1>9 DEF Greeted, TypeOK, MinerSide, InTransit
  <2>. QED BY <1>0, <1>9, <1>s, <2>1 DEF Greeted, server, files, ServerSide, MinerSide, InTransit
<1>10. ASSUME NEW m \in Miner, GenWork(m) PROVE ServerSide' /\ MinerSide' /\ InTransit'
  <2>1. next[m] \in Taken'
    BY <1>0, <1>10 DEF GenWork, TypeOK, Taken
  <2>2. next[m] \in Nat /\ Below(next[m])
    BY <1>0 DEF TypeOK, Counter, MinerSide
  <2>3. \A d \in 0 .. next[m] : d \in Taken'
    BY <1>t, <2>1, <2>2 DEF Below
  <2>4. \A n \in Miner : Below(next[n])'
    <3> SUFFICES ASSUME NEW n \in Miner PROVE Below(next[n])'
      OBVIOUS
    <3>1. CASE n = m
      <4>1. next'[n] = next[m] + 1
        BY <1>0, <1>10, <3>1 DEF GenWork, TypeOK
      <4>. QED BY <2>2, <2>3, <4>1 DEF Below
    <3>2. CASE n # m
      <4>1. next'[n] = next[n]
        BY <1>0, <1>10, <3>2 DEF GenWork, TypeOK
      <4>. QED BY <1>0, <1>t, <4>1 DEF MinerSide, Below
    <3>. QED BY <3>1, <3>2
  <2>5. \A n \in Miner : \A c \in inflight'[n] : Below(c)'
    BY <1>0, <1>10, <1>s, <2>2 DEF GenWork, TypeOK, MinerSide
  <2>6. UNCHANGED <<counter, status, greeting, net>>
    BY <1>10 DEF GenWork, server, files, network
  <2>7. ServerSide' /\ InTransit'
    BY <1>0, <1>t, <2>6 DEF ServerSide, InTransit, Below
  <2>. QED BY <2>4, <2>5, <2>7 DEF MinerSide
<1>11. ASSUME NEW m \in Miner, NEW c \in inflight[m], FinishWork(m, c)
       PROVE ServerSide' /\ MinerSide' /\ InTransit'
  <2>1. \A n \in Miner : inflight'[n] \subseteq inflight[n]
    BY <1>0, <1>11 DEF FinishWork, TypeOK
  <2>2. net \in Seq(Counter) /\ c \in Counter /\ Below(c)
    BY <1>0 DEF TypeOK, MinerSide
  <2>3. \A i \in DOMAIN net' : Below(net'[i])
    <3>1. CASE net' = net
      BY <1>0, <3>1 DEF InTransit
    <3>2. CASE net' = Append(net, c)
      <4>1. \A i \in DOMAIN Append(net, c) :
               \/ i \in DOMAIN net /\ Append(net, c)[i] = net[i]
               \/ Append(net, c)[i] = c
        BY <2>2
      <4>. QED BY <1>0, <2>2, <3>2, <4>1 DEF InTransit
    <3>. QED BY <1>11, <3>1, <3>2 DEF FinishWork
  <2>. QED BY <1>0, <1>11, <1>s, <2>1, <2>3
           DEF FinishWork, server, files, ServerSide, MinerSide, InTransit
<1>12. ASSUME NEW m \in Miner, NEW c \in inflight[m], DropWork(m, c)
       PROVE ServerSide' /\ MinerSide' /\ InTransit'
  <2>1. \A n \in Miner : inflight'[n] \subseteq inflight[n]
    BY <1>0, <1>12 DEF DropWork, TypeOK
  <2>. QED BY <1>0, <1>12, <1>s, <2>1
           DEF DropWork, server, files, network, ServerSide, MinerSide, InTransit
<1>13. ASSUME NEW m \in Miner, MinerRestart(m) PROVE ServerSide' /\ MinerSide' /\ InTransit'
  <2>1. \A n \in Miner : /\ greeting'[n] \subseteq greeting[n]
                          /\ inflight'[n] \subseteq inflight[n]
                          /\ Below(next'[n])
    BY <1>0, <1>13, <1>z DEF MinerRestart, TypeOK, MinerSide
  <2>. QED BY <1>0, <1>13, <1>s, <2>1
           DEF MinerRestart, server, files, ServerSide, MinerSide, InTransit
<1>14. ASSUME UNCHANGED vars PROVE ServerSide' /\ MinerSide' /\ InTransit'
  BY <1>0, <1>14, <1>s DEF vars, server, files, miners, network, ServerSide, MinerSide, InTransit
<1>. QED
  BY <1>1, <1>2, <1>3, <1>4, <1>5, <1>6, <1>7, <1>8, <1>9, <1>10, <1>11, <1>12, <1>13, <1>14
     DEF Next, ServerNext, MinerNext

(* Type correctness of server, miners, files and messages in every behaviour. *)
THEOREM TypeCorrect == Spec => []TypeOK
<1>1. Init => TypeOK
  BY InitIInv DEF IInv
<1>. QED BY <1>1, TypeStep, PTL DEF Spec

(* However often the server and the miners stop and restart, and whatever      *)
(* messages are lost, only a miner can leave a gap: a counter below a start    *)
(* value has been worked on, is in work, or was thrown away by a miner that    *)
(* had taken it.                                                               *)
THEOREM CountersNeverSkipped == Spec => []NoCounterSkipped
<1>1. IInv => NoCounterSkipped
  BY DEF IInv, InTransit, NoCounterSkipped, Below, Taken
<1>. QED BY <1>1, InitIInv, StepIInv, PTL DEF Spec

-----------------------------------------------------------------------------
(* The words of the work file that are on disk or buffered. *)
AllWords == work_disk \o work_buf

(* As long as nothing was lost the words are whole records. *)
WholeRecords ==
    scrashes = 0 => Aligned(AllWords) /\ \E q \in Nat : Len(AllWords) = q * RECORD

(* How the numbers of nonces, the buffer and the status file go together at each *)
(* place of the main loop.                                                       *)
SaveInv ==
    /\ last_counter_saved <= nonce_received
    /\ spc \in {"down", "dead"} => nonce_received = 0
    /\ spc = "poll" => nonce_received - last_counter_saved <= SAVE_EVERY
    /\ spc \in {"poll", "check"} /\ nonce_received = last_counter_saved /\ nonce_received > 0
         => work_buf = <<>> /\ status = FileOf(<<counter>>)
    /\ spc = "flush" => status = FileOf(<<counter>>)

FileInv == TypeOK /\ WholeRecords /\ SaveInv

(* What is left when a number is divided, if it is above a multiple by less than one more. *)
LEMMA Remainder ==
  ASSUME NEW q \in Nat, NEW k \in 0 .. RECORD - 1
  PROVE  (q * RECORD + k) % RECORD = k
<1> DEFINE n == q * RECORD + k
           a == n \div RECORD
           b == n % RECORD
<1>0. RECORD \in Nat /\ RECORD > 0
  BY MiningAssumption
<1>1. n \in Nat
  BY <1>0
<1>2. a \in Nat /\ b \in 0 .. RECORD - 1 /\ n = (a * RECORD) + b
  BY <1>0, <1>1
<1>3. (a - q) * RECORD = k - b
  BY <1>0, <1>2
<1> HIDE DEF a, b
<1>4. CASE a > q
  <2>1. (a - q) * RECORD >= RECORD
    BY <1>0, <1>2, <1>4
  <2>. QED BY <1>0, <1>2, <1>3, <2>1
<1>5. CASE a < q
  <2>1. (q - a) * RECORD >= RECORD
    BY <1>0, <1>2, <1>5
  <2>2. (a - q) * RECORD = 0 - (q - a) * RECORD
    BY <1>0, <1>2
  <2>. QED BY <1>0, <1>2, <1>3, <2>1, <2>2
<1>6. CASE a = q
  BY <1>0, <1>2, <1>3, <1>6 DEF b
<1>. QED BY <1>2, <1>4, <1>5, <1>6

(* A record after whole records. *)
LEMMA AddRecord ==
  ASSUME NEW w \in Seq(Word), NEW q \in Nat, Len(w) = q * RECORD, Aligned(w), NEW c \in Counter
  PROVE  Aligned(w \o Words(c)) /\ Len(w \o Words(c)) = (q + 1) * RECORD
<1> DEFINE r == Words(c)
           v == w \o r
<1>0. RECORD \in Nat /\ RECORD > 0 /\ Len(w) \in Nat /\ DOMAIN w = 1 .. Len(w)
  BY MiningAssumption
<1>1. r \in Seq(Word) /\ Len(r) = RECORD /\ \A k \in 1 .. RECORD : r[k] = <<c, k>>
  BY WordsType DEF Words
<1> HIDE DEF r
<1>2. /\ v \in Seq(Word) /\ Len(v) = Len(w) + RECORD
      /\ \A i \in 1 .. Len(w) + RECORD : v[i] = IF i <= Len(w) THEN w[i] ELSE r[i - Len(w)]
  BY <1>1, ConcatProperties
<1> HIDE DEF v
<1>3. DOMAIN v = 1 .. Len(w) + RECORD
  BY <1>0, <1>2
<1>4. ASSUME NEW i \in 1 .. Len(w)
      PROVE  v[i][2] = ((i - 1) % RECORD) + 1 /\ v[i][1] = v[i - v[i][2] + 1][1]
  <2>1. v[i] = w[i]
    BY <1>0, <1>2
  <2>2. w[i][2] = ((i - 1) % RECORD) + 1 /\ w[i][1] = w[i - w[i][2] + 1][1]
    BY <1>0 DEF Aligned
  <2>3. i - w[i][2] + 1 \in 1 .. Len(w)
    <3> DEFINE d == (i - 1) \div RECORD
    <3>1. d \in Nat /\ i - 1 = RECORD * d + ((i - 1) % RECORD) /\ (i - 1) % RECORD \in Nat
      BY <1>0
    <3>2. RECORD * d \in Nat
      BY <1>0, <3>1
    <3>. QED BY <1>0, <2>2, <3>1, <3>2
  <2>4. v[i - w[i][2] + 1] = w[i - w[i][2] + 1]
    BY <1>0, <1>2, <2>3
  <2>. QED BY <2>1, <2>2, <2>4
<1>5. ASSUME NEW k \in 1 .. RECORD, NEW i, i = Len(w) + k
      PROVE  v[i][2] = ((i - 1) % RECORD) + 1 /\ v[i][1] = v[i - v[i][2] + 1][1]
  <2>1. \A n \in 1 .. RECORD : v[Len(w) + n] = <<c, n>>
    <3> SUFFICES ASSUME NEW n \in 1 .. RECORD PROVE v[Len(w) + n] = <<c, n>>
      OBVIOUS
    <3>1. Len(w) + n \in 1 .. Len(w) + RECORD /\ ~(Len(w) + n <= Len(w)) /\ Len(w) + n - Len(w) = n
      BY <1>0
    <3>2. v[Len(w) + n] = r[Len(w) + n - Len(w)]
      BY <1>2, <3>1
    <3>. QED BY <1>1, <3>1, <3>2
  <2>2. v[i] = <<c, k>> /\ v[Len(w) + 1] = <<c, 1>>
    <3>1. k \in 1 .. RECORD /\ 1 \in 1 .. RECORD
      BY <1>0
    <3>. QED BY <1>5, <2>1, <3>1
  <2>3. i - v[i][2] + 1 = Len(w) + 1
    BY <1>0, <1>5, <2>2
  <2>4. (i - 1) % RECORD = k - 1
    <3>1. k - 1 \in 0 .. RECORD - 1 /\ i - 1 = q * RECORD + (k - 1)
      BY <1>0, <1>5
    <3>2. (q * RECORD + (k - 1)) % RECORD = k - 1
      BY <3>1, Remainder
    <3>. QED BY <3>1, <3>2
  <2>5. k - 1 + 1 = k
    OBVIOUS
  <2>. QED BY <2>2, <2>3, <2>4, <2>5
<1>6. ASSUME NEW i \in DOMAIN v
      PROVE  v[i][2] = ((i - 1) % RECORD) + 1 /\ v[i][1] = v[i - v[i][2] + 1][1]
  <2>1. CASE i \in 1 .. Len(w)
    BY <1>4, <2>1
  <2>2. CASE i \notin 1 .. Len(w)
    <3>1. i - Len(w) \in 1 .. RECORD /\ i = Len(w) + (i - Len(w))
      BY <1>0, <1>3, <2>2
    <3>. QED BY <1>5, <3>1
  <2>. QED BY <2>1, <2>2
<1>7. Aligned(v)
  BY <1>6 DEF Aligned
<1>8. Len(v) = (q + 1) * RECORD
  BY <1>0, <1>2
<1>. QED BY <1>7, <1>8 DEF v, r

(* Wherever fwrite cuts a record in two, the words of it come after the others. *)
LEMMA FwriteWords ==
  ASSUME TypeOK, NEW c \in Counter, Fwrite(c)
  PROVE  AllWords' = AllWords \o Words(c) /\ AllWords \in Seq(Word)
<1> DEFINE all == work_buf \o Words(c)
<1>1. work_disk \in Seq(Word) /\ work_buf \in Seq(Word) /\ Words(c) \in Seq(Word) /\ BUFSIZ \in Nat
  BY WordsType, MiningAssumption DEF TypeOK, Word
<1>2. all \in Seq(Word) /\ Len(all) \in Nat
  BY <1>1, ConcatProperties
<1>3. AllWords \o Words(c) = work_disk \o all /\ AllWords \in Seq(Word)
  BY <1>1, ConcatAssociative, ConcatProperties DEF AllWords
<1>4. AllWords' = work_disk' \o work_buf'
  BY DEF AllWords
<1>5. CASE Len(all) > BUFSIZ
  <2> DEFINE front == SubSeq(all, 1, BUFSIZ)
             back == SubSeq(all, BUFSIZ + 1, Len(all))
  <2>1. work_disk' = work_disk \o front /\ work_buf' = back
    BY <1>5 DEF Fwrite
  <2> HIDE DEF all
  <2>2. \A k \in 1 .. Len(all) : all[k] \in Word
    BY <1>2
  <2>3. front \in Seq(Word) /\ back \in Seq(Word)
    BY <1>1, <1>2, <1>5, <2>2, SubSeqProperties
  <2>4. front \o back = all
    <3>1. 1 \in 1 .. Len(all) + 1 /\ BUFSIZ \in 1 - 1 .. Len(all) /\ Len(all) \in BUFSIZ .. Len(all)
      BY <1>1, <1>2, <1>5
    <3>2. SubSeq(all, 1, BUFSIZ) \o SubSeq(all, BUFSIZ + 1, Len(all)) = SubSeq(all, 1, Len(all))
      BY ONLY <1>2, <3>1, ConcatAdjacentSubSeq
    <3>3. SubSeq(all, 1, Len(all)) = all
      BY <1>2, SubSeqFull
    <3>. QED BY <3>2, <3>3
  <2> HIDE DEF front, back
  <2>5. (work_disk \o front) \o back = work_disk \o (front \o back)
    BY <1>1, <2>3, ConcatAssociative
  <2>. QED BY <1>3, <1>4, <2>1, <2>4, <2>5
<1>6. CASE ~(Len(all) > BUFSIZ)
  <2>1. work_disk' = work_disk /\ work_buf' = all
    BY <1>6 DEF Fwrite
  <2>. QED BY <1>3, <1>4, <2>1
<1>. QED BY <1>5, <1>6

(* The files keep up with what the server receives. *)
LEMMA FileStep == FileInv /\ [Next]_vars => FileInv'
<1> SUFFICES ASSUME FileInv, [Next]_vars PROVE WholeRecords' /\ SaveInv'
  BY TypeStep DEF FileInv
<1>0. /\ TypeOK /\ WholeRecords /\ SaveInv /\ SAVE_EVERY \in Nat
      /\ nonce_received \in Nat /\ last_counter_saved \in Nat /\ scrashes \in Nat
  <2>1. scrashes \in Nat
    BY MiningAssumption DEF FileInv, TypeOK
  <2>. QED BY <2>1, MiningAssumption DEF FileInv, TypeOK
<1>w. ASSUME AllWords' = AllWords, scrashes' = scrashes PROVE WholeRecords'
  BY <1>0, <1>w DEF WholeRecords
<1>u. ASSUME UNCHANGED <<server, files, scrashes>> PROVE WholeRecords' /\ SaveInv'
  <2>1. UNCHANGED <<spc, counter, nonce_received, last_counter_saved, work_buf, work_disk, status, scrashes>>
    BY <1>u DEF server, files
  <2>. QED BY <1>0, <1>w, <2>1 DEF AllWords, SaveInv
<1>1. CASE ServerTurn
  <2>1. UNCHANGED <<last_counter_saved, status, scrashes>> /\ spc = "poll" /\ spc' = "check"
    BY <1>1 DEF ServerTurn
  <2>2. CASE UNCHANGED <<net, counter, nonce_received, work_buf, work_disk>>
    <3>1. WholeRecords'
      BY <1>w, <2>1, <2>2 DEF AllWords
    <3>2. SaveInv'
      BY <1>0, <2>1, <2>2 DEF SaveInv
    <3>. QED BY <3>1, <3>2
  <2>3. CASE /\ net # <<>> /\ Fwrite(Head(net)) /\ nonce_received' = nonce_received + 1
    <3>1. Head(net) \in Counter
      BY <1>0, <2>3 DEF TypeOK
    <3>2. WholeRecords'
      <4> SUFFICES ASSUME scrashes = 0
                   PROVE  Aligned(AllWords') /\ \E q \in Nat : Len(AllWords') = q * RECORD
        BY <2>1 DEF WholeRecords
      <4>1. PICK q \in Nat : Len(AllWords) = q * RECORD
        BY <1>0 DEF WholeRecords
      <4>2. AllWords' = AllWords \o Words(Head(net)) /\ AllWords \in Seq(Word)
        BY <1>0, <2>3, <3>1, FwriteWords
      <4>3. Aligned(AllWords)
        BY <1>0 DEF WholeRecords
      <4>4. Aligned(AllWords') /\ Len(AllWords') = (q + 1) * RECORD
        BY <3>1, <4>1, <4>2, <4>3, AddRecord
      <4>. QED BY <4>4
    <3>3. SaveInv'
      BY <1>0, <2>1, <2>3 DEF SaveInv
    <3>. QED BY <3>2, <3>3
  <2>. QED BY <1>1, <2>2, <2>3 DEF ServerTurn
<1>2. CASE NoSave
  <2>1. UNCHANGED <<counter, nonce_received, last_counter_saved, work_buf, work_disk, status, scrashes>>
    BY <1>2 DEF NoSave, files
  <2>2. SaveInv'
    BY <1>0, <1>2, <2>1 DEF NoSave, SaveInv
  <2>. QED BY <1>w, <2>1, <2>2 DEF AllWords
<1>3. CASE OpenStatus
  BY <1>0, <1>3, <1>w DEF OpenStatus, AllWords, SaveInv
<1>4. CASE WriteStatus
  BY <1>0, <1>4, <1>w DEF WriteStatus, AllWords, SaveInv
<1>5. CASE FlushWork
  <2>1. AllWords' = AllWords
    <3>1. AllWords \in Seq(Word) /\ work_disk' = AllWords /\ work_buf' = <<>>
      BY <1>0, <1>5, ConcatProperties DEF FlushWork, AllWords, TypeOK, Word
    <3>2. AllWords' = work_disk' \o work_buf'
      BY DEF AllWords
    <3>. QED BY <3>1, <3>2, ConcatEmptySeq
  <2>2. SaveInv'
    BY <1>0, <1>5 DEF FlushWork, SaveMark, SaveInv
  <2>. QED BY <1>5, <1>w, <2>1, <2>2 DEF FlushWork
<1>6. CASE ServerStop
  BY <1>0, <1>6 DEF ServerStop, WholeRecords, SaveInv
<1>7. CASE ServerStart
  <2>1. UNCHANGED <<nonce_received, last_counter_saved, work_buf, work_disk, status, scrashes>>
        /\ spc = "down" /\ spc' \in {"poll", "dead"}
    BY <1>7 DEF ServerStart, files
  <2>2. nonce_received = 0 /\ last_counter_saved = 0
    BY <1>0, <2>1 DEF SaveInv
  <2>3. SaveInv'
    BY <1>0, <2>1, <2>2 DEF SaveInv
  <2>. QED BY <1>w, <2>1, <2>3 DEF AllWords
<1>8. ASSUME NEW m \in Miner, MinerNext(m) \/ MinerRestart(m) PROVE UNCHANGED <<server, files, scrashes>>
  BY <1>8 DEF MinerNext, Hello, Greeted, GenWork, FinishWork, DropWork, MinerRestart
<1>9. CASE UNCHANGED vars
  BY <1>9, <1>u DEF vars
<1>. QED BY <1>1, <1>2, <1>3, <1>4, <1>5, <1>6, <1>7, <1>8, <1>9, <1>u DEF Next, ServerNext

(* No words and no nonces. *)
LEMMA FileInit == Init => FileInv
<1> SUFFICES ASSUME Init PROVE FileInv
  OBVIOUS
<1>1. TypeOK
  BY InitIInv DEF IInv
<1>2. AllWords = <<>> /\ Len(AllWords) = 0 /\ 0 = 0 * RECORD
  BY MiningAssumption DEF Init, AllWords
<1>3. WholeRecords
  BY <1>2 DEF WholeRecords, Aligned
<1>4. SaveInv
  BY MiningAssumption DEF Init, SaveInv
<1>. QED BY <1>1, <1>3, <1>4 DEF FileInv

(* As long as the server is not stopped the work file holds whole records wherever *)
(* stdio cuts them; and back at the poll no more than SAVE_EVERY nonces are        *)
(* unsaved, with none unsaved both files being up to date.                         *)
THEOREM FilesKeepUp == Spec => []FilesUpToDate
<1>1. FileInv => FilesUpToDate
  <2> SUFFICES ASSUME FileInv PROVE FilesUpToDate
    OBVIOUS
  <2>1. AlignedUntilStop
    BY DEF FileInv, WholeRecords, AllWords, AlignedUntilStop, WorkFileAligned
  <2>2. SavedInTime
    BY DEF FileInv, SaveInv, SavedInTime
  <2>. QED BY <2>1, <2>2 DEF FilesUpToDate
<1>. QED BY <1>1, FileInit, FileStep, PTL DEF Spec

=============================================================================
