------------------------------ MODULE RxBuffer ------------------------------
(***************************************************************************)
(* driver-bitmain.c: how bitmain_get_results cuts the bytes it reads from  *)
(* the device into packets.  Bytes arrive in pieces of any size; every     *)
(* turn of the loop parses at most one packet and then reads once more.    *)
(*                                                                         *)
(* A byte is a pair: <<p, k>> is byte k of packet p, byte 0 its type and   *)
(* byte 1 its length; <<0, v>> is noise of value v, and 0 looks like a     *)
(* type.  The buffer is modelled with what it holds beyond offset, since   *)
(* the parser looks there.  A packet passes the CRC when its bytes are     *)
(* those of one packet, in order; what a packet does is in Miner.          *)
(***************************************************************************)
EXTENDS Integers, Sequences, SequencesExt

CONSTANTS
    Length,         \* the lengths of the packets the device sends, in order, header included
    StatusPackets,  \* which of them are status packets; the others carry nonces
    HEAD,           \* 4: bytes of the header
    READ_SIZE,      \* BITMAIN_READ_SIZE
    RSIZE,          \* BITMAIN_FTDI_READSIZE
    BUF_SIZE,       \* BITMAIN_READBUF_SIZE
    MAX_LENGTH,     \* 1130 and the header
    MaxNoise,       \* bound: bytes of noise
    Noise           \* their values

RxBufferAssumption ==
    /\ {HEAD, READ_SIZE, RSIZE, BUF_SIZE, MAX_LENGTH} \subseteq Nat \ {0}
    /\ MaxNoise \in Nat
    /\ Noise \subseteq Nat
    /\ Length \in Seq(Nat)
    /\ \A p \in DOMAIN Length : Length[p] \in READ_SIZE + 1 .. MAX_LENGTH
    /\ HEAD \in 2 .. READ_SIZE
    /\ RSIZE < BUF_SIZE /\ READ_SIZE + 1 < BUF_SIZE
    /\ StatusPackets \subseteq DOMAIN Length

VARIABLES
    readbuf, offset,
    rx,             \* where the thread is: "parse" or "read"
    wire,           \* bytes sent and not read yet
    begun,          \* packets sent so far
    noise,          \* bytes of noise so far
    dropped,        \* the buffer overflowed, or was reset
    parsed          \* the packets accepted, in order

vars == <<readbuf, offset, rx, wire, begun, noise, dropped, parsed>>

Init ==
    /\ readbuf = [i \in 0 .. BUF_SIZE - 1 |-> <<0, 1>>]
    /\ offset = 0
    /\ rx = "parse"
    /\ wire = <<>>
    /\ begun = 0
    /\ noise = 0
    /\ dropped = FALSE
    /\ parsed = <<>>

(***************************************************************************)
(* bitmain_parse_results                                                   *)
(***************************************************************************)
LooksLikeType(byte) == byte[2] = 0

\* The length that the header at i seems to have.
LengthAt(i) ==
    LET byte == readbuf[i + 1]
    IN  IF byte[1] # 0 /\ byte[2] = 1 THEN Length[byte[1]] ELSE byte[2] + HEAD

\* The first place that looks like a packet: the scan passes over lengths that are too large.
Start ==
    LET places == {i \in 0 .. READ_SIZE : LooksLikeType(readbuf[i]) /\ LengthAt(i) <= MAX_LENGTH}
    IN  IF places = {} THEN -1 ELSE CHOOSE i \in places : \A j \in places : i <= j

\* The CRC of the bytes from i on.
CrcRight(i) == \A k \in 0 .. LengthAt(i) - 1 : readbuf[i + k] = <<readbuf[i][1], k>>

\* Type, version, length and CRC.
parse_rxstatus(i) == readbuf[i][1] \in StatusPackets /\ CrcRight(i)
parse_rxnonce(i) == readbuf[i][1] \in DOMAIN Length \ StatusPackets /\ CrcRight(i)

Valid(i) == parse_rxstatus(i) \/ parse_rxnonce(i)

\* memmove: what lies beyond the new offset stays.
Moved(spare) ==
    [i \in DOMAIN readbuf |-> IF i < offset - spare THEN readbuf[i + spare] ELSE readbuf[i]]

\* Mutant: the header will do.
HeaderMissing(i) == offset < HEAD

\* Mutant: a packet waits for a byte of the next.
WaitsForMore(i) == offset <= LengthAt(i)

\* The test whether all of the packet is there does not look at where it begins.
Incomplete(i) == offset < HEAD \/ offset < LengthAt(i)

\* The bytes up to the end of the packet that begins at i.
EndOf(i) == LengthAt(i) + i

Parse ==
    /\ rx = "parse"
    /\ rx' = "read"
    /\ IF offset < READ_SIZE
       THEN UNCHANGED <<readbuf, offset, parsed>>
       ELSE IF Start >= 0 /\ Incomplete(Start)
       THEN UNCHANGED <<readbuf, offset, parsed>>
       ELSE IF Start >= 0
       THEN LET spare == IF EndOf(Start) > offset THEN offset ELSE EndOf(Start)
            IN  /\ parsed' = IF Valid(Start) THEN Append(parsed, readbuf[Start][1]) ELSE parsed
                /\ readbuf' = Moved(spare)
                /\ offset' = offset - spare
       ELSE IF offset - READ_SIZE < READ_SIZE
       THEN UNCHANGED <<readbuf, offset, parsed>>
       ELSE /\ readbuf' = Moved(offset - READ_SIZE)
            /\ offset' = READ_SIZE
            /\ UNCHANGED parsed
    /\ UNCHANGED <<wire, begun, noise, dropped>>

(***************************************************************************)
(* The rest of the loop of bitmain_get_results                             *)
(***************************************************************************)
\* The buffer is emptied when another read might not fit, or after a reset of the device.
Read ==
    /\ rx = "read"
    /\ rx' = "parse"
    /\ \E reset \in BOOLEAN :
        LET full == offset + RSIZE >= BUF_SIZE
            from == IF full \/ reset THEN 0 ELSE offset
        IN  /\ reset => noise < MaxNoise
            /\ noise' = IF reset THEN noise + 1 ELSE noise
            /\ dropped' = (dropped \/ full \/ reset)
            /\ \E n \in 0 .. RSIZE :
                /\ n <= Len(wire)
                /\ n = 0 => wire = <<>>
                /\ readbuf' = [i \in DOMAIN readbuf |->
                                IF i \in from .. from + n - 1 THEN wire[i - from + 1] ELSE readbuf[i]]
                /\ offset' = from + n
                /\ wire' = SubSeq(wire, n + 1, Len(wire))
    /\ UNCHANGED <<begun, parsed>>

(***************************************************************************)
(* The device                                                              *)
(***************************************************************************)
SendPacket ==
    /\ begun < Len(Length)
    /\ begun' = begun + 1
    /\ wire' = wire \o [k \in 1 .. Length[begun + 1] |-> <<begun + 1, k - 1>>]
    /\ UNCHANGED <<readbuf, offset, rx, noise, dropped, parsed>>

SendNoise ==
    /\ noise < MaxNoise
    /\ begun < Len(Length)
    /\ noise' = noise + 1
    /\ dropped' = TRUE
    /\ \E v \in Noise : wire' = Append(wire, <<0, v>>)
    /\ UNCHANGED <<readbuf, offset, rx, begun, parsed>>

Receiving == Parse \/ Read

Next == Receiving \/ SendPacket \/ SendNoise

\* The thread reads for ever; the device may stop at any time.
Spec == Init /\ [][Next]_vars /\ WF_vars(Receiving)

(***************************************************************************)
(* Properties                                                              *)
(***************************************************************************)
\* However the bytes are cut up, packets are accepted in the order they were sent and at most
\* once, noise, resets and overflows or not, although the parser looks at bytes that it has
\* already moved; and without those none is lost: what was accepted, the bytes in the buffer and
\* the bytes on the wire are together what the device sent.
PacketsExact ==
    /\ \A m, n \in DOMAIN parsed : m < n => parsed[m] < parsed[n]
    /\ ~dropped =>
        FlattenSeq([n \in DOMAIN parsed |-> [k \in 1 .. Length[parsed[n]] |-> <<parsed[n], k - 1>>]])
            \o [i \in 1 .. offset |-> readbuf[i - 1]] \o wire
        = FlattenSeq([p \in 1 .. begun |-> [k \in 1 .. Length[p] |-> <<p, k - 1>>]])

\* A packet is not left in the buffer until more bytes come.
Drained == ~dropped => Len(parsed) = begun

PacketsDrain == []<>Drained
=============================================================================
