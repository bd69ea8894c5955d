---------------------------- MODULE BitmainSetup ----------------------------
(***************************************************************************)
(* driver-bitmain.c: from the options to a device that mines               *)
(* (bitmain_detect_one and bitmain_initialize).  The driver asks for the   *)
(* device's status, looks for the answer in what it reads in at most four  *)
(* tries, and then sends the device its configuration.                     *)
(*                                                                         *)
(* An option is the sequence of its fields between colons; a field is the  *)
(* number it holds, 0 when it holds none, and Empty when it is empty.  A   *)
(* byte on the wire is a pair: <<1, k>> is byte k of the status packet,    *)
(* byte 0 its type and byte 1 its length, and <<0, v>> is left over from   *)
(* before, where a byte of value 0 looks like a type.  A parameter that    *)
(* no option sets is read without having been written.                     *)
(***************************************************************************)
EXTENDS Integers, Sequences, FiniteSetsExt, Crc16

CONSTANTS
    Options,        \* what the program may be started with
    Garbage,        \* values of a variable that was never written
    Baud, ASIC_NUM, \* the rates, and BITMAIN_DEFAULT_ASIC_NUM
    MIN_FREQUENCY, MAX_FREQUENCY,
    Default,        \* the parameters of a device without options
    Chains,         \* numbers of chains a device may report
    Temps,          \* temperatures it may report
    OVERHEAT, TARGET,
    LENGTH,         \* bytes of a status packet
    READ_SIZE, HEAD, MAX_LENGTH,
    Stale,          \* what may be left on the wire
    MaxStatus       \* bound: status packets of a running device

Empty == -1

BitmainSetupAssumption ==
    /\ \A o \in Options :
         /\ o.options \in Seq(Int) /\ o.freq \in Seq(Int)
         /\ o.voltage \in {"none", "length", "nothex", "ok"}
         /\ o.vil \in BOOLEAN
    /\ Garbage \subseteq Int
    /\ {ASIC_NUM, LENGTH, READ_SIZE, HEAD, MAX_LENGTH} \subseteq Nat \ {0}
    /\ READ_SIZE < LENGTH /\ LENGTH <= MAX_LENGTH
    /\ Chains \subseteq 0 .. 255
    /\ MaxStatus \in Nat

VARIABLES
    options,        \* what the program was started with
    pc,
    params,         \* of bitmain_detect_one, then of info
    configured,
    listed, data,   \* the device is in the list of devices, and has its device_data
    wire, bytes,    \* not read yet, and read into the buffer
    trycount,
    chain_num, fifo_space, config,  \* what the device reported, and was sent
    temp_max, overheat, statuses

vars == <<options, pc, params, configured, listed, data, wire, bytes, trycount, chain_num,
          fifo_space, config, temp_max, overheat, statuses>>

deviceVars == <<wire, bytes, trycount>>
statusVars == <<chain_num, fifo_space, temp_max, overheat, statuses>>

NoConfig == <<>>

Init ==
    /\ options \in Options
    /\ pc = "options"
    /\ params = Default
    /\ configured = FALSE
    /\ listed = FALSE
    /\ data = FALSE
    /\ wire \in Stale
    /\ bytes = <<>>
    /\ trycount = 3
    /\ chain_num = 0
    /\ fifo_space = 0
    /\ config = NoConfig
    /\ temp_max = 0
    /\ overheat = FALSE
    /\ statuses = 0

(***************************************************************************)
(* Options                                                                 *)
(***************************************************************************)
\* A field is looked at when something follows the colon before it.
Reached(fields, p) == p \in DOMAIN fields /\ (fields[p] # Empty \/ p < Len(fields))

\* get_options: baud, chain_num, asic_num, timeout, frequency, register and voltage.
BadOption(fields, p) ==
    CASE p = 1 -> fields[p] \notin Baud
      [] p = 2 -> fields[p] # Empty /\ fields[p] <= 0
      [] p = 3 -> fields[p] \notin 1 .. ASIC_NUM
      [] p = 4 -> fields[p] \notin 1 .. 255
      [] p = 5 -> fields[p] < MIN_FREQUENCY \/ fields[p] > MAX_FREQUENCY
      [] OTHER -> fields[p] <= 0

\* get_option_freq: timeout, frequency and register, or the frequency alone.
BadFreqField(vil, p, field) ==
    IF vil \/ p = 2 THEN field < MIN_FREQUENCY \/ field > MAX_FREQUENCY
    ELSE IF p = 1 THEN field \notin 1 .. 255 ELSE field <= 0

FreqGiven(o, p) ==
    IF o.vil THEN o.freq # <<>> /\ p = 1 ELSE o.freq # <<>> /\ o.freq[1] # Empty /\ Reached(o.freq, p)

Quits(o) ==
    \/ /\ o.options # <<Empty>>
       /\ \E p \in DOMAIN o.options : Reached(o.options, p) /\ BadOption(o.options, p)
    \/ \E p \in DOMAIN o.freq : FreqGiven(o, p) /\ BadFreqField(o.vil, p, o.freq[p])
    \/ o.voltage = "nothex"

\* What the options set, and g where they set nothing; the frequency starts as 0.
ParamsOf(o, g) ==
    LET option(p, unset) ==
            IF Reached(o.options, p) /\ o.options[p] # Empty THEN o.options[p] ELSE unset
    IN  [chain |-> option(2, g.chain),
         asic |-> option(3, g.asic),
         timeout |-> IF ~o.vil /\ FreqGiven(o, 1) THEN o.freq[1] ELSE option(4, g.timeout),
         frequency |-> IF o.vil /\ FreqGiven(o, 1) THEN o.freq[1]
                       ELSE IF ~o.vil /\ FreqGiven(o, 2) THEN o.freq[2]
                       ELSE option(5, 0)]

\* Without --bitmain-options there is no device.  An empty one is no configuration, and what the
\* other options say is then lost.
GetOptions ==
    /\ pc = "options"
    /\ IF options.options = <<>> \/ Quits(options)
       THEN /\ pc' = IF options.options = <<>> THEN "absent" ELSE "quit"
            /\ UNCHANGED <<params, configured>>
       ELSE /\ pc' = "open"
            /\ configured' = (options.options # <<Empty>>)
            /\ \E g \in [chain : Garbage, asic : Garbage, timeout : Garbage] :
                 params' = IF configured' THEN ParamsOf(options, g) ELSE Default
    /\ UNCHANGED <<options, listed, data, deviceVars, config, statusVars>>

(***************************************************************************)
(* bitmain_initialize                                                      *)
(***************************************************************************)
\* btm_init; add_cgpu puts the device into the list.  Then what was left on the wire is read.
Open ==
    /\ pc = "open"
    /\ \/ /\ pc' = "absent"
          /\ UNCHANGED <<listed, data, wire, chain_num>>
       \/ /\ pc' = "ask"
          /\ listed' = TRUE
          /\ data' = TRUE
          /\ chain_num' = params.chain
          /\ \E n \in 0 .. Len(wire) : wire' = SubSeq(wire, n + 1, Len(wire))
    /\ UNCHANGED <<options, params, configured, bytes, trycount, config, fifo_space, temp_max,
                   overheat, statuses>>

\* bitmain_set_rxstatus and bitmain_send_data.  A write that fails ends it.
AskStatus ==
    /\ pc = "ask"
    /\ \/ pc' = "failed" /\ UNCHANGED wire
       \/ pc' = "try" /\ wire' = wire \o [k \in 1 .. LENGTH |-> <<1, k - 1>>]
    /\ UNCHANGED <<options, params, configured, listed, data, bytes, trycount, config, statusVars>>

LengthAt(b, i) == IF b[i + 1] = <<1, 1>> THEN LENGTH ELSE b[i + 1][2] + HEAD

\* A packet that begins at i is all there and passes bitmain_parse_rxstatus.
AcceptedAt(b, i) ==
    /\ b[i][2] = 0
    /\ i < Len(b)
    /\ LengthAt(b, i) <= MAX_LENGTH
    /\ Len(b) - i + 1 >= LengthAt(b, i)
    /\ \A k \in 0 .. LengthAt(b, i) - 1 : b[i + k] = <<1, k>>

\* Mutant: only the first byte that looks like a type is tried.
OnlyFirst(b) ==
    LET types == {i \in DOMAIN b : b[i][2] = 0}
    IN  Len(b) > READ_SIZE /\ types # {} /\ AcceptedAt(b, Min(types))

StatusFound(b) == Len(b) > READ_SIZE /\ \E i \in DOMAIN b : AcceptedAt(b, i)

\* record_temp_fan and bitmain_update_temps: temp_old is 0 for ever.
UpdateTemps(t) ==
    /\ temp_max' = IF t > temp_max THEN t ELSE temp_max
    /\ overheat' = IF 0 >= OVERHEAT THEN TRUE ELSE IF 0 <= TARGET THEN FALSE ELSE overheat

\* Everything read so far is looked at again after every read.
Try ==
    /\ pc = "try"
    /\ \E n \in 0 .. Len(wire) :
         LET b == bytes \o SubSeq(wire, 1, n)
         IN  /\ bytes' = b
             /\ wire' = SubSeq(wire, n + 1, Len(wire))
             /\ IF n > 0 /\ StatusFound(b)
                THEN /\ pc' = "configure"
                     /\ chain_num' \in Chains
                     /\ fifo_space' = 1
                     /\ \E t \in Temps : UpdateTemps(t)
                     /\ UNCHANGED trycount
                ELSE /\ trycount' = trycount - 1
                     /\ pc' = IF trycount = 0 THEN "failed" ELSE "try"
                     /\ UNCHANGED <<chain_num, fifo_space, temp_max, overheat>>
    /\ UNCHANGED <<options, params, configured, listed, data, config, statuses>>

\* bitmain_set_txconfig takes bytes, and 16 bits for the frequency.
Token ==
    <<81, chain_num, params.asic % 256, params.timeout % 256,
      params.frequency % 256, (params.frequency \div 256) % 256>>

TxConfig == chain_num > 0 /\ params.asic % 256 > 0 /\ params.timeout % 256 > 0

Configure ==
    /\ pc = "configure"
    /\ \/ TxConfig /\ pc' = "running" /\ config' = Append(Token, CRC16(Token))
       \/ pc' = "failed" /\ UNCHANGED config
    /\ UNCHANGED <<options, params, configured, listed, data, deviceVars, statusVars>>

\* The rest of bitmain_detect_one: a device that the options describe is kept all the same; another
\* is freed, but stays in the list.
Failed ==
    /\ pc = "failed"
    /\ pc' = IF configured THEN "running" ELSE "absent"
    /\ data' = configured
    /\ UNCHANGED <<options, params, configured, listed, deviceVars, config, statusVars>>

\* A status packet of the running device (see RxBuffer).
Status ==
    /\ pc = "running"
    /\ statuses < MaxStatus
    /\ statuses' = statuses + 1
    /\ fifo_space' = 1
    /\ chain_num' \in Chains
    /\ \E t \in Temps : UpdateTemps(t)
    /\ UNCHANGED <<options, pc, params, configured, listed, data, deviceVars, config>>

Next == GetOptions \/ Open \/ AskStatus \/ Try \/ Configure \/ Failed \/ Status

Spec == Init /\ [][Next]_vars

(***************************************************************************)
(* Properties                                                              *)
(***************************************************************************)
Whole(b) == \E i \in DOMAIN b : i + LENGTH - 1 <= Len(b) /\ \A k \in 0 .. LENGTH - 1 : b[i + k] = <<1, k>>

\* CRC16 of one byte looks at the table entry 255 - byte.
TablesExact == \A byte \in 0 .. 255 : CRC16(<<byte>>) = CrcBitByBit(<<byte>>)

\* Four reads of any size, after anything that was left on the wire, find the status as soon as
\* all of it is there and never anything else; a device is configured only after it answered, with
\* positive parameters whatever the options left unset, under a checksum whose every table entry
\* the polynomial confirms; and work is given only to a device that reported space.
SetupExact ==
    /\ pc = "try" => ~Whole(bytes)
    /\ pc = "configure" => Whole(bytes)
    /\ config # NoConfig =>
         /\ Whole(bytes)
         /\ \A p \in 2 .. 4 : config[p] \in 1 .. 255
         /\ config[7] = CrcBitByBit(SubSeq(config, 1, 6))
    /\ pc = "options" => TablesExact
    /\ fifo_space > 0 => Whole(bytes) \/ statuses > 0
=============================================================================
