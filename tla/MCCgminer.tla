----------------------------- MODULE MCCgminer -----------------------------
(***************************************************************************)
(* Parts of the custom cgminer around its mining loop, for TLC: the lock   *)
(* its threads share (Locks), the API thread (Api), the lists and strings  *)
(* of a reply (ApiData), a device with its watchdog (DeviceLife), the      *)
(* start of a device (BitmainSetup) and the packets it sends (RxBuffer).   *)
(* A behaviour is one of one part; the variables of the other parts keep a *)
(* fixed value.                                                            *)
(***************************************************************************)
EXTENDS Locks, Sequences

CONSTANTS
    Address, Local, Config, Request,                                        \* of Api
    Node, Nil, Value, Number, SBEXTEND, SOCKBUFALLOCSIZ, MARKS, MaxPrints,  \* of ApiData
    SICK_TIME, DEAD_TIME, RETRY_TIME, MaxToggles,                           \* of DeviceLife
    Options, Garbage, Baud, ASIC_NUM, MIN_FREQUENCY, MAX_FREQUENCY, Default, Chains, Temps,
    OVERHEAT, TARGET, LENGTH, Stale, MaxStatus, SetupMaxLength,             \* of BitmainSetup
    Length, StatusPackets, HEAD, READ_SIZE, RSIZE, BUF_SIZE, MAX_LENGTH, MaxNoise, Noise   \* of RxBuffer

VARIABLES
    part,       \* "locks", "api", "data", "life", "setup" or "rx"
    config, pc, client, group, request, todo, isjoin, firstjoin, cmdsbuf, buffer, close, sent, changed,
    bye, do_a_quit, do_a_restart, ipaccess, life,
    json, next, prev, root, extra, value, data, printing, siz, tot, io, overrun, made, printed, prints,
    miner, deven, status, getwork, last, sick, sem, shutdown, watchdog, verdict, api, toggles,
    options, spc, params, configured, listed, device_data, line, bytes, trycount, chain_num, fifo_space,
    token, temp_max, overheat, statuses,
    readbuf, offset, rx, wire, begun, noise, dropped, parsed

apiVars == <<config, pc, client, group, request, todo, isjoin, firstjoin, cmdsbuf, buffer, close, sent,
             changed, bye, do_a_quit, do_a_restart, ipaccess, life>>
dataVars == <<json, next, prev, root, extra, value, data, printing, siz, tot, io, overrun, made, printed,
              prints>>
lifeVars == <<miner, deven, status, getwork, last, sick, sem, shutdown, watchdog, verdict, api, toggles>>
setupVars == <<options, spc, params, configured, listed, device_data, line, bytes, trycount, chain_num,
               fifo_space, token, temp_max, overheat, statuses>>
rxVars == <<readbuf, offset, rx, wire, begun, noise, dropped, parsed>>
allVars == <<part, vars, apiVars, dataVars, lifeVars, setupVars, rxVars>>

Replies == INSTANCE ApiReply
A == INSTANCE Api
D == INSTANCE ApiData
L == INSTANCE DeviceLife
S == INSTANCE BitmainSetup WITH pc <- spc, data <- device_data, wire <- line, config <- token,
                                MAX_LENGTH <- SetupMaxLength
R == INSTANCE RxBuffer

ASSUME MCCgminerAssumption ==
    /\ A!ApiAssumption
    /\ D!ApiDataAssumption
    /\ L!DeviceLifeAssumption
    /\ S!BitmainSetupAssumption
    /\ R!RxBufferAssumption

(***************************************************************************)
(* Api: two miners, with and without devices; without --api-allow, with    *)
(* one that gives everything to some and with one that does not parse      *)
(***************************************************************************)
Big == [ascs |-> 2, pgas |-> 1, gone |-> 1, usb |-> 2, pools |-> <<TRUE, FALSE>>, able |-> TRUE]
Small == [ascs |-> 0, pgas |-> 0, gone |-> 0, usb |-> 0, pools |-> <<>>, able |-> TRUE]
MCAddress == {"local", "lan"}
NoGroups == [g \in {} |-> {}]
Entry(g, n, v) == [group |-> g, net |-> n, valid |-> v]
Started(m, n, g, a) == [miner |-> m, network |-> n, mcast |-> TRUE, groups |-> g, allow |-> a]

MCConfig ==
    {Started(m, n, NoGroups, <<>>) : m \in {Big, Small}, n \in BOOLEAN}
    \cup {Started(Big, FALSE, g, a) :
            g \in {NoGroups, [x \in {"G"} |-> {"*", "addpool", "lockstats", "quit"}]},
            a \in {<<Entry("W", {"local"}, TRUE), Entry("R", MCAddress, TRUE)>>,
                   <<Entry("G", {"lan"}, TRUE), Entry("W", MCAddress, FALSE)>>,
                   <<Entry("W", MCAddress, FALSE)>>}}

Joined == {"", "nope", "version", "devs", "pools", "summary", "lockstats", "quit", "addpool"}
Joins ==
    {<<a, b>> : a, b \in Joined} \cup {<<a, b, "version">> : a, b \in {"", "devs", "version", "quit"}}

Asked(j, form, cmds, join, param) ==
    [json |-> j, form |-> form, cmds |-> cmds, join |-> join, param |-> param]

MCRequest ==
    {Asked(j, "cmds", <<c>>, FALSE, p) :
        j \in BOOLEAN, c \in Replies!Command \cup {"nope"}, p \in {"none", "bad", "good"}}
    \cup {Asked(j, "cmds", cs, TRUE, "none") : j \in BOOLEAN, cs \in Joins}
    \cup {Asked(TRUE, f, <<>>, FALSE, "none") : f \in {"notobject", "nocommand", "notstring"}}

(***************************************************************************)
(* The other parts                                                         *)
(***************************************************************************)
MCValue == {<<"sep", "quote", "slash", "plain", "plain">>}
MCNumber == {<<"plain", "plain", "plain">>}

\* Options around every test: complete ones, short ones, with empty fields, and out of range.
Opt(f) == [options |-> f, freq |-> <<>>, voltage |-> "none", vil |-> FALSE]
MCOptions ==
    {Opt(<<115200, 8, 32, t, f>>) : t \in {1, 255}, f \in {10, 65537}}
    \cup {Opt(f) : f \in {<<>>, <<-1>>, <<115200>>, <<115200, -1, 4>>, <<115200, 300, -1, 3>>, <<9600, 8>>,
                          <<115200, 8, 33>>, <<57600, 8, 32, 7, 282, 1, -1>>,
                          <<57600, 8, 32, 7, 282, 1, 0>>}}
    \cup {[options |-> f, freq |-> q, voltage |-> v, vil |-> b] :
            f \in {<<-1>>, <<115200, 8, 32>>}, v \in {"length", "ok", "nothex"}, b \in BOOLEAN,
            q \in {<<-1>>, <<20>>, <<20, 300>>, <<256>>, <<9, -1>>}}
MCDefault == [chain |-> 8, asic |-> 32, timeout |-> 45, frequency |-> 282]
MCStale == {<<>>, <<<<0, 0>>, <<0, 9>>, <<0, 2>>>>}

MCLength == <<4, 5, 4>>

(***************************************************************************)
(* The specification                                                       *)
(***************************************************************************)
NoApi ==
    /\ config = 0 /\ pc = "" /\ client = 0 /\ group = 0 /\ request = 0 /\ todo = 0 /\ isjoin = FALSE
    /\ firstjoin = FALSE /\ cmdsbuf = 0 /\ buffer = 0 /\ close = FALSE /\ sent = 0 /\ changed = 0
    /\ bye = FALSE /\ do_a_quit = FALSE /\ do_a_restart = FALSE /\ ipaccess = FALSE /\ life = ""
NoData ==
    /\ json = FALSE /\ next = 0 /\ prev = 0 /\ root = 0 /\ extra = 0 /\ value = 0 /\ data = 0
    /\ printing = FALSE /\ siz = 0 /\ tot = 0 /\ io = 0 /\ overrun = FALSE /\ made = 0 /\ printed = 0
    /\ prints = 0
NoLife ==
    /\ miner = "" /\ deven = "" /\ status = "" /\ getwork = FALSE /\ last = 0 /\ sick = 0 /\ sem = 0
    /\ shutdown = FALSE /\ watchdog = "" /\ verdict = "" /\ api = "" /\ toggles = 0
NoSetup ==
    /\ options = 0 /\ spc = "" /\ params = 0 /\ configured = FALSE /\ listed = FALSE
    /\ device_data = FALSE /\ line = 0 /\ bytes = 0 /\ trycount = 0 /\ chain_num = 0 /\ fifo_space = 0
    /\ token = 0 /\ temp_max = 0 /\ overheat = FALSE /\ statuses = 0
NoPackets ==
    /\ readbuf = 0 /\ offset = 0 /\ rx = "" /\ wire = 0 /\ begun = 0 /\ noise = 0 /\ dropped = FALSE
    /\ parsed = 0

MCInit ==
    \/ part = "locks" /\ Init /\ NoApi /\ NoData /\ NoLife /\ NoSetup /\ NoPackets
    \/ part = "api" /\ Init /\ A!Init /\ NoData /\ NoLife /\ NoSetup /\ NoPackets
    \/ part = "data" /\ Init /\ NoApi /\ D!Init /\ NoLife /\ NoSetup /\ NoPackets
    \/ part = "life" /\ Init /\ NoApi /\ NoData /\ L!Init /\ NoSetup /\ NoPackets
    \/ part = "setup" /\ Init /\ NoApi /\ NoData /\ NoLife /\ S!Init /\ NoPackets
    \/ part = "rx" /\ Init /\ NoApi /\ NoData /\ NoLife /\ NoSetup /\ R!Init

\* No part but p moves.
Only(p) ==
    /\ part = p /\ part' = p
    /\ IF p = "locks" THEN TRUE ELSE UNCHANGED vars
    /\ IF p = "api" THEN TRUE ELSE UNCHANGED apiVars
    /\ IF p = "data" THEN TRUE ELSE UNCHANGED dataVars
    /\ IF p = "life" THEN TRUE ELSE UNCHANGED lifeVars
    /\ IF p = "setup" THEN TRUE ELSE UNCHANGED setupVars
    /\ IF p = "rx" THEN TRUE ELSE UNCHANGED rxVars

MCNext ==
    \/ part = "locks" /\ Next /\ Only("locks")
    \/ part = "api" /\ A!Next /\ Only("api")
    \/ part = "data" /\ D!Next /\ Only("data")
    \/ part = "life" /\ L!Next /\ Only("life")
    \/ part = "setup" /\ S!Next /\ Only("setup")
    \/ part = "rx" /\ R!Next /\ Only("rx")

\* As in the specifications of Locks, Api, DeviceLife and RxBuffer.
MCFairness ==
    /\ \A t \in Thread : WF_allVars(part = "locks" /\ GoesOn(t) /\ Only("locks"))
    /\ WF_allVars(part = "api" /\ A!Answering /\ Only("api"))
    /\ WF_allVars(part = "api" /\ A!quit_thread /\ Only("api"))
    /\ WF_allVars(part = "life" /\ L!MiningThread /\ Only("life"))
    /\ WF_allVars(part = "life" /\ L!Watchdog /\ Only("life"))
    /\ WF_allVars(part = "life" /\ L!EnablePost /\ Only("life"))
    /\ WF_allVars(part = "rx" /\ R!Receiving /\ Only("rx"))

MCSpec == MCInit /\ [][MCNext]_allVars /\ MCFairness

-----------------------------------------------------------------------------
\* The reply to a JSON request is one JSON object, sent once (Api).
ReplyIsJson == part = "api" => A!ReplyIsJson

\* A client of group R changes nothing and ends nothing, whatever it joins (Api).
ReadersOnlyRead == [][part = "api" => A!OnlyReads]_allVars

\* Every request that was accepted is done with, and a quit or a restart ends the program (Api).
RequestsEnd == A!RequestsEnd

\* A list of data is printed whole and in order, and no string is written out of bounds (ApiData).
DataPrinted == part = "data" => D!DataPrinted

\* A device that stays disabled stops mining, and one that stays enabled is not left asleep
\* (DeviceLife).
EnableObeyed == L!EnableObeyed

\* A thread that waits for work is not found sick, and one that keeps reporting is found well
\* (DeviceLife).
WatchdogJust == L!WatchdogJust

\* The status of a device is found in at most four reads, and what configures it is right
\* (BitmainSetup).
SetupExact == part = "setup" => S!SetupExact

\* Packets are accepted once, in order and, without noise, all of them (RxBuffer).
PacketsExact == part = "rx" => R!PacketsExact

\* A packet is not left in the buffer until more bytes come (RxBuffer).
PacketsDrain == []<>(part = "rx" => R!Drained)
=============================================================================
