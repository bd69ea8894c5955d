------------------------------ MODULE ApiReply ------------------------------
(***************************************************************************)
(* custom_cgminer/api.c: the replies of the command handlers.              *)
(*                                                                         *)
(* A JSON reply is built from pieces by many hands: message(), the         *)
(* handler, print_data(), head_join(), tail_join() and send_result() each  *)
(* add opening and closing marks that only fit together on the wire.  A    *)
(* reply is a sequence of those marks; an object printed by print_data is  *)
(* one "item", a name and its scalar value one "pair", a name before a     *)
(* list one "key".  A text reply is its items.                             *)
(*                                                                         *)
(* A handler is given the miner m it reports on, whether the request is    *)
(* JSON, and what its parameter turns out to be: "none" (missing or        *)
(* empty), "bad" (refused by one of the handler's tests) or "good".  Its   *)
(* result is what it adds to the buffer, whether it replaces what is there *)
(* (io_put), whether it asks for a list to be closed (io_close), and       *)
(* whether it changes the miner.                                           *)
(***************************************************************************)
EXTENDS Integers, Sequences, SequencesExt, FiniteSets

\* ascs, pgas: devices of a kind; gone: unplugged or blacklisted ones among the ascs;
\* usb: statistics the USB library has; pools: removed pools are TRUE; able: the drivers have
\* identify_device and set_device.
Miner == [ascs : Nat, pgas : Nat, gone : Nat, usb : Nat, pools : Seq(BOOLEAN), able : BOOLEAN]

(***************************************************************************)
(* Pieces                                                                  *)
(***************************************************************************)
\* Every reply begins with a status: in JSON an object that stays open, with one list.
message(json) == IF json THEN <<"{", "key", "[", "item", "]">> ELSE <<"item">>

print_data(json, precom) == IF json /\ precom THEN <<",", "item">> ELSE <<"item">>

\* print_data for each of n devices or pools, with a comma before all but the first.
PrintAll(json, n) == FlattenSeq([i \in 1 .. n |-> print_data(json, i > 1)])

SendEnd(json, close) == (IF close THEN <<"]">> ELSE <<>>) \o (IF json THEN <<",", "pair", "}">> ELSE <<>>)

\* A handler that answers with a message only.
Status(json, changes) ==
    [put |-> FALSE, add |-> message(json), close |-> FALSE, changes |-> changes]

\* The message, and a list that is left open for tail_join or send_result to close.
Section(json, items) ==
    [put |-> FALSE, close |-> json, changes |-> FALSE,
     add |-> message(json) \o (IF json THEN <<",", "key", "[">> ELSE <<>>) \o items]

\* io_put: the answer to quit and restart has no message.
Action(json) ==
    [put |-> TRUE, close |-> FALSE, changes |-> TRUE,
     add |-> IF json THEN <<"{", "pair">> ELSE <<"item">>]

(***************************************************************************)
(* Handlers that report                                                    *)
(***************************************************************************)
apiversion(json) == Section(json, print_data(json, FALSE))
minerconfig(json) == Section(json, print_data(json, FALSE))
summary(json) == Section(json, print_data(json, FALSE))
pgacount(json) == Section(json, print_data(json, FALSE))
asccount(json) == Section(json, print_data(json, FALSE))
minecoin(json) == Section(json, print_data(json, FALSE))

\* Passes isjson for precom: the only object of the list has a comma before it.
lcddisplay(json) == Section(json, print_data(json, json))

ascstatus(json, precom) == print_data(json, precom)
pgastatus(json, precom) == print_data(json, precom)

devstatus(m, json) ==
    IF m.ascs + m.pgas = 0 THEN Status(json, FALSE)
    ELSE Section(json, FlattenSeq([i \in 1 .. m.ascs |-> ascstatus(json, i > 1)])
                       \o FlattenSeq([i \in 1 .. m.pgas |-> pgastatus(json, m.ascs + i > 1)]))

\* Like devstatus, without the devices that are gone; the commas follow the devices printed.
edevstatus(m, json) ==
    IF m.ascs + m.pgas = 0 THEN Status(json, FALSE)
    ELSE Section(json, PrintAll(json, m.ascs - m.gone + m.pgas))

pgadev(m, json, param) ==
    IF m.pgas = 0 \/ param # "good" THEN Status(json, FALSE)
    ELSE Section(json, pgastatus(json, FALSE))

ascdev(m, json, param) ==
    IF m.ascs = 0 \/ param # "good" THEN Status(json, FALSE)
    ELSE Section(json, ascstatus(json, FALSE))

\* Removed pools are passed over, but the comma follows the number of the pool.
poolstatus(m, json) ==
    IF m.pools = <<>> THEN Status(json, FALSE)
    ELSE Section(json, FlattenSeq([i \in 1 .. Len(m.pools) |->
                                      IF m.pools[i] THEN <<>> ELSE print_data(json, i > 1)]))

notifystatus(json, device) == print_data(json, device > 0)

notify(m, json) ==
    IF m.ascs + m.pgas = 0 THEN Status(json, FALSE)
    ELSE Section(json, FlattenSeq([i \in 1 .. m.ascs + m.pgas |-> notifystatus(json, i - 1)]))

devdetails(m, json) ==
    IF m.ascs + m.pgas = 0 THEN Status(json, FALSE)
    ELSE Section(json, PrintAll(json, m.ascs + m.pgas))

itemstats(json, i) == print_data(json, i > 0)

\* The first device's statistics follow the version without a comma.
minerstats(m, json) ==
    Section(json, print_data(json, FALSE)
                  \o FlattenSeq([i \in 1 .. m.ascs + m.pgas |-> itemstats(json, i - 1)]))

minerestats(m, json) ==
    Section(json, FlattenSeq([i \in 1 .. m.ascs - m.gone + m.pgas |-> itemstats(json, i - 1)]))

usbstats(m, json) ==
    IF m.usb = 0 THEN Status(json, FALSE) ELSE Section(json, PrintAll(json, m.usb))

\* Built without lock tracking.
lockstats(json) == Status(json, FALSE)
privileged(json) == Status(json, FALSE)

checkcommand(json, param) ==
    IF param = "none" THEN Status(json, FALSE) ELSE Section(json, print_data(json, FALSE))

(***************************************************************************)
(* Handlers that change something                                          *)
(***************************************************************************)
\* The tests on the devices, and on the parameter, come before the change.
pgaenable(m, json, param) == Status(json, m.pgas > 0 /\ param = "good")
pgadisable(m, json, param) == Status(json, m.pgas > 0 /\ param = "good")
pgaidentify(m, json, param) == Status(json, m.pgas > 0 /\ param = "good" /\ m.able)
pgaset(m, json, param) == Status(json, m.pgas > 0 /\ param = "good" /\ m.able)
ascenable(m, json, param) == Status(json, m.ascs > 0 /\ param = "good")
ascdisable(m, json, param) == Status(json, m.ascs > 0 /\ param = "good")
ascidentify(m, json, param) == Status(json, m.ascs > 0 /\ param = "good" /\ m.able)
ascset(m, json, param) == Status(json, m.ascs > 0 /\ param = "good" /\ m.able)

switchpool(m, json, param) == Status(json, m.pools # <<>> /\ param = "good")
addpool(m, json, param) == Status(json, param = "good")
poolpriority(m, json, param) == Status(json, m.pools # <<>> /\ param = "good")
poolquota(m, json, param) == Status(json, m.pools # <<>> /\ param = "good")
enablepool(m, json, param) == Status(json, m.pools # <<>> /\ param = "good")
disablepool(m, json, param) == Status(json, m.pools # <<>> /\ param = "good")
removepool(m, json, param) == Status(json, Len(m.pools) > 1 /\ param = "good")

\* Without a parameter the default file is written.
dosave(json, param) == Status(json, param # "bad")
failoveronly(json, param) == Status(json, param = "good")
setconfig(json, param) == Status(json, param = "good")
dozero(json, param) == Status(json, param = "good")
dohotplug(json, param) == Status(json, param = "good")

\* Any letter it does not know only reports.
debugstate(json, param) ==
    [Section(json, print_data(json, FALSE)) EXCEPT !.changes = (param = "good")]

doquit(json) == Action(json)
dorestart(json) == Action(json)

(***************************************************************************)
(* The table of commands                                                   *)
(***************************************************************************)
Joinable ==
    {"version", "config", "devs", "edevs", "pools", "summary", "pgacount", "notify", "devdetails",
     "stats", "estats", "coin", "usbstats", "asccount", "lcd", "lockstats"}

WriteMode ==
    {"pgaenable", "pgadisable", "pgaidentify", "switchpool", "addpool", "poolpriority", "poolquota",
     "enablepool", "disablepool", "removepool", "save", "quit", "privileged", "restart",
     "failover-only", "debug", "setconfig", "pgaset", "zero", "hotplug", "ascenable", "ascdisable",
     "ascidentify", "ascset", "lockstats"}

Command == Joinable \cup WriteMode \cup {"pga", "asc", "check"}

cmds(name, m, json, param) ==
    CASE name = "version" -> apiversion(json)
      [] name = "config" -> minerconfig(json)
      [] name = "devs" -> devstatus(m, json)
      [] name = "edevs" -> edevstatus(m, json)
      [] name = "pools" -> poolstatus(m, json)
      [] name = "summary" -> summary(json)
      [] name = "pga" -> pgadev(m, json, param)
      [] name = "pgaenable" -> pgaenable(m, json, param)
      [] name = "pgadisable" -> pgadisable(m, json, param)
      [] name = "pgaidentify" -> pgaidentify(m, json, param)
      [] name = "pgacount" -> pgacount(json)
      [] name = "switchpool" -> switchpool(m, json, param)
      [] name = "addpool" -> addpool(m, json, param)
      [] name = "poolpriority" -> poolpriority(m, json, param)
      [] name = "poolquota" -> poolquota(m, json, param)
      [] name = "enablepool" -> enablepool(m, json, param)
      [] name = "disablepool" -> disablepool(m, json, param)
      [] name = "removepool" -> removepool(m, json, param)
      [] name = "save" -> dosave(json, param)
      [] name = "quit" -> doquit(json)
      [] name = "privileged" -> privileged(json)
      [] name = "notify" -> notify(m, json)
      [] name = "devdetails" -> devdetails(m, json)
      [] name = "restart" -> dorestart(json)
      [] name = "stats" -> minerstats(m, json)
      [] name = "estats" -> minerestats(m, json)
      [] name = "check" -> checkcommand(json, param)
      [] name = "failover-only" -> failoveronly(json, param)
      [] name = "coin" -> minecoin(json)
      [] name = "debug" -> debugstate(json, param)
      [] name = "setconfig" -> setconfig(json, param)
      [] name = "usbstats" -> usbstats(m, json)
      [] name = "pgaset" -> pgaset(m, json, param)
      [] name = "zero" -> dozero(json, param)
      [] name = "hotplug" -> dohotplug(json, param)
      [] name = "asc" -> ascdev(m, json, param)
      [] name = "ascenable" -> ascenable(m, json, param)
      [] name = "ascdisable" -> ascdisable(m, json, param)
      [] name = "ascidentify" -> ascidentify(m, json, param)
      [] name = "ascset" -> ascset(m, json, param)
      [] name = "asccount" -> asccount(json)
      [] name = "lcd" -> lcddisplay(json)
      [] name = "lockstats" -> lockstats(json)

(***************************************************************************)
(* What a JSON reply should be                                             *)
(***************************************************************************)
\* The open marks after one more mark; "bad" stays at the bottom of a reply that closes another.
Nest(open, mark) ==
    CASE mark \in {"{", "["} -> Append(open, mark)
      [] mark = "}" -> IF open # <<>> /\ Last(open) = "{" THEN Front(open) ELSE <<"bad">> \o open
      [] mark = "]" -> IF open # <<>> /\ Last(open) = "[" THEN Front(open) ELSE <<"bad">> \o open
      [] OTHER -> open

Nested(reply) ==
    LET open[n \in 0 .. Len(reply)] == IF n = 0 THEN <<>> ELSE Nest(open[n - 1], reply[n])
    IN  reply # <<>> /\ open[Len(reply)] = <<>>

\* Which mark may follow which: commas stand between members and nowhere else.
Follows(a, b) ==
    CASE a = "{" -> b \in {"key", "pair", "}"}
      [] a = "[" -> b \in {"item", "{", "]"}
      [] a = "key" -> b = "["
      [] a = "," -> b \in {"key", "pair", "item", "{"}
      [] OTHER -> b \in {",", "}", "]"}

Json(reply) == Nested(reply) /\ \A i \in 1 .. Len(reply) - 1 : Follows(reply[i], reply[i + 1])
=============================================================================
