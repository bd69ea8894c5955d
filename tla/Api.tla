-------------------------------- MODULE Api --------------------------------
(***************************************************************************)
(* custom_cgminer/api.c: the thread that answers requests, api(), with the *)
(* groups of --api-groups, the addresses of --api-allow, joined commands   *)
(* and the end of the program on quit and restart; and the multicast       *)
(* thread, which shares the table of addresses.                            *)
(*                                                                         *)
(* Requests are served one at a time.  A connection that is refused, or    *)
(* whose recv fails, changes nothing and is left out.  A command is its    *)
(* name; a joined request is the sequence of the names between its plus    *)
(* signs, an empty one among them.                                         *)
(***************************************************************************)
EXTENDS ApiReply

CONSTANTS
    Address,        \* addresses clients connect from
    Local,          \* the loopback address
    Config,         \* the miners, options and requests considered
    Request

NoRequest == [json |-> FALSE, form |-> "none", cmds |-> <<>>, join |-> FALSE, param |-> "none"]

\* An option --api-groups is a set of commands, "*" among them, for each group G it defines;
\* an entry of --api-allow is a group, a set of addresses, and whether it parses.
ApiAssumption ==
    /\ Local \in Address
    /\ \A c \in Config :
        /\ c.miner \in Miner
        /\ DOMAIN c.groups \subseteq {"G"}
        /\ \A g \in DOMAIN c.groups : c.groups[g] \subseteq Command \cup {"*"}
        /\ DOMAIN c.allow \subseteq Nat
        /\ \A k \in DOMAIN c.allow : /\ c.allow[k].group \in {"R", "W", "G"}
                                     /\ c.allow[k].net \subseteq Address
    /\ \A r \in Request :
        /\ r.form \in {"cmds", "notobject", "nocommand", "notstring"}
        /\ r.json \in BOOLEAN /\ r.join \in BOOLEAN
        /\ r.form # "cmds" => r.json
        /\ r.cmds \in Seq(STRING)
        /\ r.form = "cmds" => r.cmds # <<>>
        /\ r.join \/ Len(r.cmds) <= 1
        /\ r.join => r.param = "none"

VARIABLES
    config,             \* what the program was started with
    pc,                 \* where api() is
    client, group,      \* the connection
    request, todo,      \* the request and the commands of it that are left
    isjoin, firstjoin, cmdsbuf,
    buffer, close,      \* io_data
    sent,               \* the replies sent to this connection
    changed,            \* the handlers that changed the miner on this request
    bye, do_a_quit, do_a_restart,
    ipaccess,           \* the table of addresses is there
    life                \* of the program

vars == <<config, pc, client, group, request, todo, isjoin, firstjoin, cmdsbuf, buffer, close, sent,
          changed, bye, do_a_quit, do_a_restart, ipaccess, life>>

(***************************************************************************)
(* Groups and addresses                                                    *)
(***************************************************************************)
\* setup_groups: "*" stands for the commands that only read, and so does group R.
setup_groups(g) ==
    IF g = "R" THEN Command \ WriteMode
    ELSE (config.groups[g] \ {"*"}) \cup (IF "*" \in config.groups[g] THEN Command \ WriteMode ELSE {})

\* Mutant: the group is not looked at.
AnyCommand(g, name) == TRUE

\* ISPRIVGROUP(group) || strstr(COMMANDS(group), cmdbuf)
MayRun(g, name) == g = "W" \/ name \in setup_groups(g)

\* setup_ipaccess: entries that do not parse are dropped, the others keep their order; a group
\* nobody defined is R.
IpTable ==
    [k \in {n \in DOMAIN config.allow : config.allow[n].valid} |->
        [net |-> config.allow[k].net,
         group |-> IF config.allow[k].group \in {"R", "W"} \cup DOMAIN config.groups
                   THEN config.allow[k].group ELSE "R"]]

\* check_connect: the first entry that matches decides.
check_connect(address) ==
    LET hits == {k \in DOMAIN IpTable : address \in IpTable[k].net}
        first == CHOOSE k \in hits : \A h \in hits : k <= h
    IN  IF config.allow # <<>>
        THEN [ok |-> hits # {}, group |-> IF hits # {} THEN IpTable[first].group ELSE "R"]
        ELSE [ok |-> config.network \/ address = Local, group |-> "R"]

(***************************************************************************)
(* The API thread                                                          *)
(***************************************************************************)
\* With --api-allow and no entry that parses the API does not run.
Init ==
    /\ config \in Config
    /\ pc = IF config.allow # <<>> /\ DOMAIN IpTable = {} THEN "off" ELSE "accept"
    /\ client = Local
    /\ group = "R"
    /\ request = NoRequest
    /\ todo = <<>>
    /\ isjoin = FALSE
    /\ firstjoin = FALSE
    /\ cmdsbuf = {}
    /\ buffer = <<>>
    /\ close = FALSE
    /\ sent = <<>>
    /\ changed = {}
    /\ bye = FALSE
    /\ do_a_quit = FALSE
    /\ do_a_restart = FALSE
    /\ ipaccess = TRUE
    /\ life = "running"

endVars == <<config, bye, do_a_quit, do_a_restart, ipaccess, life>>

\* isjoin is only set when there are commands to look at: otherwise it is the last request's.
Accept ==
    /\ pc = "accept"
    /\ \E address \in Address, r \in Request :
        /\ check_connect(address).ok
        /\ client' = address
        /\ group' = check_connect(address).group
        /\ request' = r
        /\ IF r.form = "cmds"
           THEN /\ isjoin' = r.join
                /\ firstjoin' = r.join
                /\ buffer' = <<>>
                /\ pc' = "command"
           ELSE /\ buffer' = message(TRUE)
                /\ pc' = "send"
                /\ UNCHANGED <<isjoin, firstjoin>>
        /\ todo' = r.cmds
    /\ cmdsbuf' = {}
    /\ close' = FALSE
    /\ sent' = <<>>
    /\ changed' = {}
    /\ UNCHANGED endVars

AcceptFails ==
    /\ pc = "accept"
    /\ pc' = "die"
    /\ UNCHANGED <<client, group, request, todo, isjoin, firstjoin, cmdsbuf, buffer, close, sent,
                   changed, endVars>>

head_join ==
    IF ~isjoin THEN <<>>
    ELSE IF request.json THEN <<IF firstjoin THEN "{" ELSE ",", "key", "[">>
    ELSE <<"item">>

\* Mutant: a list is closed whether one is open or not.
AlwaysCloses(reply) == IF isjoin /\ request.json THEN <<"]", ",", "pair", "}", "]">> ELSE <<>>

\* tail_join closes the handler's list if it asked for it, its object, and the command's list.
tail_join(reply) ==
    IF ~isjoin THEN <<>>
    ELSE SendEnd(request.json, reply.close) \o (IF request.json THEN <<"]">> ELSE <<>>)

\* What a command of the request is answered with; ACCDENY and INVCMD are messages.
Answer(name) ==
    IF name \in Command /\ (isjoin => name \in Joinable) /\ MayRun(group, name)
    THEN cmds(name, config.miner, request.json, request.param)
    ELSE Status(request.json, FALSE)

NextTodo == Tail(todo)

\* One turn of the loop over the commands.  Nothing is answered for an empty name of a join, nor
\* for a name that was there before.
DoCommand ==
    /\ pc = "command"
    /\ LET name == Head(todo)
           skip == isjoin /\ (name = "" \/ name \in cmdsbuf)
           reply == Answer(name)
       IN  /\ IF skip
              THEN UNCHANGED <<firstjoin, cmdsbuf, buffer, close, changed, bye, do_a_quit, do_a_restart>>
              ELSE /\ buffer' = (IF reply.put THEN <<>> ELSE buffer \o head_join) \o reply.add
                                \o tail_join(reply)
                   /\ close' = (reply.close /\ ~isjoin)
                   /\ firstjoin' = FALSE
                   /\ cmdsbuf' = IF isjoin /\ name \in Command THEN cmdsbuf \cup {name} ELSE cmdsbuf
                   /\ changed' = IF reply.changes THEN changed \cup {name} ELSE changed
                   /\ bye' = (bye \/ reply.put)
                   /\ do_a_quit' = (do_a_quit \/ (reply.put /\ name = "quit"))
                   /\ do_a_restart' = (do_a_restart \/ (reply.put /\ name = "restart"))
           /\ todo' = NextTodo
           /\ pc' = IF isjoin /\ NextTodo # <<>> THEN "command" ELSE "send"
    /\ UNCHANGED <<config, client, group, request, isjoin, sent, ipaccess, life>>

\* send_result adds the closing marks to the buffer itself.  The client gets the whole buffer, or
\* less of it when it does not take it within a few attempts.
send_result ==
    /\ pc = "send"
    /\ buffer' = buffer \o SendEnd(request.json, close)
    /\ sent' \in {sent, Append(sent, buffer')}
    /\ pc' = IF request.form # "cmds" /\ isjoin THEN "again" ELSE "closed"
    /\ UNCHANGED <<client, group, request, todo, isjoin, firstjoin, cmdsbuf, close, changed, endVars>>

\* "if (isjoin) send_result(...)" after a request that was answered already.
SendAgain ==
    /\ pc = "again"
    /\ buffer' = buffer \o SendEnd(request.json, close)
    /\ sent' \in {sent, Append(sent, buffer')}
    /\ pc' = "closed"
    /\ UNCHANGED <<client, group, request, todo, isjoin, firstjoin, cmdsbuf, close, changed, endVars>>

CloseSocket ==
    /\ pc = "closed"
    /\ pc' = IF bye THEN "die" ELSE "accept"
    /\ client' = Local
    /\ group' = "R"
    /\ request' = NoRequest
    /\ cmdsbuf' = {}
    /\ buffer' = <<>>
    /\ close' = FALSE
    /\ sent' = <<>>
    /\ changed' = {}
    /\ UNCHANGED <<todo, isjoin, firstjoin, endVars>>

requestVars == <<client, group, request, todo, isjoin, firstjoin, cmdsbuf, buffer, close, sent, changed>>

tidyup ==
    /\ pc = "die"
    /\ pc' = "bye"
    /\ bye' = TRUE
    /\ ipaccess' = FALSE
    /\ UNCHANGED <<config, requestVars, do_a_quit, do_a_restart, life>>

\* Mutant: the thread is not started.
LosesThread == life' = life

\* A thread is started to restart or to quit, when one of them was asked for.
ByeThread ==
    life' = IF do_a_restart THEN "restart" ELSE IF do_a_quit THEN "quit" ELSE life

Bye ==
    /\ pc = "bye"
    /\ life # "crashed"
    /\ ByeThread
    /\ pc' = "done"
    /\ UNCHANGED <<config, requestVars, bye, do_a_quit, do_a_restart, ipaccess>>

\* restart_thread and quit_thread wait for api() to release the lock.
quit_thread ==
    /\ pc = "done"
    /\ life \in {"restart", "quit"}
    /\ life' = "ended"
    /\ UNCHANGED <<config, pc, requestVars, bye, do_a_quit, do_a_restart, ipaccess>>

Answering == DoCommand \/ send_result \/ SendAgain \/ CloseSocket \/ tidyup \/ Bye

ApiThread == Accept \/ AcceptFails \/ Answering

(***************************************************************************)
(* The multicast thread                                                    *)
(***************************************************************************)
\* It looks at the sender's address with check_connect, also after tidyup has freed the table
\* without resetting its length: the program then reads through a null pointer.
mcast ==
    /\ config.mcast
    /\ life \in {"running", "restart", "quit"}
    /\ config.allow # <<>>
    /\ ~ipaccess
    /\ life' = "crashed"
    /\ UNCHANGED <<config, pc, requestVars, bye, do_a_quit, do_a_restart, ipaccess>>

Next == ApiThread \/ quit_thread \/ mcast

\* The API thread and the thread it starts run; clients may stay away.
Fairness ==
    /\ WF_vars(Answering)
    /\ WF_vars(quit_thread)

Spec == Init /\ [][Next]_vars /\ Fairness

(***************************************************************************)
(* Properties                                                              *)
(***************************************************************************)
\* Requests whose replies lack or double a comma: see lcddisplay, minerstats and poolstatus, and a
\* join of nothing but plus signs, for which no object is opened.
CommaFlaw(r) ==
    \/ "lcd" \in Range(r.cmds)
    \/ "stats" \in Range(r.cmds) /\ config.miner.ascs + config.miner.pgas > 0
    \/ "pools" \in Range(r.cmds) /\ config.miner.pools # <<>> /\ config.miner.pools[1]
    \/ r.join /\ Range(r.cmds) \subseteq {""}

\* However it is put together - by message, the handler, print_data, head_join, tail_join and
\* send_result, for one command or several, known or unknown, allowed or denied - the reply to a
\* JSON request is one JSON object, sent once.  (Apart from the requests of CommaFlaw, and from a
\* malformed request that follows a joined one, which is answered twice.)
ReplyIsJson ==
    sent # <<>> /\ request.json /\ ~CommaFlaw(request) /\ ~(request.form # "cmds" /\ isjoin)
        => Json(sent[1]) /\ Len(sent) = 1

\* A client that no entry of --api-allow gives more than group R, and any client when there is no
\* --api-allow, changes nothing and ends nothing, whatever it joins.
OnlyReads ==
    changed' # {} \/ (bye' # bye /\ pc = "command")
        => \E k \in DOMAIN config.allow : client \in config.allow[k].net
                                            /\ config.allow[k].group # "R"

ReadersOnlyRead == [][OnlyReads]_vars

\* Every request that was accepted is done with, and a quit or a restart ends the program.
RequestsEnd ==
    /\ pc = "command" ~> pc \in {"accept", "die"}
    /\ do_a_quit \/ do_a_restart ~> life \in {"ended", "crashed"}
=============================================================================
