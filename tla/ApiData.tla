------------------------------ MODULE ApiData ------------------------------
(***************************************************************************)
(* custom_cgminer/api.c: what a handler's reply is made of.  A handler     *)
(* appends pairs of a name and a value to a circular list                  *)
(* (api_add_data_full), may append the list that a driver made of its own  *)
(* (api_add_extra), and print_data writes the list into a string that      *)
(* grows, freeing it on the way; io_add copies that string into the        *)
(* buffer of the reply.  The string is taken from a pool and keeps its     *)
(* size from one reply to the next, and so does the buffer.                *)
(*                                                                         *)
(* A node of the list has its type and the class of each character of its  *)
(* value, the name counts one character.  What is printed is told by its length; the  *)
(* marks of JSON are the subject of ApiReply.                              *)
(***************************************************************************)
EXTENDS Integers, Sequences, SequencesExt, FiniteSetsExt

CONSTANTS
    Node,               \* addresses malloc may return
    Nil,
    Value,              \* strings: sequences of "sep" (, | or =), "quote", "slash" and "plain"
    Number,             \* numbers as printed, at most 63 characters
    SBEXTEND,           \* 4096
    SOCKBUFALLOCSIZ,    \* 65536
    MARKS,              \* sizeof(JSON_CLOSE) + sizeof(JSON_END)
    MaxPrints           \* bound: lists printed

ApiDataAssumption ==
    /\ Nil \notin Node
    /\ Value \subseteq Seq({"sep", "quote", "slash", "plain"})
    /\ Number \subseteq Seq({"plain"})
    /\ {SBEXTEND, SOCKBUFALLOCSIZ, MARKS} \subseteq Nat \ {0}
    /\ MARKS < SOCKBUFALLOCSIZ
    /\ MaxPrints \in Nat

VARIABLES
    json,               \* isjson
    next, prev,         \* of the nodes
    root, extra,        \* the handler's list and the driver's
    value, data,        \* the values of the nodes; the nodes whose value is a copy
    printing,           \* print_data has begun
    siz, tot,           \* of the string
    io,                 \* dif and siz of the buffer
    overrun,            \* something was written past what is allocated
    made, printed,      \* the values in the order they should be printed, and were
    prints

listVars == <<next, prev, root, extra, value, data>>
textVars == <<siz, tot, io, overrun>>
vars == <<json, listVars, printing, textVars, made, printed, prints>>

Lists == {"root", "extra"}

Init ==
    /\ json \in BOOLEAN
    /\ next = <<>>
    /\ prev = <<>>
    /\ root = Nil
    /\ extra = Nil
    /\ value = <<>>
    /\ data = {}
    /\ printing = FALSE
    /\ siz = 0
    /\ tot = 0
    /\ io = [dif |-> 0, siz |-> SOCKBUFALLOCSIZ]
    /\ overrun = FALSE
    /\ made = [l \in Lists |-> <<>>]
    /\ printed = <<>>
    /\ prints = 0

(***************************************************************************)
(* The list                                                                *)
(***************************************************************************)
\* api_add_escape and the others tell api_add_data_full the type: a string to be escaped, one to be
\* printed as it is, or something that snprintf writes.
Item ==
    {[type |-> t, text |-> v] : t \in {"escape", "string"}, v \in Value}
        \cup {[type |-> "number", text |-> v] : v \in Number}

\* What a missing value is replaced by.
NULLSTR == [type |-> "string", text |-> <<"plain">>]

\* A new node n before head, or alone; one entry of a field is changed after another.
Linked(n, head) ==
    LET p1 == [x \in DOMAIN prev \cup {n} |-> IF x = n THEN (IF head = Nil THEN n ELSE prev[head])
                                                       ELSE prev[x]]
        p2 == IF head = Nil THEN p1 ELSE [p1 EXCEPT ![head] = n]
        n1 == [x \in DOMAIN next \cup {n} |-> IF x = n THEN (IF head = Nil THEN n ELSE head)
                                                       ELSE next[x]]
    IN  /\ prev' = p2
        /\ next' = IF head = Nil THEN n1 ELSE [n1 EXCEPT ![p2[n]] = n]

\* api_add_data_full: a missing value is not copied.  Which free address malloc returns tells
\* nothing.
AddData(l) ==
    /\ ~printing
    /\ prints < MaxPrints
    /\ Node # DOMAIN next
    /\ \E v \in Item \cup {NULLSTR}, copy_data \in BOOLEAN :
       LET n == CHOOSE x \in Node \ DOMAIN next : TRUE
       IN  /\ Linked(n, IF l = "root" THEN root ELSE extra)
           /\ value' = [x \in DOMAIN value \cup {n} |-> IF x = n THEN v ELSE value[x]]
           /\ data' = IF copy_data /\ v # NULLSTR THEN data \cup {n} ELSE data
           /\ root' = IF l = "root" /\ root = Nil THEN n ELSE root
           /\ extra' = IF l = "extra" /\ extra = Nil THEN n ELSE extra
           /\ made' = [made EXCEPT ![l] = Append(@, v)]
    /\ UNCHANGED <<json, printing, textVars, printed, prints>>

\* The last two assignments to next of api_add_extra.
Spliced == [next EXCEPT ![prev[root]] = extra, ![prev[extra]] = root]

AddExtra ==
    /\ ~printing
    /\ extra # Nil
    /\ IF root = Nil
       THEN root' = extra /\ UNCHANGED <<next, prev>>
       ELSE /\ next' = Spliced
            /\ prev' = [prev EXCEPT ![extra] = prev[root], ![root] = prev[extra]]
            /\ UNCHANGED root
    /\ extra' = Nil
    /\ made' = [root |-> made["root"] \o made["extra"], extra |-> <<>>]
    /\ UNCHANGED <<json, value, data, printing, textVars, printed, prints>>

(***************************************************************************)
(* Text                                                                    *)
(***************************************************************************)
Special(c) == c = "slash" \/ (c = "sep" /\ ~json) \/ (c = "quote" /\ json)

\* escape_string allocates for the special characters it counts and then writes.
Escaped(v) == FlattenSeq([i \in DOMAIN v |-> IF Special(v[i]) THEN <<"slash", v[i]>> ELSE <<v[i]>>])
EscapeRoom(v) == Len(v) + Quantify(DOMAIN v, LAMBDA i : Special(v[i])) + 1

\* Mutant: the size is rounded down.
RoundsDown(state, n) ==
    LET new == state[1] + n + 1
        grown == IF state[2] < new THEN state[2] + (n + 1) - ((n + 1) % SBEXTEND) ELSE state[2]
    IN  <<state[1] + n, grown, state[3] \/ grown < new>>

\* add_item_buf of one string: state is <<siz, tot, overrun>>.
add_item_buf(state, n) ==
    LET new == state[1] + n + 1
        grown == IF state[2] < new THEN state[2] + (n + 1) + SBEXTEND - ((n + 1) % SBEXTEND)
                                   ELSE state[2]
    IN  <<state[1] + n, grown, state[3] \/ grown < new>>

Written(strings) ==
    LET state == FoldLeft(add_item_buf, <<siz, tot, overrun>>, strings)
    IN  siz' = state[1] /\ tot' = state[2] /\ overrun' = state[3]

\* The lengths of what is printed of a node.
PairOf(v, first) ==
    LET quotes == IF json THEN <<1>> ELSE <<>>
    IN  (IF first THEN <<>> ELSE <<1>>) \o quotes \o <<1>> \o quotes \o <<1>>
        \o (CASE v.type = "escape" -> quotes \o <<Len(Escaped(v.text))>> \o quotes
              [] v.type = "string" -> quotes \o <<Len(v.text)>> \o quotes
              [] v.type = "number" -> <<Len(v.text)>>)

StartPrint ==
    /\ ~printing
    /\ extra = Nil
    /\ prints < MaxPrints
    /\ printing' = TRUE
    /\ LET state == IF json THEN add_item_buf(<<0, tot, overrun>>, 1) ELSE <<0, tot, overrun>>
       IN  siz' = state[1] /\ tot' = state[2] /\ overrun' = state[3]
    /\ UNCHANGED <<json, listVars, io, made, printed, prints>>

\* One turn of the loop of print_data: the node is printed, unlinked and freed.
PrintNode ==
    /\ printing
    /\ root # Nil
    /\ Written(PairOf(value[root], printed = <<>>))
    /\ printed' = Append(printed, value[root])
    /\ LET rest == DOMAIN next \ {root}
           last == next[root] = root
           head == next[root]
       IN  /\ root' = IF last THEN Nil ELSE head
           /\ prev' = [x \in rest |-> IF ~last /\ x = head THEN prev[root] ELSE prev[x]]
           /\ next' = [x \in rest |-> IF ~last /\ x = prev[root] THEN head ELSE next[x]]
           /\ value' = [x \in rest |-> value[x]]
           /\ data' = data \ {root}
    /\ UNCHANGED <<json, extra, printing, io, made, prints>>

\* io_add makes room for the string, its end and the marks that send_result may add.
IoAdded(len) ==
    LET need == len + 1 + io.dif + MARKS
        new == io.siz + 2 * SOCKBUFALLOCSIZ
    IN  [dif |-> io.dif + len,
         siz |-> IF need <= io.siz THEN io.siz
                 ELSE IF new < need THEN (2 + need \div SOCKBUFALLOCSIZ) * SOCKBUFALLOCSIZ
                 ELSE new]

\* The reply is added to the buffer, which the next request may empty (io_reinit).
EndPrint ==
    /\ printing
    /\ root = Nil
    /\ printing' = FALSE
    /\ LET state == add_item_buf(<<siz, tot, overrun>>, 1)
       IN  /\ siz' = state[1]
           /\ tot' = state[2]
           /\ overrun' = state[3]
           /\ io' \in {IoAdded(state[1]), [IoAdded(state[1]) EXCEPT !.dif = 0]}
    /\ made' = [l \in Lists |-> <<>>]
    /\ printed' = <<>>
    /\ prints' = prints + 1
    /\ UNCHANGED <<json, listVars>>

Next == (\E l \in Lists : AddData(l)) \/ AddExtra \/ StartPrint \/ PrintNode \/ EndPrint

Spec == Init /\ [][Next]_vars

(***************************************************************************)
(* Properties                                                              *)
(***************************************************************************)
\* The values met from a node on, and whether the list closes both ways.
Follows(head, values) ==
    IF head = Nil THEN values = <<>>
    ELSE LET n == Len(values)
             walk[k \in 0 .. n] == IF k = 0 THEN head ELSE next[walk[k - 1]]
         IN  /\ n > 0
             /\ walk[n] = head
             /\ \A k \in 0 .. n - 1 : value[walk[k]] = values[k + 1] /\ prev[walk[k + 1]] = walk[k]

\* A list holds what was added, in order, however it was put together and also while print_data
\* takes it apart, and nothing of it is left at the end; no string is written past what is
\* allocated for it, escaped characters and the marks that end the reply included.
DataPrinted ==
    /\ Follows(root, SubSeq(made["root"], Len(printed) + 1, Len(made["root"])))
    /\ Follows(extra, made["extra"])
    /\ printed = SubSeq(made["root"], 1, Len(printed))
    /\ root = Nil /\ extra = Nil => DOMAIN next = {} /\ data = {}
    /\ ~overrun
    /\ \A n \in DOMAIN value : Len(Escaped(value[n].text)) + 1 <= EscapeRoom(value[n].text)
    /\ io.dif + 1 + MARKS <= io.siz
=============================================================================
