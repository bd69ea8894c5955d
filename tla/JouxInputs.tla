----------------------------- MODULE JouxInputs -----------------------------
(* Tasks that TLC gives JouxTask.  Words are told by their four leading bits,  *)
(* written as a number; the others are 0, and matrices leave them alone.       *)
EXTENDS GF2, Sequences, TLC

low == W - 4

\* The word whose leading bits have the value v.
Wd(v) == {b \in low .. W - 1 : (v \div 2 ^ (b - low)) % 2 = 1}
List(s) == [e \in DOMAIN s |-> Wd(s[e])]
Rows(s) == [b \in Bit |-> IF b < low THEN {b} ELSE Wd(s[b - low + 1])]

Identity == Rows(<<1, 2, 4, 8>>)
Swap == Rows(<<4, 8, 1, 2>>)             \* its own inverse
Shear == Rows(<<1, 2, 5, 12>>)           \* 4 -> 4^1, 8 -> 8^4
Unshear == Rows(<<1, 2, 5, 13>>)

\* Slices have l = 2: their words have two leading zeros.
One == [M |-> Identity, Minv |-> Identity, l |-> 2, CM |-> {Wd(1), Wd(3)}]
Two == [M |-> Swap, Minv |-> Swap, l |-> 2, CM |-> {Wd(2)}]
Three == [M |-> Shear, Minv |-> Unshear, l |-> 2, CM |-> {Wd(1)}]

TasksOf(As, Bs, Seqs) ==
    {[L |-> (0 :> List(a) @@ 1 :> List(b)), slices |-> s] : a \in As, b \in Bs, s \in Seqs}

MCTasks ==
    TasksOf({<<1, 2, 14>>, <<5, 4, 10>>, <<9, 10, 11, 3>>, <<0, 7, 13>>, <<6, 6, 12>>, <<1, 4, 9, 14, 13, 12>>},
            {<<3, 5, 8>>, <<0, 15>>, <<7, 12, 11, 4>>, <<10, 2>>},
            {<<One>>, <<Three>>, <<Two, Three>>, <<Three, One>>})
    \cup TasksOf({<<1, 2>>}, {<<3>>}, {<<>>})

\* Two solutions in one slice, and room for everything but them.
MCPair == TasksOf({<<4, 8>>}, {<<5, 11>>}, {<<One>>})
=============================================================================
