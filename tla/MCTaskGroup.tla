---------------------------- MODULE MCTaskGroup ----------------------------
(* Instances of TaskGroup for TLC: an 8 x 8 grid of tasks, two jobs of two     *)
(* groups, four ranks with four tasks each.                                    *)
EXTENDS TaskGroup

\* List number x of a kind has one or two words; a word knows where it is from.
MCLists == [kind \in Kind |-> [x \in ListNo |-> [e \in 1 .. 1 + ((x + kind) % 2) |-> <<kind, x, e>>]]]

\* The triple of the e-th words of lists x, y and x ^ y.
MCTriple(x, y, e) == << <<0, x, e[1]>>, <<1, y, e[2]>>, <<2, XorNo(x, y), e[3]>> >>

\* Group 0 has two solutions of one rank, group 1 one solution of each of two
\* ranks, group 2 none and group 3 one in the last task of the grid.
MCXors == {MCTriple(0, 1, <<1, 1, 1>>), MCTriple(1, 1, <<2, 1, 1>>),
           MCTriple(3, 4, <<2, 2, 2>>), MCTriple(1, 6, <<2, 2, 2>>),
           MCTriple(7, 7, <<2, 1, 1>>)}
=============================================================================
