------------------------------ MODULE MCBTree -------------------------------
(***************************************************************************)
(* Instances of BTree for TLC.                                             *)
(***************************************************************************)
EXTENDS BTreeOrder

\* Trees to start from: none; one leaf; three levels grown at the right end and
\* at the left end, so that either side of the root has pages to spare; two
\* levels with a full leaf beside minimally filled ones; a full root above a
\* full middle leaf.  From these two operations reach every case of splitting,
\* merging and shifting on both kinds of pages.
MCPreloads ==
    {<<>>, <<2>>,
     <<1, 2, 3, 4, 5, 7, 8, 9, 10, 11, 12>>,
     <<12, 11, 10, 9, 8, 7, 6, 5, 4, 3, 2>>,
     <<12, 10, 8, 6, 4, 2, 1, 3, 11>>,
     <<1, 2, 6, 7, 8, 9, 10, 3, 4>>}

MCKeys == 1..12

=============================================================================
