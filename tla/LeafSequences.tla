--------------------------- MODULE LeafSequences ----------------------------
(***************************************************************************)
(* What two neighbouring leaves of the tree promise its algorithms: each   *)
(* is a sequence of entries, and whatever moves entries between them keeps *)
(* the entries and their order.                                            *)
(***************************************************************************)
EXTENDS Sequences, Integers, SequencesExt

CONSTANT Entries

VARIABLES l, r    \* the entries of the left and of the right leaf

vars == <<l, r>>

\* One entry is put in, overwritten or taken out.
Edit(s, t) ==
    /\ t \in Seq(Entries)
    /\ \/ \E i \in DOMAIN t : i <= Len(s) + 1 /\ t = InsertAt(s, i, t[i])
       \/ \E i \in DOMAIN s : i \in DOMAIN t /\ t = [s EXCEPT ![i] = t[i]]
       \/ \E i \in DOMAIN s : t = RemoveAt(s, i)

Init == l \in Seq(Entries) /\ r \in Seq(Entries)

EditOne ==
    \/ Edit(l, l') /\ UNCHANGED r
    \/ Edit(r, r') /\ UNCHANGED l

\* A new leaf takes the upper half of the left one.
Split == l = l' \o r' /\ Len(l') = Len(l) \div 2

\* Entries move between the leaves, or all of them to the left one.
Move == l' \o r' = l \o r

\* The next pair of neighbours.
Advance == l' = r /\ r' \in Seq(Entries)

Next == EditOne \/ Split \/ Move \/ Advance

Spec == Init /\ [][Next]_vars

=============================================================================
