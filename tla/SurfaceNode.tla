---------------------------- MODULE SurfaceNode -----------------------------
(***************************************************************************)
(* The inside of a leaf page (surface_node in stx/btree.h).  BTreePages    *)
(* takes a leaf for a sequence of keys and values; in the code an entry    *)
(* stays where it was written, in a cell, and an array of 16 bit numbers,  *)
(* permutations, says which cell a position of the page uses.  Cells are   *)
(* handed out by the counter allocated and given back by nobody: erase_d   *)
(* leaves the cell behind the last position, where insert_ picks it up.    *)
(*                                                                         *)
(* The module follows two neighbouring leaves through the operations that  *)
(* move entries within a leaf and between them.  A key and its value have  *)
(* the same cell number and are moved by the same loops: an entry is both. *)
(* Positions and cells count from 0, as in the code.                       *)
(***************************************************************************)
EXTENDS Integers, Sequences, SequencesExt

CONSTANTS
    Slots,      \* surfaceslotmax
    Lengths,    \* numbers of entries of the leaves a run starts from
    MaxSteps    \* bound: operations

ASSUME SlotsAssumption ==
    /\ Slots \in Nat \ {0} /\ Slots % 2 = 0
    /\ Lengths \subseteq 1..Slots
    /\ MaxSteps \in Nat

VARIABLES
    left, right,    \* two neighbouring leaves
    steps           \* operations so far

vars == <<left, right, steps>>

Positions == 0..(Slots - 1)

Unset == Slots    \* permutations[at] == surfaceslotmax

Junk == 0         \* what a cell holds that was never written

\* The entries of a run are different from one another: those of the leaves it
\* starts from, then one for each step.
Entry(leaf, i) == leaf * Slots + i + 1

NewEntry(s) == 3 * Slots + s + 1

MinSurfaces == Slots \div 2

IsFull(p) == p.occupants = Slots

IsFew(p) == p.occupants <= MinSurfaces

IsUnderflow(p) == p.occupants < MinSurfaces

----------------------------------------------------------------------------
(* One page                                                                *)

\* initialize.  threw: bad_format was thrown.
NewPage ==
    [occupants |-> 0, allocated |-> 0, threw |-> FALSE,
     permutations |-> [i \in Positions |-> Unset], cells |-> [i \in Positions |-> Junk]]

Allocate(p, at) ==
    [p EXCEPT !.permutations[at] = p.allocated, !.allocated = @ + 1]

\* init_key_allocation: a position without a cell gets the next one.  When all
\* are handed out it takes away the cells behind the occupants, or throws.
InitKeyAllocation(p, at) ==
    IF p.permutations[at] # Unset THEN p
    ELSE IF p.allocated < Slots THEN Allocate(p, at)
    ELSE IF p.occupants < p.allocated
    THEN Allocate([p EXCEPT !.permutations = [i \in Positions |-> IF i < p.occupants THEN @[i] ELSE Unset],
                            !.allocated = p.occupants], at)
    ELSE [p EXCEPT !.threw = TRUE]

Store(p, at, e) ==
    IF p.threw THEN p ELSE [p EXCEPT !.cells[p.permutations[at]] = e]

\* get_key(at) = k; get_value(at) = v
Write(p, at, e) == Store(InitKeyAllocation(p, at), at, e)

\* set_kv, which has no second way to get a cell
SetKv(p, at, e) ==
    IF p.permutations[at] # Unset THEN Store(p, at, e)
    ELSE IF p.allocated = Slots THEN [p EXCEPT !.threw = TRUE]
    ELSE Store(Allocate(p, at), at, e)

Read(p, at) == IF p.permutations[at] = Unset THEN Junk ELSE p.cells[p.permutations[at]]

\* A slip: the cell behind the last entry is overwritten by the shift
Insert_Overwriting(p, at, e) ==
    LET shifted == [i \in Positions |->
                        IF i > at /\ i <= p.occupants THEN p.permutations[i - 1] ELSE p.permutations[i]]
    IN  [Write([p EXCEPT !.permutations = shifted], at, e) EXCEPT !.occupants = @ + 1]

\* insert_: the cell behind the last entry, if it has one, comes to position at.
Insert_(p, at, e) ==
    LET shifted == [i \in Positions |->
                        IF i > at /\ i <= p.occupants THEN p.permutations[i - 1] ELSE p.permutations[i]]
    IN  [Write([p EXCEPT !.permutations = [shifted EXCEPT ![at] = p.permutations[p.occupants]]], at, e)
            EXCEPT !.occupants = @ + 1]

\* A slip: the cell of the erased entry is forgotten
EraseForgets(p, slot) ==
    LET e == p.occupants - 1
    IN  [p EXCEPT !.permutations = [i \in Positions |->
                        IF i = e THEN Unset ELSE IF i >= slot /\ i < e THEN @[i + 1] ELSE @[i]],
                  !.occupants = e]

\* erase_d: the cell of the erased entry goes behind the last one.
EraseD(p, slot) ==
    LET e == p.occupants - 1
    IN  [p EXCEPT !.permutations = [i \in Positions |->
                        IF i = e THEN @[slot] ELSE IF i >= slot /\ i < e THEN @[i + 1] ELSE @[i]],
                  !.occupants = e]

----------------------------------------------------------------------------
(* Loops over pages.  The numbers 0 to n - 1 going up, and going down.     *)

Up(n) == [i \in 1..n |-> i - 1]

Down(n) == [i \in 1..n |-> n - i]

\* One position after another, at[1] first, is given its entry.  The loops are
\* recursive functions: page[k] is the page after k rounds.
Fill(p, at, es) ==
    LET page[k \in 0..Len(at)] == IF k = 0 THEN p ELSE Write(page[k - 1], at[k], es[k])
    IN  page[Len(at)]

\* for i in order: to->get(i + shift) = from->get(i + offset)
Copy(to, shift, from, offset, order) ==
    Fill(to, [k \in DOMAIN order |-> order[k] + shift],
             [k \in DOMAIN order |-> Read(from, order[k] + offset)])

\* The same within one page: a round reads what the rounds before it left.
MoveWithin(p, shift, offset, order) ==
    LET Round(q, i) == Write(q, i + shift, Read(q, i + offset))
        page[k \in 0..Len(order)] == IF k = 0 THEN p ELSE Round(page[k - 1], order[k])
    IN  page[Len(order)]

Occupy(p, n) == [p EXCEPT !.occupants = n]

\* save encodes the entries in order, load reads them into a new page, the
\* number of occupants first.
Load(s) == Fill(Occupy(NewPage, Len(s)), Up(Len(s)), s)

EntriesOf(p) == [i \in 1..p.occupants |-> Read(p, i - 1)]

\* split_surface_node: the upper half is copied to a new page.
SplitOff(p) ==
    LET mid == p.occupants \div 2
        n == p.occupants - mid
        page[k \in 0..n] ==
            IF k = 0 THEN Occupy(NewPage, n) ELSE SetKv(page[k - 1], k - 1, Read(p, mid + (k - 1)))
    IN  page[n]

----------------------------------------------------------------------------
(* Actions                                                                 *)

Init ==
    /\ \E m, n \in Lengths :
        /\ left = Load([i \in 1..m |-> Entry(0, i - 1)])
        /\ right = Load([i \in 1..n |-> Entry(1, i - 1)])
    /\ steps = 0

Step == steps < MaxSteps /\ steps' = steps + 1

\* insert_descend puts an entry into a leaf that is not full.
Insert ==
    /\ Step
    /\ \/ \E at \in 0..left.occupants :
            ~IsFull(left) /\ left' = Insert_(left, at, NewEntry(steps)) /\ UNCHANGED right
       \/ \E at \in 0..right.occupants :
            ~IsFull(right) /\ right' = Insert_(right, at, NewEntry(steps)) /\ UNCHANGED left

\* operator[] of the map: the value of an entry is assigned.
Assign ==
    /\ Step
    /\ \E at \in 0..(left.occupants - 1) : left' = Write(left, at, NewEntry(steps))
    /\ UNCHANGED right

Erase ==
    /\ Step
    /\ \/ \E at \in 0..(left.occupants - 1) : left' = EraseD(left, at) /\ UNCHANGED right
       \/ \E at \in 0..(right.occupants - 1) : right' = EraseD(right, at) /\ UNCHANGED left

\* insert_descend splits a full leaf.
Split ==
    /\ Step
    /\ IsFull(left)
    /\ right' = SplitOff(left)
    /\ left' = Occupy(left, left.occupants \div 2)

\* merge_leaves of a leaf that is too small and one that has nothing to spare
Merge ==
    /\ Step
    /\ IsFew(left) /\ IsFew(right) /\ (IsUnderflow(left) \/ IsUnderflow(right))
    /\ left' = Occupy(Copy(left, left.occupants, right, 0, Up(right.occupants)),
                      left.occupants + right.occupants)
    /\ right' = Occupy(right, 0)

\* A slip: the page is walked towards the entries still to be moved
ShiftLeftDown ==
    /\ Step
    /\ IsUnderflow(left) /\ ~IsFew(right)
    /\ LET n == (right.occupants - left.occupants) \div 2
           rest == right.occupants - n
       IN  /\ left' = Occupy(Copy(left, left.occupants, right, 0, Up(n)), left.occupants + n)
           /\ right' = MoveWithin(Occupy(right, rest), 0, n, Down(rest))

\* shift_left_surface
ShiftLeft ==
    /\ Step
    /\ IsUnderflow(left) /\ ~IsFew(right)
    /\ LET n == (right.occupants - left.occupants) \div 2
           rest == right.occupants - n
       IN  /\ left' = Occupy(Copy(left, left.occupants, right, 0, Up(n)), left.occupants + n)
           /\ right' = MoveWithin(Occupy(right, rest), 0, n, Up(rest))

\* shift_right_surface
ShiftRight ==
    /\ Step
    /\ IsUnderflow(right) /\ ~IsFew(left)
    /\ LET n == (left.occupants - right.occupants) \div 2
           moved == MoveWithin(right, n, 0, Down(right.occupants))
       IN  /\ right' = Copy(Occupy(moved, right.occupants + n), 0, left, left.occupants - n, Up(n))
           /\ left' = Occupy(left, left.occupants - n)

\* A page is saved, dropped and loaded again.
Reload ==
    /\ Step
    /\ left' = Load(EntriesOf(left))
    /\ UNCHANGED right

\* The next pair of neighbours: the leaf behind right is loaded.
Advance ==
    /\ Step
    /\ left' = right
    /\ \E n \in Lengths : right' = Load([i \in 1..n |-> Entry(2, i - 1)])

Done == steps = MaxSteps /\ UNCHANGED vars

Next ==
    \/ Insert \/ Assign \/ Erase \/ Split \/ Merge
    \/ ShiftLeft \/ ShiftRight \/ Reload \/ Advance \/ Done

Spec == Init /\ [][Next]_vars

----------------------------------------------------------------------------
(* Properties                                                              *)

Pages == {left, right}

\* No two positions of a page share a cell, and the positions that have one are
\* the first ones, the occupied ones among them: what insert_, erase_d and the
\* loops in either direction rely on, none of which checks it.
CellsDistinct ==
    \A p \in Pages :
        /\ p.occupants <= p.allocated
        /\ \A i \in Positions : p.permutations[i] = Unset <=> i >= p.allocated
        /\ \A i, j \in 0..(p.allocated - 1) : p.permutations[i] = p.permutations[j] => i = j
        /\ \A i \in 0..(p.allocated - 1) : p.permutations[i] < p.allocated

\* "cannot allocate any more keys" never happens, in a page that has been
\* through any number of splits, shifts and merges.
NeverThrows == \A p \in Pages : ~p.threw

LS == INSTANCE LeafSequences WITH
    Entries <- 1..(3 * Slots + MaxSteps),
    l <- EntriesOf(left), r <- EntriesOf(right)

\* The leaves are the sequences BTreePages takes them for: no operation on the
\* cells loses, doubles or swaps entries.
AreSequences == LS!Spec

=============================================================================
