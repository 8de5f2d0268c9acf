----------------------------- MODULE BTreePages -----------------------------
(***************************************************************************)
(* The page algorithms of stx::btree (stx/btree.h) on the handle of one    *)
(* tree, as operators from handles to handles.                             *)
(*                                                                         *)
(* A handle h is a record:                                                 *)
(*   root, head, last  addresses of the root, the first and the last leaf, *)
(*                     0 for NULL_REF                                      *)
(*   size              stats.tree_size                                     *)
(*   mem               nodes_loaded: address -> [page, s], s the page's    *)
(*                     state.  A page that was read and not changed equals *)
(*                     its block and is not kept here.                     *)
(*   modified          addresses of the pages flush will save              *)
(*   blocks            what the transaction's storage holds: page is a     *)
(*                     function on addresses, boot the boot values 1 to 4  *)
(*   start             stats.start_*: boot values as last read or written  *)
(*   next              next address the storage hands out                  *)
(*                                                                         *)
(* A leaf (surface) has keys, vals and the links prev and next; an         *)
(* interior page has keys and one more kid than keys.  Slots count from 1. *)
(*                                                                         *)
(* A loop is a function from the number of its rounds, a recursive descent *)
(* a function from the depth of the call.  A path from the root has fewer  *)
(* than next pages, which bounds both.                                     *)
(***************************************************************************)
EXTENDS Integers, Sequences, FiniteSets, SequencesExt

CONSTANTS
    SurfaceSlots,    \* surfaceslotmax
    InteriorSlots    \* interiorslotmax

\* Leaves with fewer than two keys after an underflow would have no last key.
ASSUME SlotsAssumption ==
    /\ SurfaceSlots \in Nat /\ SurfaceSlots >= 4
    /\ InteriorSlots \in Nat /\ InteriorSlots >= 2

NULL_REF == 0

\* Result of a step that leaves no key for an ancestor to update.
NoKey == 0

----------------------------------------------------------------------------
(* Pages and their states                                                  *)

EmptyBlocks == [page |-> <<>>, boot |-> [root |-> 0, size |-> 0, head |-> 0, last |-> 0]]

NewHandle(blocks, next) ==
    [root |-> NULL_REF, head |-> NULL_REF, last |-> NULL_REF, size |-> 0,
     mem |-> <<>>, modified |-> {}, blocks |-> blocks,
     start |-> EmptyBlocks.boot, next |-> next]

\* operator-> of a page pointer: the loaded node, else the decoded block.
Page(h, a) == IF a \in DOMAIN h.mem THEN h.mem[a].page ELSE h.blocks.page[a]

Occupants(h, a) == Len(Page(h, a).keys)

IsSurface(p) == p.level = 0

IsFull(p) == Len(p.keys) = IF IsSurface(p) THEN SurfaceSlots ELSE InteriorSlots

MinSlots(p) == (IF IsSurface(p) THEN SurfaceSlots ELSE InteriorSlots) \div 2

IsFew(p) == Len(p.keys) <= MinSlots(p)

IsUnderflow(p) == Len(p.keys) < MinSlots(p)

\* change_before and the assignments that follow it: a page that is not yet
\* created or changed becomes changed and joins modified.
Change(h, a, p) ==
    LET dirty == a \in DOMAIN h.mem /\ h.mem[a].s # "loaded"
        s == IF dirty THEN h.mem[a].s ELSE "changed"
    IN  [h EXCEPT !.mem = [b \in DOMAIN @ \cup {a} |->
                              IF b = a THEN [page |-> p, s |-> s] ELSE @[b]],
                  !.modified = IF dirty THEN @ ELSE @ \cup {a}]

\* allocate_surface, allocate_interior: a new address, created and modified.
Create(h, p) ==
    [h EXCEPT !.mem = [b \in DOMAIN @ \cup {h.next} |->
                          IF b = h.next THEN [page |-> p, s |-> "created"] ELSE @[b]],
              !.modified = @ \cup {h.next},
              !.next = @ + 1]

----------------------------------------------------------------------------
(* Searching a page                                                        *)

\* A round of the search for the first key that is not less than k: the keys
\* before l are less than k, those at and behind h are not (both from 0).
Halve(keys, k, s) ==
    LET m == (s.l + s.h) \div 2
    IN  IF s.l >= s.h THEN s
        ELSE IF k <= keys[m + 1] THEN [s EXCEPT !.h = m] ELSE [s EXCEPT !.l = m + 1]

BinaryLower(keys, k) ==
    LET span[i \in 0..Len(keys)] ==
            IF i = 0 THEN [l |-> 0, h |-> Len(keys)] ELSE Halve(keys, k, span[i - 1])
    IN  span[Len(keys)].l

\* A slip: the hint is trusted when the key is not larger than the one it names
FindLowerTrusting(keys, k, lastFound) ==
    IF lastFound > 0 /\ lastFound < Len(keys) /\ k <= keys[lastFound + 1]
    THEN lastFound + 1
    ELSE BinaryLower(keys, k) + 1

\* node::find_lower with its last_found hint (both count from 0 in the code).
FindLower(keys, k, lastFound) ==
    IF /\ lastFound > 0 /\ lastFound < Len(keys)
       /\ k <= keys[lastFound + 1] /\ keys[lastFound] < k
    THEN lastFound + 1
    ELSE BinaryLower(keys, k) + 1

\* A round of the search for the first key greater than k, among lo..hi.
HalveUpper(keys, k, s) ==
    LET mid == (s.lo + s.hi) \div 2
    IN  IF s.lo >= s.hi THEN s
        ELSE IF k < keys[mid + 1] THEN [s EXCEPT !.hi = mid - 1] ELSE [s EXCEPT !.lo = mid + 1]

BinaryUpper(keys, k) ==
    LET span[i \in 0..Len(keys)] ==
            IF i = 0 THEN [lo |-> 0, hi |-> Len(keys) - 1] ELSE HalveUpper(keys, k, span[i - 1])
        hi == span[Len(keys)].hi
    IN  IF hi < 0 \/ keys[hi + 1] <= k THEN hi + 1 ELSE hi

\* find_upper
FindUpper(keys, k) == IF keys = <<>> THEN 1 ELSE BinaryUpper(keys, k) + 1

\* The slot of a page that a search for k goes on with.
SlotOf(p, k, upper) == IF upper THEN FindUpper(p.keys, k) ELSE FindLower(p.keys, k, 0)

\* The loop of find, lower_bound and upper_bound: the page reached after i
\* rounds.  It ends in a leaf.
Path(h, k, upper) ==
    LET Below(a, p) == IF IsSurface(p) THEN a ELSE p.kids[SlotOf(p, k, upper)]
        Down(a) == Below(a, Page(h, a))
        path[i \in 0..h.next] == IF i = 0 THEN h.root ELSE Down(path[i - 1])
    IN  path

Descend(h, k, upper) ==
    LET At(a) == [leaf |-> a, slot |-> SlotOf(Page(h, a), k, upper)]
    IN  At(Path(h, k, upper)[h.next])

LowerBound(h, k) == Descend(h, k, FALSE)

UpperBound(h, k) == Descend(h, k, TRUE)

\* operator++ of the iterator; the position after the last key is end().
Ascend(h, i) ==
    LET p == Page(h, i.leaf)
    IN  IF i.slot < Len(p.keys) THEN [i EXCEPT !.slot = @ + 1]
        ELSE IF p.next # NULL_REF THEN [leaf |-> p.next, slot |-> 1]
        ELSE [i EXCEPT !.slot = Len(p.keys) + 1]

\* operator--: stays on the first key.
Retreat(h, i) ==
    LET p == Page(h, i.leaf)
    IN  IF i.slot > 1 THEN [i EXCEPT !.slot = @ - 1]
        ELSE IF p.prev # NULL_REF
        THEN [leaf |-> p.prev, slot |-> Occupants(h, p.prev)]
        ELSE [i EXCEPT !.slot = 1]

----------------------------------------------------------------------------
(* Insertion                                                               *)

\* A slip: the leaf behind keeps its link to the split one
SplitSurfaceOneWay(h, a) ==
    LET p == Page(h, a)
        mid == Len(p.keys) \div 2
        g == Create(Change(h, a, [p EXCEPT !.keys = SubSeq(@, 1, mid), !.vals = SubSeq(@, 1, mid),
                                           !.next = h.next]),
                    [p EXCEPT !.keys = SubSeq(@, mid + 1, Len(@)),
                              !.vals = SubSeq(@, mid + 1, Len(@)), !.prev = a])
    IN  IF p.next = NULL_REF THEN [g EXCEPT !.last = h.next] ELSE g

\* split_surface_node: the upper half moves to a new leaf behind this one.
SplitSurface(h, a) ==
    LET p == Page(h, a)
        n == h.next
        mid == Len(p.keys) \div 2
        lower == [p EXCEPT !.keys = SubSeq(@, 1, mid), !.vals = SubSeq(@, 1, mid), !.next = n]
        upper == [p EXCEPT !.keys = SubSeq(@, mid + 1, Len(@)),
                           !.vals = SubSeq(@, mid + 1, Len(@)), !.prev = a]
        g == Create(Change(h, a, lower), upper)
    IN  IF p.next = NULL_REF THEN [g EXCEPT !.last = n]
        ELSE Change(g, p.next, [Page(g, p.next) EXCEPT !.prev = n])

\* split_interior_node and the choice insert_descend makes after it: where a
\* child that follows slot "at" goes, and the key the parent gets.
SplitInterior(h, a, at, key, child) ==
    LET p == Page(h, a)
        occ == Len(p.keys)
        half == occ \div 2
        mid == IF at - 1 <= half /\ half > occ - (half + 1) THEN half - 1 ELSE half
        lower == [p EXCEPT !.keys = SubSeq(@, 1, mid), !.kids = SubSeq(@, 1, mid + 1)]
        upper == [p EXCEPT !.keys = SubSeq(@, mid + 2, occ), !.kids = SubSeq(@, mid + 2, occ + 1)]
        Put(q, i) == [q EXCEPT !.keys = InsertAt(@, i, key), !.kids = InsertAt(@, i + 1, child)]
        Both(l, u, up) == [h |-> Create(Change(h, a, l), u), key |-> up]
    IN  IF at = mid + 2 /\ mid < Len(upper.keys)
        THEN Both([lower EXCEPT !.keys = Append(@, p.keys[mid + 1]),
                                !.kids = Append(@, upper.kids[1])],
                  [upper EXCEPT !.kids[1] = child], key)
        ELSE IF at >= mid + 2 THEN Both(lower, Put(upper, at - (mid + 1)), p.keys[mid + 1])
        ELSE Both(Put(lower, at), upper, p.keys[mid + 1])

\* The results of insert_descend: the handle, whether the key is new, and the
\* page and key a split leaves to the parent.
Inserted(h, isNew, split, key) == [h |-> h, isNew |-> isNew, split |-> split, key |-> key]

PutAt(h, a, at, k, v) ==
    Change(h, a, [Page(h, a) EXCEPT !.keys = InsertAt(@, at, k), !.vals = InsertAt(@, at, v)])

\* The key goes to one of the leaves a and b, split from one another.  (The
\* case of a key behind the last one of a does not occur: it goes to b.)
InsertSplit(h, a, b, at, k, v) ==
    Inserted(IF at > Occupants(h, a) THEN PutAt(h, b, at - Occupants(h, a), k, v)
                                     ELSE PutAt(h, a, at, k, v),
             TRUE, b, Last(Page(h, a).keys))

InsertLeaf(h, a, p, at, k, v) ==
    IF at <= Len(p.keys) /\ p.keys[at] = k
    THEN Inserted(Change(h, a, [p EXCEPT !.vals[at] = v]), FALSE, NULL_REF, NoKey)
    ELSE IF IsFull(p) THEN InsertSplit(SplitSurface(h, a), a, h.next, at, k, v)
    ELSE Inserted(PutAt(h, a, at, k, v), TRUE, NULL_REF, NoKey)

\* The kid at slot "at" of page a has returned r.
InsertKid(r, a, p, at) ==
    IF r.split = NULL_REF THEN r
    ELSE IF IsFull(p) THEN
        LET Up(s) == Inserted(s.h, r.isNew, r.h.next, s.key)
        IN  Up(SplitInterior(r.h, a, at, r.key, r.split))
    ELSE Inserted(Change(r.h, a, [p EXCEPT !.keys = InsertAt(@, at, r.key),
                                           !.kids = InsertAt(@, at + 1, r.split)]),
                  r.isNew, NULL_REF, NoKey)

\* insert_descend, with the assignment of btree_map::operator[]: what the call
\* at depth i returns, down the path of k.
InsertDescend(h, k, v) ==
    LET path == Path(h, k, FALSE)
        Slot(a) == SlotOf(Page(h, a), k, FALSE)
        call[i \in 0..h.next] ==
            IF i = h.next \/ IsSurface(Page(h, path[i]))
            THEN InsertLeaf(h, path[i], Page(h, path[i]), Slot(path[i]), k, v)
            ELSE InsertKid(call[i + 1], path[i], Page(h, path[i]), Slot(path[i]))
    IN  call[0]

\* The end of insert_start: a new root above a split one.
Grow(r, root) ==
    LET up == [level |-> Page(r.h, root).level + 1, keys |-> <<r.key>>, kids |-> <<root, r.split>>]
        g == IF r.split = NULL_REF THEN r.h ELSE [Create(r.h, up) EXCEPT !.root = r.h.next]
    IN  [g EXCEPT !.size = IF r.isNew THEN @ + 1 ELSE @]

\* insert_start
Insert(h, k, v) ==
    LET leaf == [level |-> 0, keys |-> <<>>, vals |-> <<>>, prev |-> NULL_REF, next |-> NULL_REF]
        Start(g) == Grow(InsertDescend(g, k, v), g.root)
    IN  Start(IF h.root # NULL_REF THEN h
              ELSE [Create(h, leaf) EXCEPT !.root = h.next, !.head = h.next, !.last = h.next])

----------------------------------------------------------------------------
(* Erasing.  A step returns the handle and, for the caller, the last key   *)
(* an ancestor has to take over (btree_update_lastkey) and whether a child *)
(* was emptied by a merge (btree_fixmerge).                                *)

Result(h, lastkey, merged) == [h |-> h, lastkey |-> lastkey, merged |-> merged]

\* merge_leaves: all of right moves to left, which takes over right's link.
MergeLeaves(h, left, right) ==
    LET l == Page(h, left)
        r == Page(h, right)
        g == Change(Change(h, left, [l EXCEPT !.keys = @ \o r.keys, !.vals = @ \o r.vals,
                                              !.next = r.next]),
                    right, [r EXCEPT !.keys = <<>>, !.vals = <<>>])
    IN  Result(IF r.next = NULL_REF THEN [g EXCEPT !.last = left]
               ELSE Change(g, r.next, [Page(g, r.next) EXCEPT !.prev = left]),
               NoKey, TRUE)

\* merge_interior: the separator comes down from the parent.
MergeInterior(h, left, right, parent, slot) ==
    LET l == Page(h, left)
        r == Page(h, right)
    IN  Result(Change(Change(h, left, [l EXCEPT !.keys = Append(@, Page(h, parent).keys[slot]) \o r.keys,
                                                !.kids = @ \o r.kids]),
                      right, [r EXCEPT !.keys = <<>>, !.kids = SubSeq(@, 1, 1)]),
               NoKey, TRUE)

SetKey(h, a, slot, k) == Change(h, a, [Page(h, a) EXCEPT !.keys[slot] = k])

\* shift_left_surface: the first keys of right move to the end of left.
ShiftLeftSurface(h, left, right, parent, slot) ==
    LET l == Page(h, left)
        r == Page(h, right)
        n == (Len(r.keys) - Len(l.keys)) \div 2
        g == Change(Change(h, left, [l EXCEPT !.keys = @ \o SubSeq(r.keys, 1, n),
                                              !.vals = @ \o SubSeq(r.vals, 1, n)]),
                    right, [r EXCEPT !.keys = SubSeq(@, n + 1, Len(@)),
                                     !.vals = SubSeq(@, n + 1, Len(@))])
        up == Last(Page(g, left).keys)
    IN  IF slot <= Occupants(g, parent) THEN Result(SetKey(g, parent, slot, up), NoKey, FALSE)
        ELSE Result(Change(g, parent, Page(g, parent)), up, FALSE)

\* shift_right_surface: the last keys of left move to the front of right.
ShiftRightSurface(h, left, right, parent, slot) ==
    LET l == Page(h, left)
        r == Page(h, right)
        n == (Len(l.keys) - Len(r.keys)) \div 2
        keep == Len(l.keys) - n
        g == Change(Change(h, right, [r EXCEPT !.keys = SubSeq(l.keys, keep + 1, Len(l.keys)) \o @,
                                               !.vals = SubSeq(l.vals, keep + 1, Len(l.vals)) \o @]),
                    left, [l EXCEPT !.keys = SubSeq(@, 1, keep), !.vals = SubSeq(@, 1, keep)])
    IN  Result(SetKey(g, parent, slot, l.keys[keep]), NoKey, FALSE)

\* shift_left_interior: kids of right move to left through the separator.
ShiftLeftInterior(h, left, right, parent, slot) ==
    LET l == Page(h, left)
        r == Page(h, right)
        n == (Len(r.keys) - Len(l.keys)) \div 2
        g == Change(Change(h, left,
                [l EXCEPT !.keys = Append(@, Page(h, parent).keys[slot]) \o SubSeq(r.keys, 1, n - 1),
                          !.kids = @ \o SubSeq(r.kids, 1, n)]),
                right, [r EXCEPT !.keys = SubSeq(@, n + 1, Len(@)),
                                 !.kids = SubSeq(@, n + 1, Len(@))])
    IN  Result(SetKey(g, parent, slot, r.keys[n]), NoKey, FALSE)

\* shift_right_interior: the same in the other direction.
ShiftRightInterior(h, left, right, parent, slot) ==
    LET l == Page(h, left)
        r == Page(h, right)
        n == (Len(l.keys) - Len(r.keys)) \div 2
        keep == Len(l.keys) - n
        g == Change(Change(h, right,
                [r EXCEPT !.keys = Append(SubSeq(l.keys, keep + 2, Len(l.keys)),
                                          Page(h, parent).keys[slot]) \o @,
                          !.kids = SubSeq(l.kids, keep + 2, Len(l.kids)) \o @]),
                left, [l EXCEPT !.keys = SubSeq(@, 1, keep), !.kids = SubSeq(@, 1, keep + 1)])
    IN  Result(SetKey(g, parent, slot, l.keys[keep + 1]), NoKey, FALSE)

Merge(h, left, right, parent, slot) ==
    IF IsSurface(Page(h, left)) THEN MergeLeaves(h, left, right)
    ELSE MergeInterior(h, left, right, parent, slot)

ShiftLeft(h, left, right, parent, slot) ==
    IF IsSurface(Page(h, left)) THEN ShiftLeftSurface(h, left, right, parent, slot)
    ELSE ShiftLeftInterior(h, left, right, parent, slot)

ShiftRight(h, left, right, parent, slot) ==
    IF IsSurface(Page(h, left)) THEN ShiftRightSurface(h, left, right, parent, slot)
    ELSE ShiftRightInterior(h, left, right, parent, slot)

\* The neighbours erase_one_descend passes down: left and right of page a, the
\* pages that separate them from it (lparent, rparent), its own parent and its
\* slot there.
RootContext == [left |-> NULL_REF, right |-> NULL_REF, lparent |-> NULL_REF,
                rparent |-> NULL_REF, parent |-> NULL_REF, slot |-> 0]

\* The neighbours of the kid at slot.  As in the code, the left neighbour in
\* another page is its last kid but one.
KidContext(h, a, slot, c) ==
    LET p == Page(h, a)
    IN  [left |-> IF slot > 1 THEN p.kids[slot - 1]
                  ELSE IF c.left = NULL_REF THEN NULL_REF
                  ELSE Page(h, c.left).kids[Occupants(h, c.left)],
         lparent |-> IF slot > 1 THEN a ELSE c.lparent,
         right |-> IF slot <= Len(p.keys) THEN p.kids[slot + 1]
                   ELSE IF c.right = NULL_REF THEN NULL_REF ELSE Page(h, c.right).kids[1],
         rparent |-> IF slot <= Len(p.keys) THEN a ELSE c.rparent,
         parent |-> a, slot |-> slot]

\* The cases of an underflow of page a that is not the root.
Balance(h, a, c) ==
    LET few(b) == b = NULL_REF \/ IsFew(Page(h, b))
        spare(b) == b # NULL_REF /\ ~IsFew(Page(h, b))
        mergeLeft == Merge(h, c.left, a, c.lparent, c.slot - 1)
        mergeRight == Merge(h, a, c.right, c.rparent, c.slot)
        fromRight == ShiftLeft(h, a, c.right, c.rparent, c.slot)
        fromLeft == ShiftRight(h, c.left, a, c.lparent, c.slot - 1)
    IN  CASE few(c.left) /\ few(c.right) ->
                IF c.lparent = c.parent THEN mergeLeft ELSE mergeRight
          [] c.left # NULL_REF /\ few(c.left) /\ spare(c.right) ->
                IF c.rparent = c.parent THEN fromRight ELSE mergeLeft
          [] spare(c.left) /\ c.right # NULL_REF /\ few(c.right) ->
                IF c.lparent = c.parent THEN fromLeft ELSE mergeRight
          [] OTHER ->
                IF c.lparent = c.rparent
                THEN IF Occupants(h, c.left) <= Occupants(h, c.right) THEN fromRight ELSE fromLeft
                ELSE IF c.lparent = c.parent THEN fromLeft ELSE fromRight

\* The last key of page a's subtree has become k: the parent's separator, or
\* an ancestor's.
UpdateLastKey(h, k, c) ==
    IF c.parent # NULL_REF /\ c.slot <= Occupants(h, c.parent)
    THEN Result(SetKey(h, c.parent, c.slot, k), NoKey, FALSE)
    ELSE Result(h, k, FALSE)

\* The end of erase_one_descend on page a: balance it, or replace the root.
Settle(r, a, c) ==
    LET p == Page(r.h, a)
    IN  IF ~IsUnderflow(p) \/ (a = r.h.root /\ p.keys # <<>>) THEN r
        ELSE IF c.left = NULL_REF /\ c.right = NULL_REF
        THEN IF IsSurface(p)
             THEN Result([r.h EXCEPT !.root = NULL_REF, !.head = NULL_REF, !.last = NULL_REF],
                         NoKey, FALSE)
             ELSE Result([Change(r.h, a, p) EXCEPT !.root = p.kids[1]], NoKey, FALSE)
        ELSE LET Also(b) == Result(b.h, IF b.lastkey # NoKey THEN b.lastkey ELSE r.lastkey,
                                   r.merged \/ b.merged)
             IN  Also(Balance(r.h, a, c))

\* Remove the kid a merge emptied, the one at slot or the one behind it.
FixMerge(h, a, slot) ==
    LET p == Page(h, a)
        i == IF Occupants(h, p.kids[slot]) # 0 THEN slot + 1 ELSE slot
        q == [p EXCEPT !.keys = RemoveAt(@, i - 1), !.kids = RemoveAt(@, i)]
    IN  IF p.level = 1 /\ i - 1 <= Len(q.keys)
        THEN Change(h, a, [q EXCEPT !.keys[i - 1] = Last(Page(h, q.kids[i - 1]).keys)])
        ELSE Change(h, a, q)

EraseLeaf(h, a, p, slot, c) ==
    LET q == [p EXCEPT !.keys = RemoveAt(@, slot), !.vals = RemoveAt(@, slot)]
        g == Change(h, a, q)
    IN  Settle(IF slot = Len(q.keys) + 1 /\ q.keys # <<>>
               THEN UpdateLastKey(g, Last(q.keys), c) ELSE Result(g, NoKey, FALSE), a, c)

\* The kid at slot of page a has returned r.
EraseKid(r, a, slot, c) ==
    LET Fix(u) == Settle(IF r.merged THEN [u EXCEPT !.h = FixMerge(@, a, slot)] ELSE u, a, c)
    IN  Fix(IF r.lastkey = NoKey THEN Result(r.h, NoKey, FALSE)
            ELSE UpdateLastKey(r.h, r.lastkey, c))

\* What erase_one_descend is given at each depth on its way to k.
Contexts(h, k) ==
    LET path == Path(h, k, FALSE)
        Kid(a, c) == KidContext(h, a, SlotOf(Page(h, a), k, FALSE), c)
        context[i \in 0..h.next] ==
            IF i = 0 THEN RootContext ELSE Kid(path[i - 1], context[i - 1])
    IN  context

\* erase_one_descend for a key that is in the tree: what the call at depth i
\* returns.
EraseDescend(h, k) ==
    LET path == Path(h, k, FALSE)
        context == Contexts(h, k)
        Slot(a) == SlotOf(Page(h, a), k, FALSE)
        call[i \in 0..h.next] ==
            IF i = h.next \/ IsSurface(Page(h, path[i]))
            THEN EraseLeaf(h, path[i], Page(h, path[i]), Slot(path[i]), context[i])
            ELSE EraseKid(call[i + 1], path[i], Slot(path[i]), context[i])
    IN  call[0]

\* erase_one: a key that is not there leaves its leaf marked as changed.
Erase(h, k) ==
    IF h.root = NULL_REF THEN h
    ELSE LET i == LowerBound(h, k)
             p == Page(h, i.leaf)
         IN  IF i.slot > Len(p.keys) \/ p.keys[i.slot] # k THEN Change(h, i.leaf, p)
             ELSE [EraseDescend(h, k).h EXCEPT !.size = @ - 1]

=============================================================================
