----------------------------- MODULE BTreeOrder -----------------------------
(***************************************************************************)
(* What the tree of a handle holds, read in the order of its leaves, and   *)
(* what makes it correct.  The module is for TLC: a tree is read by        *)
(* RECURSIVE operators.                                                    *)
(***************************************************************************)
EXTENDS BTree

----------------------------------------------------------------------------
(* Reading a tree in order                                                 *)

RECURSIVE Leaves(_, _)
Leaves(g, a) ==
    LET p == Page(g, a)
    IN  IF IsSurface(p) THEN <<a>>
        ELSE FlattenSeq([i \in DOMAIN p.kids |-> Leaves(g, p.kids[i])])

LeavesOf(g) == IF g.root = NULL_REF THEN <<>> ELSE Leaves(g, g.root)

\* The positions of the keys of the tree, in the order of its leaves.
Positions(g) ==
    LET ls == LeavesOf(g)
    IN  FlattenSeq([i \in DOMAIN ls |->
            [j \in 1..Occupants(g, ls[i]) |-> [leaf |-> ls[i], slot |-> j]]])

KeyAt(g, i) == Page(g, i.leaf).keys[i.slot]

RECURSIVE Subtree(_, _)
\* The pages at and below a.
Subtree(g, a) ==
    LET p == Page(g, a)
    IN  {a} \cup IF IsSurface(p) THEN {} ELSE UNION {Subtree(g, p.kids[i]) : i \in DOMAIN p.kids}

Reachable(g) == IF g.root = NULL_REF THEN {} ELSE Subtree(g, g.root)

Pairs(p) == {<<p.keys[j], p.vals[j]>> : j \in DOMAIN p.keys}

\* The pairs of the tree.  Its handle is bound so that TLC evaluates it once.
Contents(tree) ==
    UNION {UNION {Pairs(Page(g, a)) : a \in {b \in Reachable(g) : IsSurface(Page(g, b))}} : g \in {tree}}

----------------------------------------------------------------------------
(* Properties                                                              *)

RECURSIVE MaxKey(_, _)
MaxKey(g, a) ==
    LET p == Page(g, a) IN IF IsSurface(p) THEN Last(p.keys) ELSE MaxKey(g, Last(p.kids))

Active == tx # "idle"

\* verify_node: no page but the root is less than half full or overfull, kids
\* are one level down, and each separator is exactly the largest key to its
\* left.
PagesWellFormed(g) ==
    \A a \in Reachable(g) :
        LET p == Page(g, a)
        IN  /\ p.keys # <<>>
            /\ a # g.root => ~IsUnderflow(p)
            /\ Len(p.keys) <= IF IsSurface(p) THEN SurfaceSlots ELSE InteriorSlots
            /\ \A i \in 1..(Len(p.keys) - 1) : p.keys[i] < p.keys[i + 1]
            /\ ~IsSurface(p) =>
                /\ Len(p.kids) = Len(p.keys) + 1
                /\ \A i \in DOMAIN p.kids : Page(g, p.kids[i]).level = p.level - 1
                /\ \A i \in DOMAIN p.keys : p.keys[i] = MaxKey(g, p.kids[i])

\* verify_surfacelinks and verify: the links of the leaves follow the tree's
\* order in both directions, last is the last leaf, head the first one or
\* unknown, size the number of keys.
LinksFollowTree(g) ==
    LET ls == LeavesOf(g)
        n == Len(ls)
    IN  /\ \A i \in 1..n :
            /\ Page(g, ls[i]).next = IF i < n THEN ls[i + 1] ELSE NULL_REF
            /\ Page(g, ls[i]).prev = IF i > 1 THEN ls[i - 1] ELSE NULL_REF
        /\ n > 0 => g.last = ls[n] /\ g.head \in {NULL_REF, ls[1]}
        /\ g.size = Len(Positions(g))

\* Insertions and erasures keep the tree the tree that verify() asserts.
TreeIsSound == tx = "open" => PagesWellFormed(h) /\ LinksFollowTree(h)

\* The committed blocks alone, read by another handle, are such a tree too: no
\* page the tree needs was left out of a flush, no boot value is out of date.
StoredTreeIsSound ==
    tx = "idle" => \A g \in {Fresh(disk)} : PagesWellFormed(g) /\ LinksFollowTree(g)

\* lower_bound and upper_bound find the positions a scan of all keys finds,
\* the binary search of a page finds the same with any stale last_found hint,
\* and ++ and -- step to the neighbouring keys across pages.
SearchesAgree ==
    (tx = "open" /\ h.root # NULL_REF) =>
        LET ps == Positions(h)
            end == [leaf |-> h.last, slot |-> Occupants(h, h.last) + 1]
            At(i) == IF i <= Len(ps) THEN ps[i] ELSE end
            Count(P(_)) == Cardinality({i \in DOMAIN ps : P(KeyAt(h, ps[i]))})
        IN  /\ \A k \in Keys \cup {0} :
                LET Less(x) == x < k
                    LessEq(x) == x <= k
                IN  /\ LowerBound(h, k) = At(Count(Less) + 1)
                    /\ UpperBound(h, k) = At(Count(LessEq) + 1)
                    /\ \A a \in Reachable(h), hint \in 0..SurfaceSlots :
                        FindLower(Page(h, a).keys, k, hint) = FindLower(Page(h, a).keys, k, 0)
            /\ \A i \in DOMAIN ps :
                /\ Ascend(h, ps[i]) = At(i + 1)
                /\ Retreat(h, At(i + 1)) = ps[i]

Map == INSTANCE SortedMap WITH
    Values <- Values \cup {PreValue},
    map <- Contents(IF Active THEN h ELSE Fresh(disk)),
    committed <- Contents(Fresh(disk)),
    open <- Active

\* The handle is a transactional map: a lookup returns what was put or
\* committed last, a commit is what every later handle reads, and after a
\* rollback the tree is the committed one again.
IsTransactionalMap == Map!Spec

=============================================================================
