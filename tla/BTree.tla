-------------------------------- MODULE BTree --------------------------------
(***************************************************************************)
(* One B+ tree handle (stx::btree under btree_map) of a writing dbms       *)
(* session: its pages in memory, the blocks of its transaction and the     *)
(* committed blocks.  The page algorithms are in BTreePages; here are the  *)
(* operations of the map, saving, dropping and reloading of pages, and the *)
(* transaction calls of dbms around them.                                  *)
(*                                                                         *)
(* storage.begin, commit and rollback are single steps on all blocks: what *)
(* makes them so is the subject of Mvcc and Journal.                       *)
(***************************************************************************)
EXTENDS BTreePages

CONSTANTS
    Keys,        \* keys, positive integers
    Values,      \* values the client puts
    Preloads,    \* sequences of keys: trees committed before the run
    PreValue,    \* the value those keys have
    KeepsOne,    \* the client never erases the last key of the tree
    RollsBack,   \* the client rolls back after an exception
    RootReturns, \* the root may shrink back to the one the transaction began with
    MaxOps       \* bound: insertions and erasures

ASSUME BTreeAssumption ==
    /\ Keys \subseteq Nat \ {0}
    /\ Preloads \subseteq Seq(Keys)
    /\ PreValue \notin Values
    /\ KeepsOne \in BOOLEAN /\ RollsBack \in BOOLEAN /\ RootReturns \in BOOLEAN
    /\ MaxOps \in Nat

VARIABLES
    h,       \* the handle, see BTreePages
    disk,    \* committed blocks
    tx,      \* "idle", "open", or "failed" after an exception
    ops      \* insertions and erasures so far

vars == <<h, disk, tx, ops>>

----------------------------------------------------------------------------
(* Saving and reloading                                                    *)

\* A slip: the last leaf is not written
WriteBootValuesNoLast(g) ==
    [g EXCEPT !.blocks.boot = [@ EXCEPT !.root = g.root, !.size = g.size, !.head = g.head],
              !.start.size = g.size]

\* write_boot_values.  It notes a new root in start.head, not in start.root.
WriteBootValues(g) ==
    LET shead == IF g.start.root # g.root THEN g.root ELSE g.start.head
        boot == [g.blocks.boot EXCEPT
                    !.root = IF g.start.root # g.root THEN g.root ELSE @,
                    !.size = IF g.start.size # g.size THEN g.size ELSE @,
                    !.head = IF shead # g.head THEN g.head ELSE @,
                    !.last = IF g.start.last # g.last THEN g.last ELSE @]
    IN  [g EXCEPT !.blocks.boot = boot,
                  !.start = [root |-> @.root, size |-> g.size, head |-> g.head, last |-> g.last]]

\* Another root was written since start.root was noted, and the root is the
\* noted one again: the next flush takes the boot value for up to date.
StaleRoot(g) == g.root = g.start.root /\ g.blocks.boot.root # g.root

\* flush.  A saved leaf is loaded again, a saved interior page stays as it is.
Flush(g) ==
    IF g.size = 0 \/ g.modified = {} THEN g
    ELSE WriteBootValues(
        [g EXCEPT
            !.blocks.page = [a \in DOMAIN @ \cup g.modified |->
                                IF a \in g.modified THEN g.mem[a].page ELSE @[a]],
            !.mem = [a \in DOMAIN @ |->
                        IF a \in g.modified /\ IsSurface(@[a].page)
                        THEN [@[a] EXCEPT !.s = "loaded"] ELSE @[a]],
            !.modified = {}])

\* A slip: the loaded pages stay
ClearKeepsPages(g) ==
    IF g.root = NULL_REF THEN g ELSE [NewHandle(g.blocks, g.next) EXCEPT !.mem = g.mem]

\* clear does nothing on a handle without a root.
Clear(g) ==
    IF g.root = NULL_REF THEN g
    ELSE NewHandle(g.blocks, g.next)

\* reload on the blocks of a new transaction: clear, initialize_contexts.
Reload(g, blocks) ==
    LET c == [Clear(g) EXCEPT !.blocks = blocks]
        b == blocks.boot
    IN  IF b.root = NULL_REF THEN c
        ELSE [c EXCEPT !.root = b.root, !.size = b.size, !.head = b.head, !.last = b.last,
                       !.start = b]

\* flush_buffers(true) drops the pages, unless the first leaf is unknown: then
\* the load of address 0 throws, after the flush.
Loaded(g) == g.root # NULL_REF \/ g.mem # <<>>

ReduceThrows(g) == Loaded(g) /\ g.head = NULL_REF

\* The keys ks, inserted into a new tree.
InsertAll(ks) ==
    LET tree[i \in 0..Len(ks)] ==
            IF i = 0 THEN NewHandle(EmptyBlocks, 1) ELSE Insert(tree[i - 1], ks[i], PreValue)
    IN  tree[Len(ks)]

\* The blocks after one transaction that inserted the keys ks.
Preloaded(ks) == Flush(InsertAll(ks))

----------------------------------------------------------------------------
(* Actions                                                                 *)

Init ==
    /\ \E ks \in Preloads :
        LET g == Preloaded(ks)
        IN  disk = g.blocks /\ h = NewHandle(EmptyBlocks, g.next)
    /\ tx = "idle"
    /\ ops = 0

\* dbms::begin of a writer
Begin ==
    /\ tx = "idle"
    /\ h' = Reload(h, disk)
    /\ tx' = "open"
    /\ UNCHANGED <<disk, ops>>

\* set[k] = v
Put(k, v) ==
    /\ tx = "open"
    /\ ops < MaxOps
    /\ h' = Insert(h, k, v)
    /\ ops' = ops + 1
    /\ UNCHANGED <<disk, tx>>

\* The tree has no page or no key left.
IsEmpty(g) == g.root = NULL_REF \/ g.size = 0

\* set.erase(k)
EraseKey(k) ==
    /\ tx = "open"
    /\ ops < MaxOps
    /\ \E g \in {Erase(h, k)} :
        /\ KeepsOne => ~IsEmpty(g)
        /\ StaleRoot(g) => RootReturns
        /\ h' = g
    /\ ops' = ops + 1
    /\ UNCHANGED <<disk, tx>>

\* A slip: the flushed pages are kept
ReduceUseKeepsPages ==
    /\ tx = "open"
    /\ h' = Flush(h)
    /\ UNCHANGED <<disk, tx, ops>>

\* check_low_memory_state in a low memory state, between two operations
ReduceUse ==
    /\ tx = "open"
    /\ LET g == Flush(h)
       IN  IF ReduceThrows(g)
           THEN h' = g /\ tx' = IF RollsBack THEN "failed" ELSE "open"
           ELSE h' = [g EXCEPT !.mem = <<>>] /\ UNCHANGED tx
    /\ UNCHANGED <<disk, ops>>

\* dbms::commit
Commit ==
    /\ tx = "open"
    /\ h' = Flush(h)
    /\ disk' = h'.blocks
    /\ tx' = "idle"
    /\ UNCHANGED ops

\* dbms::commit when storage.commit throws: the transaction stays open.
CommitFails ==
    /\ tx = "open"
    /\ h' = Flush(h)
    /\ tx' = IF RollsBack THEN "failed" ELSE "open"
    /\ UNCHANGED <<disk, ops>>

\* dbms::rollback
Rollback ==
    /\ tx \in {"open", "failed"}
    /\ h' = Clear(h)
    /\ tx' = "idle"
    /\ UNCHANGED <<disk, ops>>

\* The session object is dropped and another one made for the storage.
Reopen ==
    /\ tx = "idle"
    /\ h' = NewHandle(EmptyBlocks, h.next)
    /\ UNCHANGED <<disk, tx, ops>>

Next ==
    \/ Begin \/ ReduceUse \/ Commit \/ CommitFails \/ Rollback \/ Reopen
    \/ \E k \in Keys : EraseKey(k) \/ \E v \in Values : Put(k, v)

Spec == Init /\ [][Next]_vars

----------------------------------------------------------------------------
(* Properties of the handle.  Those of the tree are in BTreeOrder.         *)

\* A page in memory that differs from its block is going to be saved.
UnsavedIsModified ==
    tx = "open" => \A a \in DOMAIN h.mem :
        \/ a \in h.modified
        \/ a \in DOMAIN h.blocks.page /\ h.mem[a].page = h.blocks.page[a]

\* What a handle reads that has nothing in memory.
Fresh(blocks) == Reload(NewHandle(EmptyBlocks, 1), blocks)

Known(g) == DOMAIN g.mem \cup DOMAIN g.blocks.page

\* Handle g reads the tree of handle f: no page and none of the values that
\* lead to them is lost.
ReadsTree(g, f) ==
    /\ g.root = f.root /\ g.size = f.size /\ g.last = f.last
    /\ \A a \in Known(f) : a \in Known(g) /\ Page(g, a) = Page(f, a)

\* A transaction begins with the committed tree, whatever the one before left
\* in the handle; memory given up in between is read again as it was; and a
\* commit is what another handle then reads, unless the root is stale.
TreesAreCarried ==
    /\ Begin => ReadsTree(h', Fresh(disk))
    /\ ReduceUse /\ tx' = "open" => ReadsTree(h', h)
    /\ Commit /\ ~StaleRoot(h) => ReadsTree(Fresh(disk'), h)
    /\ disk' # disk => Commit

CarriesTrees == [][TreesAreCarried]_vars

=============================================================================
