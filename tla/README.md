# A verification project for libspaces

libspaces is an embeddable key/value store with a Lua interface: B+ trees whose
pages are blocks of a transactional, multi-version storage, kept in sqlite files,
made crash safe by a journal and optionally replicated over RPC. This directory
models the storage core, the B+ tree on top of it and the replication beside it in
TLA+: TLC checks the models on small instances, and TLAPS proves the central results
for every instance.

Paths below are relative to the repository; `TS` is
`src/storage/transactions/transactional_storage.h`, `JC` is
`src/storage/transactions/journal.cpp`, `DB` is `src/storage/spaces/dbms.h` and
`AS` is `src/storage/transactions/abstracted_storage.h`, `BT` is `src/stx/btree.h`, `RH`
and `RC` are `replication.h` and `replication.cpp` in `src/storage/network`.

## 1. The system

| Component | State | Operations |
|---|---|---|
| **MVCC coordinator** (`mvcc_coordinator`, TS) | the vector `storages` of committed versions, the `recycler` of finished readers, order, last address, last committed version, counters of active and writing transactions | `begin`, `commit`, `merge`, `discard`/`rollback`, `merge_down`, `make_singular`, `journal_synch_start/end`, `journal_commit` |
| **Version storage** (`version_based_allocator`, TS) | one version: its own allocator, what it is based on, version, order, reader count, read-only flag | `allocate`/`complete`, `store`, `add_reader`, `remove_reader`, `move`, `journal` |
| **Block allocator** (`sqlite_allocator`, TS) | cache of blocks, side map of versions, sqlite session, open transaction, `next`, `changes`, references, `is_new` | `allocate`, eviction (`check_use`, `flush_back`), `begin`, `commit`, `rollback`, `move`, `discard`, `engage`/`release` |
| **Journal** (`journal_state`, JC) | stream, `journal_buffer`, `sequence`, `last_synch`, participants, `jlock` and `llock` | `add_entry`, `synch` (with compaction), `recover`, `engage/release_participant` |
| **Transaction handle and dbms** (AS, DB) | the transaction a handle holds, `w_lock`, `resource_x` | `begin`, `commit`, `rollback`, `stale`, `reduce` |
| **Storage registry** (`abstracted_storage.cpp`) | storages by name, recovery done once | `get_allocator`, `reduce_all`, journalling on and off |
| **Memory manager** (DB) | a thread over all handles | begins, reduces, rolls back |
| **Replication** (`src/storage/network`) | a node's list of replicants and its connections; the server's one storage handle | `begin_`, `write_`, `commit_`, `rolback_replicants`; the server's `open`, `beginVersion`, `store`, `commit`, `rollback`; change notification |
| **B+ tree** (BT) | root, first and last leaf, size; pages in memory with their states, `modified`; in a leaf the cells and their `permutations` | `find`, `lower_bound`, `upper_bound`, `insert`, `erase`, `++`, `--`, `flush`, `reduce_use`, `reload`, `clear` |
| **Keys, sessions, Lua** (`src/storage/spaces`, `src/storage/interface`) | a session's current handle, cursors | `read`, `write`, `commit`, `rollback`, iteration |
| **Primitives** (`src/stx/storage`) | – | leb128, pools, compression, versions |

**How they interact.** A session calls `dbms::begin`, which takes `resource_x`
(writers) and asks the handle for a transaction; the handle asks the coordinator
for a version storage. Reads walk from the transaction's own blocks down the chain
of committed versions; writes copy a block into the transaction's own allocator
first. `dbms::commit` calls the coordinator's `merge`: the pages are written to the
journal, moved into the newest committed version, and then the process-wide
journal is synched (a commit record and a flush). When the journal is long enough
the synch also compacts it: every participant merges its versions down and commits
its sqlite file, and the journal is begun anew. At the next start `recover` replays
what is in the journal before the first storage is opened.

**What is hard here.** Versions are merged and moved while readers hold versions
above and below them, on the strength of reader counts alone; blocks may be evicted
to sqlite before any allocation; one journal is shared by all storages of the
process, and its locks cover single entries, not commits; the process may crash
between any two of these steps, recovery included; handles are shared by sessions
and by a background thread; replicants fail one by one.

**What makes each part correct.**

* Coordinator: a transaction sees the state it began on plus its own writes and
  nothing else; a commit is all or nothing; merging versions changes no view; the
  counts are exact; none of the throws of `commit`, `merge` and `move` is reachable
  by a lone writer; idle storages come down to one version.
* Block allocator: whatever is cached, evicted or reloaded, it is one map of blocks;
  a commit saves all of it; a crash or rollback leaves the last saved map; the side
  map of versions tells the truth; what is handed over is everything.
* Journal: an acknowledged commit survives a crash; an unfinished one leaves nothing
  or all; recovery can be interrupted; commits and recovery end.
* Handles and locks: at most one writer per storage, released on every path; nobody
  uses a transaction another thread has ended.
* Replication: a replicant commits whole transactions in the order they began and
  nothing of a failed one; what is acknowledged is on the replicants; a replicant that
  comes back takes part again. Section 5 says how much of this the code has.
* B+ tree: whatever is split, merged, shifted, saved, dropped and reloaded, it is a
  sorted map with the shape `verify()` asserts, and a rollback restores it.

The hazards found while reading, each at its line, are listed in `PROJECT.json`.

## 2. Modules

| Module | Models | Role |
|---|---|---|
| `SnapshotStore` | – | abstract: one committed map, private views |
| `VersionChains` | lookup through the version chain, `merge_down` on it | operators |
| `Mvcc` | coordinator, version storages, their allocators as maps | component; refines `SnapshotStore` |
| `MCMvcc` | – | symmetry and view for TLC |
| `BlockMap` | – | abstract: a map of blocks, saved as a whole |
| `BlockCache` | `sqlite_allocator`: cache, transaction, file | component; refines `BlockMap` |
| `Journal` | `journal_state` with the committing threads, compaction, crash, recovery | composition of journal, commits and data files |
| `Sessions` | sessions, dbms handles, `resource_x`, `w_lock`, `get_writer`, the memory manager's thread | composition of clients, handles, locks and manager |
| `MCSessions` | – | who uses which session for which storage |
| `SortedMap` | – | abstract: a map inside transactions |
| `BTreePages` | page algorithms of `stx::btree` | operators |
| `BTree` | one tree handle of a writing session, its pages, blocks and transactions | component |
| `BTreeOrder` | – | what a tree holds, its properties; `BTree` refines `SortedMap` |
| `MCBTree` | – | the trees a run starts from |
| `LeafSequences` | – | abstract: two neighbouring leaves as sequences |
| `SurfaceNode` | `surface_node`: cells and permutations of a leaf | component; refines `LeafSequences` |
| `Replication` | `replication_control`, its clients and `block_replication_server` | composition of nodes, replicants and faults |
| `MvccProofs`, `MvccTransactionProofs`, `BlockCacheProofs`, `JournalProofs`, `SessionsProofs`, `ReplicationProofs`, `BTreeProofs`, `SurfaceNodeProofs` | – | theorems |

`Mvcc` sees an allocator as the map `BlockCache` is shown to be; `Journal` sees a
storage as the committed map `Mvcc` is shown to keep. `Sessions` leaves out what a
transaction contains: it is about who has one, and under which locks. `BTree` sees a
storage as one map of blocks that a transaction commits or drops as a whole, and a
leaf as the sequence `SurfaceNode` is shown to be. `Replication` sees a transaction as
its blocks, and a replicant's commit as one step. Definitions called slips are
plausible mistakes in the definition that follows them, kept to show that the
properties notice; no specification uses them.

### Mvcc

`Objs` are version_storage objects. One of them is at any time free, active (handed
out by `begin`), a member of `storages`, or in `recycler`. The C++ vector is the set
`storages` ordered by `slot`, the coordinator's order at the `push_back`, which grows
with each. A committed version is based on the one below it (commit refuses any
other base and merge_down relinks), so `based` is kept for transactions only.
`Fresh`/`Recycled` and `Attach` are the parts of `begin`; `Store` is `allocate` for
write or create, whose copy of the block into the transaction's own map and whose
caller's change are one step (the code holds the lock in between, until `complete`);
`Discard`, `Commit` and `Merge` are the functions of those names; the checks that
precede commit and merge are `MayFinish`. `MergeDown` is part of `Commit` and of
`MakeSingular`, and does nothing while the journal is synching, as in the code.
When a check of commit fails the code throws, after it has for one of them reset
`last_comitted_version`; `WriterCanFinish` shows that no check ever fails for a
writer, so that these paths are not part of the behaviour.

`Paths` says how writers finish. Sessions only ever use `merge`; `commit` is the
other way the coordinator offers.

### BlockCache

`transient` distinguishes the two uses of the class: the allocator of the initial
storage (permanent: blocks are moved in, the journal commits it, references are
counted) and that of a transaction (blocks are created and written, then all moved
out or dropped, together with the file). `file` is what the open session sees,
`durable` what sqlite has committed. `CheckUse(E)` is eviction: all modified blocks
are written and erased, and any set E of others with them, since how many depends
on byte counts the model leaves open. `NewVersion` is there because the owner gives
the allocator a new version when its life starts again.

### Journal

One thread per storage: `dbms::commit` keeps `resource_x` until the synch is over.
A thread goes through `CommitCalled`, one `JournalPage` per page, `Merge` (or
`MergeThrows`), `Synch` and, if the journal is to be compacted, a `JournalCommit` per
participant, `CompactFlush` and `CompactRemove`. `spill` and `compacts` stand for the
size limits of the buffer and of the journal, `compacts` also for the condition that
all participants have a single version: TLC tries both. A crash keeps what was
flushed and any prefix of the rest of the stream. `last_synch` is only ever 0, hence
the guard `sequence = 0` for a synch with nothing to do. Recovery is one step per
record, one per storage committed, and the removal of the file; recovery's check
that a storage's directory is valid is taken to succeed.

### Sessions

A session `s` has a reader handle of its own, called `s`; the one writer handle of
storage `x`, which all sessions for `x` share, is called `x`. `d` says which one a
session uses. Of a handle the model keeps whether it is transacted (`order != 0`) and
the kind of its `_transaction`; after a commit a writer handle is not transacted but
keeps its transaction, which the next begin takes over. `began` is the client's own
belief: what it has begun and not ended.

The fields of a handle are read without a lock (`is_transacted` in `begin`, `rollback`,
`commit` and `check_set_resources`), so a call is several steps: `BeginTest`,
`BeginLock` (`resource_x`), `BeginStart` (up to `write_lock`), `BeginTransaction`. A
commit or rollback on a writer handle is the unlocked test (`CommitCalled`,
`RollbackCalled`), the merge or discard (`CommitMerge`, `Discard`; AS:314, AS:350),
`write_unlock` (`Release`; AS:316, AS:352), order = 0 (`Reset`; AS:325, AS:357) and, for
a commit after the synch of the journal, the unlocking of `resource_x` (`EndUnlock`).
On a reader handle, which is its session's own, a rollback is one step
(`DbmsRollback`). A first
write goes through `GetWriter`, `AddWriter` and `MakeWriter`, with the locks on the map
of writers and on the list of handles (`manage_x`). `resource_x` is a recursive mutex
whose unlock by a thread that does not hold it changes nothing, as pthreads' does;
`MaxDepth` bounds how often it is locked again. `w_lock` is a mutex without an owner:
the code locks and unlocks it in different calls. The manager visits all handles that
exist (`ManageMemory`, `Visit`, `ManagerLock`, `ManagerBegin`, `ManagerRollback`), again
while memory is low. A session is opened once; after `Close` its handle, and a
transaction on it, stay, as nothing in the code ends them.

`FailBegin` and `FailCommit` are the storages whose begin or merge may throw, which
the coordinator does when replicants fail.

The module is about programs in which each storage has one writing thread (it may have
several sessions), and in which merges do not throw where memory may be low; both are
in `SessionsAssumption`. A third case is left out by the guard `Visited`: the client's
rollback or commit finds the memory manager's transaction on the handle and ends it while
the manager does. Nothing in the code excludes these; section 5 says what happens then.

### BTreePages and BTree

A handle is a record (root, head, last, size, pages in memory, `modified`, blocks,
boot values as last seen), and the functions of the tree are operators from handles
to handles, named as in the code: `SplitSurface`, `MergeLeaves`, `ShiftLeftInterior`
and so on. A loop is a recursive function of its rounds (`Path`, the way down to a
leaf; `BinaryLower` and `BinaryUpper`), and the recursion of `insert_descend` and
`erase_one_descend` is one of the depth of the call along that path, with the neighbours
that the latter passes down (`Contexts`, `KidContext`; its left neighbour across pages
is the last kid but one, as at BT:6155) and the flags it passes up (`Result`). A path
has fewer pages than addresses were given out, which bounds it. Slots
count from 1. The emptied page of a merge is not freed, as in the code. Two branches
of the code are dead and have no counterpart: the forward branch of
`shift_left_surface`, and the insertion at the last slot of the left half of a split.

A page is changed as a whole here; the order in which the code moves its entries
is the subject of `SurfaceNode`.

`BTree` has the map's operations and what happens to pages around them. `Flush` writes
the modified pages and the boot values; a leaf then counts as loaded, an interior
page keeps its state, both as in `save`. `ReduceUse` is `check_low_memory_state` when
memory is low: flush, then drop every page. `Begin` reloads, `Rollback` clears, and
`CommitFails` is a commit whose storage throws after the flush. The properties of the
handle and its blocks are in `BTree`; those that read the whole tree in order need
RECURSIVE operators and are in `BTreeOrder`, which only TLC uses. `SortedMap` is what all
this should amount to; the tree in memory (inside a transaction) or on the disk (outside)
is mapped to its set of pairs.

### SurfaceNode

In a leaf an entry stays in the cell it was written to, and `permutations[i]` says which
cell position i uses. Cells come from the counter `allocated`; nobody gives one back,
`erase_d` leaves it behind the last position. The model follows two neighbouring leaves
through everything that moves entries (`Insert_`, `EraseD`, split, merge, both shifts,
save and load), each loop in the direction and with the moment of `set_occupants` that
the code has; these decide whether `init_key_allocation` finds a cell, takes one away
or throws. `Advance` moves on to the next pair, so that a page with a history becomes
the left one.

### Replication

A remote call is one step, since the server has one thread; a loop over the replicants
is a `check` loop (`check_open_replicants`) and then one step per replicant, or per block
of each when writing. The server's handle is one for all connections; it is
constructed with a read transaction, and after a commit it keeps the merged
transaction (`kept`), which is not underway until a begin: `store` returns false on it
(RC:82) and `commit` merges nothing.

The node's writer handle keeps its transaction in the same way (AS:313-325), and
`get_transaction` calls the coordinator's begin, hence `begin_replicants`, only for a
handle that has none (AS:95-112, TS:2794). So a transaction that follows an acknowledged
one is not begun on the replicants: `Begin` goes straight to its work, and
`Acknowledge` marks its outcome "unbegun". A begin on the replicants comes with the
first transaction of a node, and with the first after a rollback or a restart.

A reader's begin on the node, a session's or the memory manager's, calls
`begin_replicants(false)` before the coordinator's lock is taken; it is a second
loop of the node (`ReadBegin`, `ReadCheck`, `ReadCall`, `ReadDone`) that runs beside
the writer's. At a replicant it rolls back a write transaction underway and leaves a read
transaction, in which `store` throws and ends the server (`StoreStops`), or it takes up
a kept transaction ("revived"), to which `store` writes. Reads are counted with the faults.

`Plans` are the sets of faults that come together: restarts of the node, crashes of
replicants, broken connections, names that do not resolve, commits that fail on a
replicant, and reads.

The clients set no timeout on their `rpc::client`, so a call on a broken connection, or
to a server that was down when the client was made, never returns: such a node has no
step. The exception handlers of the loops are therefore only met for names that do not
resolve. The loops that take back what too few replicants did are not modelled:
`NeverTooFew` shows that they are never entered.

## 3. Runs

| Run | Instance | Shows |
|---|---|---|
| `mvcc_commit` | 4 objects, 2 addresses, 2 contents, 5 versions, `commit` only | `CoordinatorInv`, `WriterInv`, `MovesNeverThrow`, `NotStaleIsCurrent`, `CommitIsAtomic`, `IdleMergesToOne` and the refinement of `SnapshotStore` |
| `mvcc_merge` | the same, `merge` only | `WriterCanFinish`, `MovesNeverThrow`, `FreshAddresses`: repeated merges cannot throw, no address is given out twice |
| `mvcc_merge_snapshot` | the same | **violated**: readers see later merges (finding 1) |
| `block_cache` | 2 addresses, 2 contents, 3 versions, 2 references | `CacheInv`, with `VersionsAgree` in it, `HandsOverAll` and the refinement of `BlockMap` |
| `journal_one` | 1 storage, 2 pages, 2 contents, 2 commits, 2 crashes | one commit point, atomic recovery, readable numbering, recovery ends |
| `journal_two` | 2 storages, 2 pages, 2 commits that may fail, 2 crashes | recovery does what the journal says, can be interrupted, and every commit returns |
| `journal_acked_lost` | 2 storages | **violated** (finding 2) |
| `sessions_clients` | 3 sessions, 2 threads, 2 storages, one writing thread for each; merges may throw, memory never low | `WriterHoldsLock`, `LockedByWriter`, `IdleIsUnlocked`, `BegunIsTransacted`, `CallsReturn` |
| `sessions_managed` | a thread that writes a storage and one that reads it, the manager at work, begins may throw | `HoldInv` (with `WriteLockInv` in it), `ManagerKeepsWrites` |
| `btree` | 6 starting trees of 0 to 3 levels, keys 1 to 12, pages of 4 and 2 slots, 2 operations | `TreeIsSound`, `StoredTreeIsSound`, `UnsavedIsModified`, `SearchesAgree` and the refinement of `SortedMap` |
| `surface_node` | leaves of 6 slots, full or of 2 entries, 4 operations | `CellsDistinct`, `NeverThrows` and the refinement of `LeafSequences` |
| `replication` | 1 node, 3 replicants, 2 blocks, 3 transactions, 3 faults and reads, 7 plans | `LogsAreHistories`, `FailedIsNowhere`, `NeverTooFew`, `AckedIsEverywhere`, `TransactionsEnd` |

`sessions_clients` is the discipline under which a client can rely on the handles:
one thread writes a storage, begins do not throw, memory is not low. Without any one
part of it some of the properties fail (section 5); `sessions_managed` drops the last two
and shows what is left. It does not let merges throw: after one has, `resource_x` is free and
the handle transacted, so a manager that was waiting for it rolls the failed write
transaction back, and a client that retries the commit commits nothing.

**Why the bounds are enough to be of interest.** With four objects there are up to
three committed versions under a transaction, or two readers on different versions
and a writer, so runs of unused versions occur below, between and above used ones,
and objects are recycled. Two addresses are needed for a commit to be visible in
part and two contents to tell an old block from a new one. Two commits give a
journal with two commit records, or two storages one each; two crashes are needed
for a crash inside recovery. Three versions of an allocator let a block be
overtaken twice. Two sessions of one thread make it hold one handle while it waits
for another, and a third session of another thread shares a storage with it;
`resource_x` is never locked more than twice at once unless exceptions leave it locked.

The smallest legal pages (four keys in a leaf, two in an interior page) make every
case of splitting and balancing a matter of one operation; the trees of `MCPreloads`
are chosen so that two operations reach each of them on both kinds of pages and on
either side of the root, with a flush, a drop or a rollback in between. Six slots in a
leaf let a shift move more than one entry, and four operations wear out the cells of a
page that started full. Three replicants make one missing replicant the quorum's
business; with three transactions a fault can lie before, in and after one, and one that
is begun on the replicants, one that follows it without a begin and one begun again
after a rollback or restart come together; three faults are a crash, a restart of the
node and a failed commit in one behaviour, or a read between the two stores of a writer and
two more events.

`btree` assumes three things of its client: it keeps one key (`KeepsOne`), rolls back after an
exception (`RollsBack`), and no root that was flushed in the transaction shrinks back to
the one it began with (`RootReturns`). `replication` has one writing node, no plan with
both restarts of the node and unresolved names, and states what it can for plans with
reads: `LogsAreHistories` asks for whole transactions only without them, and
`AckedIsEverywhere` is about transactions begun on the replicants after the last fault and
the last read. Section 5 says what happens otherwise.

**Symmetry and view.** In `MCMvcc` the objects other than the root, and the block
contents, are interchangeable in every definition. The view drops fields of free
objects, which `begin` overwrites before anything reads them. Runs with liveness
(Journal, Sessions, Replication) use neither.

**Deadlock** is checked in `btree` and `surface_node`, not elsewhere: a system with no
client calling stops, and the bounds on versions, commits and crashes end every
behaviour. That nobody waits for somebody for ever is `CommitReturns`, `CallsReturn` and
`TransactionsEnd`.

**Fairness.** Journal: weak fairness on recovery and on each committing thread.
Sessions: weak fairness on each client thread inside a call, and on the manager
inside a walk. It says that the operating system goes on running a thread that
can run; the one lock in between, `llock`, is held for a bounded number of steps.
Replication: weak fairness on the loops of each
node, whose servers run a handler when it is called, and on its client, which ends
every transaction it began by commit or rollback; a restart of a replicant is not fair.
Other calls of clients, low memory and crashes are never fair. `CallsReturn` needs no fairness
of clients because in its run a thread never waits for a lock that only another
client's next call releases: readers have handles of their own, and a storage has
one writing thread.

## 4. Proofs

All theorems hold for every value of the constants that satisfies the ASSUMEs of the
modules: finite sets of objects, storages and nodes, natural bounds, values that
differ from "none", for sessions that each has a thread and a storage, for the tree
integer keys and pages of at least four and two slots. Where a
theorem has a further hypothesis it is stated below, and section 5 says what happens
without it. The inductive invariants were model-checked before they were proved;
`CoordinatorInv`, `WriterInv`, `CacheInv` and `HoldInv` still are, by the runs.

* `MergeDownKeepsLookup` (MvccProofs): the argument why merging is safe. A
  run of unused versions is moved into its lowest member. A walk from a version that
  survives either passes a whole run or none of it: the lowest member then has the
  uppermost block of the run at each address, which is what the walk would have
  found. The lemmas about `Top` and `Lookup` carry it.
* `CoordinatorCorrect` (MvccProofs): `CoordinatorInv` is inductive. `ReaderCount` alone is
  not: a merge is harmless to it only if the bases of transactions are live versions
  (`BasesLive`), positions are distinct (`SlotsOrdered`), an object is in one place
  (`Partition`), and what is not committed has no readers (`OnlyStoragesRead`).
  Conversely `BasesLive` needs `ReaderCount`: a version with a transaction on it has a
  reader, so merge_down keeps it.
* `CommitsAreAtomic` (MvccTransactionProofs): from `CoordinatorInv` and the lookup lemmas, each
  action either keeps the committed map or replaces it by the writer's view; also
  for `merge`.
* `CommitPathIsSnapshotStore` (MvccTransactionProofs): under the hypothesis that writers
  finish with commit (`"merge" \notin Paths`), each step is a step of `SnapshotStore` or
  a stutter. Without it the theorem is false, which is finding 1.
* `IdleLeavesOne` (MvccProofs): whenever no transaction is underway merge_down merges all
  versions but the lowest away, and the commit that ends the last transaction leaves one,
  unless the journal is synching. No committed version has a reader then (`ReaderCount`),
  so all of them are one run for merge_down.
* `WriterCorrect`, `WriterAlwaysFinishes`, `MovesAreSafe`, `AddressesAreFresh`,
  `StaleIsReliable` (MvccTransactionProofs): `WriterInv`, together with `CoordinatorInv`, is
  inductive, for both ways of finishing. `VersionsGrow` says that along the vector both the
  versions and the versions of the blocks at an address grow; `move` throws if it would
  replace a newer block, and merge_down moves along the vector, so it never does.
  `WriterAhead` puts the writer after all that is committed, which is preserved because
  commit and merge make its version the last committed one, and merge renews it.
  `CurrentIsNewest` is what `stale()` relies on: every push gives the coordinator a new
  order, so a reader at its order began on `storages.back()`.
* `CacheCorrect`, `CacheHandsOverAll` (BlockCacheProofs): `CacheInv` is inductive. Its
  core is that clean cached blocks are on file, that only an open transaction tells
  the file from what is durable, and that no file means no blocks.
* `CacheIsBlockMap` (BlockCacheProofs): reading, eviction, opening and closing are
  stutters; the rest are the operations of `BlockMap`. It needs in addition that the
  version clock is ahead of the allocator, so that a restart is a new incarnation.
* `JournalTypeCorrect` (JournalProofs), for any storages, pages and crashes.
* `RecoveryReplays` (JournalProofs), for any number of storages, merges that throw
  included. While recovery reads, what it has collected (`pending`) is what the journal
  up to the last commit record says, and the commands it holds are the pages since
  (`Reading`); when it commits, a storage either still has its pages pending or has them
  in its file, where applying them again changes nothing (`Finishing`). A crash in
  between starts again from the same journal, hence in the same result. What a
  replay says of an address is given by the last page of it under the last commit record
  (`LastPages`, a maximum over positions), so no induction over the journal is needed.
* `JournalStaysReadable`, `OneCommitPoint`, `CommitsAreAtomic` (JournalProofs), for one
  storage whose merges do not throw (`Storages = {X}`, `Failing = {}`). `OneInv` says
  that the records in the file and the buffer are numbered in sequence, that a commit
  record is never left unflushed, that only pages of the running commit follow the last
  commit record (`Trailing`), and how memory, data file, journal and the acknowledged
  contents agree at each step of a commit and of a compaction (`Agreement`). `Stable`,
  what a crash now would recover to, then changes in `Synch` only.
* `WriteLockCorrect`, `WriterHoldsLockAlways` (SessionsProofs): with one writing thread for
  each storage, a write transaction underway has the write lock until the steps of its own
  commit or rollback are between `write_unlock` and order = 0. Between `write_lock` and the
  transaction a thread has the lock and the handle is not transacted yet, so the invariant
  needs `BeginnerIsAlone`: only one thread is there for a storage, and nobody is writing it.
  That in turn holds because a thread gets there only when the lock is free, and
  because the thread that releases the lock (`Release`) is the only one that
  writes the storage, hence not the beginner. `ReadersNeverWrite` keeps a
  reader handle's rollback from unlocking, `CallsAreOwn` keeps a call's handle from
  being changed under it.
* `HoldersCorrect`, `ManagerSparesWrites` (SessionsProofs): `HoldInv` adds to it who holds
  `resource_x`, and what the thread that ends a transaction finds at each of its steps
  (`EndsKnown`): the transaction its unlocked test saw, until order = 0, and none when it
  unlocks `resource_x`. The manager rolls back the handle it has locked; if no merge throws, a
  handle that is writing is locked by a client's thread (`WritesAreHeld`), so it is another
  one. That no merge throws where there is a manager is part of `SessionsAssumption`.
* `LockIsForWriter` (SessionsProofs), for begins that do not throw (`FailBegin = {}`):
  the converse of `WriterHoldsLock`.
* `IdleStaysUnlocked`, `BegunStaysTransacted` (SessionsProofs), for begins that do not throw,
  memory that is never low and one writing session for each storage. `ClientInv` describes
  a session by where its call is and what its client believes to have begun: which handle
  it has locked, how often, and whether the handle is transacted (`Kept`, `HeldAt`). With
  one writer for a handle no other session changes any of it.
* `EnoughStayOpen` (ReplicationProofs), for any number of nodes and replicants and all
  faults. A connection that exists stays, if only broken; a loop that goes past a replicant
  has counted it or has no connection to it, so a loop that ends has counted all that
  were connected when the transaction began (`LoopInv`); and a replicant with a working
  connection has its storage open (`UpIsOpen`).
* `LogsStayHistories`, `FailuresLeaveNothing`, `AcksAreEverywhere` (ReplicationProofs), for
  one node and plans that do not have both restarts of the node and names that do not
  resolve, reads and transactions that are not begun remotely included; section 5 shows that
  both hypotheses are needed.
  `StagedInv`: a connected replicant past its begin holds exactly the blocks written to
  it so far, or is in its read transaction, in which it stores and commits nothing.
  `JoinInv`: a replicant joins late only if its storage is new (no restarts), or none
  does (all names resolve). `CleanInv`: in a transaction that met no fault all replicants
  are connected and writing, and have it once they were told to commit. `LogInv`: a log
  has only transactions that ended, and the running one if it has been told to commit;
  so the one that commits is later than all in the log, and one that fails is in none.
* `LeavesInvariant`, `CellsStayDistinct`, `PagesNeverThrow` (SurfaceNodeProofs), for any
  even number of slots, lengths and steps. `Leaf` is what every operation restores: the
  positions that have a cell are the first ones, at least the occupied ones, and no two
  share one. It does not hold inside the loops that walk down, which give a cell to the
  last position first. What each round keeps is `Sound`: as many cells are handed out as
  positions have one. A page can then run out of cells only if all positions have one,
  so a position that has none finds one: `init_key_allocation` never throws, nor does
  `set_kv`.
* `ImplementsSequences` (SurfaceNodeProofs): every step is a step of `LeafSequences` or a
  stutter. For each loop `FillDoes`, `MoveDoes` and `SplitDoes` say what the page reads
  at every position after k rounds (`After`); that a move within a page, going up or
  down, reads no position it has already written is `AfterUp` and `AfterDown`.
* `FindLowerFinds`, `FindUpperFinds` (BTreeProofs), for sorted pages of any length:
  the keys before the span of a binary search are on one side of the key sought, those
  behind it on the other, and the span shrinks (`LowerSpan`, `UpperSpan`). `find_upper` goes
  past the middle on both sides, so its span may end one short, which is what its last
  comparison corrects. The hint of `find_lower` changes nothing, whatever it is.
* `HandleInvariant`, `UnsavedStaysModified`, `TreesStayWhole` (BTreeProofs), for pages of
  any size, any keys and any number of operations. All changes of pages go through
  `Change` and `Create`, and these keep `Careful`: a page in memory is in `modified`, or
  it claims to be loaded and equals its block. So every page that split, merge and shift
  touch will be saved; the proof needs nothing of the order of the tree. `BootNoted` says
  that the boot values noted in `stats` are those in the blocks, so that
  `write_boot_values` leaves out only what is there already, and `Whole` that a handle without a root has nothing else,
  so that `clear` may do nothing with it. The hypotheses are `KeepsOne` and `RollsBack`.
  Without the second all three are false; without the first `HandleInvariant` and
  `TreesStayWhole` are (section 5), while `UnsavedIsModified` holds in the instances
  TLC can check: a proof would need that `size` counts the keys of the tree.
  `TreesStayWhole` states `CarriesTrees`: begin, giving memory up and commit carry the root,
  the size, the last leaf and every page from blocks to handle and back, except when the
  root is stale.

A recursive function is defined for the prover only if it exists. `FillExists`,
`MoveExists`, `SplitExists`, `LoadExists` and their like prove that for each of them,
and what every round keeps is proved in the same way: by looking at the first number of rounds for which it would
fail (`FirstOne`, a well-foundedness fact of the library that needs no induction rule).

**Only model-checked.** Of the B+ tree, `TreeIsSound`, `StoredTreeIsSound`, `SearchesAgree` and the
refinement of `SortedMap`: they read the whole tree in order, by operators recursive
in the tree itself, which the prover cannot take; what the proofs have of them is the
search within a page and that no page is lost. The liveness properties `RecoveryEnds`,
`CommitReturns`, `CallsReturn` and `TransactionsEnd`: liveness under fairness is out of
this prover's reach. For more than one storage the journal is proved only as far as
`RecoveryReplays` goes, since the rest is false there.

## 5. Findings

1. `merge` moves a writer's blocks into `storages.back()` without looking at its
   readers (TS:3076). A reader that began before sees the new blocks at every
   address it has not loaded yet. `docs/API.md` says of `read()` that a version is
   locked and isolation is serializable.
2. Pages added between the last flush of a compaction and the reset of `sequence`
   (JC:393-397) are in the buffer of a journal whose numbering has started again. If
   nothing else is added, the synch that should make them durable sees `sequence`
   at 0 and does nothing; if something is, the numbers do not follow each other and
   recovery discards the whole journal.

These have a run each. The following were met in the same way; a run whose cfg is
changed as stated shows them.

* The pages of a merge that throws stay in the journal (TS:3022), and the next commit
  record makes them part of what is recovered, although a comment (TS:2994) says an
  exception keeps the transaction from being recovered. `JournalOne.cfg` with its
  storage in `Failing`: `RecoveryIsAtomic`.
* All sessions that write a storage share its writer handle, and `begin` returns at
  once if it is transacted (DB:74). Two threads are then in one transaction, and the
  commit or rollback of one ends that of the other; `docs/API.md` says that `write()`
  locks resources and is serializable. If both commit, one of them may stop between the
  merge (AS:314) and `write_unlock` (AS:316) while the other commits and begins again: its
  `write_unlock` frees the lock of the new transaction, and its order = 0 (AS:325) hides
  it. `SessionsManaged.cfg` with both sessions in `Writers`, and without the conjunct of
  `SessionsAssumption` about writing threads: `WriterHoldsLock`.
* The memory manager waits for `resource_x` of a handle with `manage_x` locked
  (DB:105). If the thread that holds the handle opens a session, or writes to another
  storage for the first time, it waits for `manage_x`, and both are stuck.
  `SessionsClients.cfg` with `MemoryLow = TRUE` and `FailCommit = {}`: `CallsReturn`.
* A merge that throws unlocks `resource_x` (DB:145) and leaves the handle transacted. A
  memory manager that tested it before (DB:101) and waits for the lock then rolls the
  write transaction back, and the client's retry commits nothing.
  `SessionsManaged.cfg` with `FailCommit = {X}`, and without the conjunct of
  `SessionsAssumption` about low memory: `ManagerKeepsWrites`.
* `rollback` and `commit` test `is_transacted` without a lock (DB:85, DB:120). If they find
  the manager's transaction they end it, and so does the manager (DB:108), each without
  knowing of the other: the object may be discarded twice. `SessionsManaged.cfg` with
  `Visited(h) == FALSE`: `HoldInv`.
* `flush` does nothing for an empty tree (BT:4511), so the erasure of the last key is
  never saved, and `clear` does nothing without a root, so that its page stays in memory;
  the comment of `flush` says it writes all modified pages. `KeepsOne = FALSE`:
  `TreeIsSound` and `IsTransactionalMap`.
* `write_boot_values` notes a new root in `start_head` instead of `start_root` (BT:4469).
  If a low-memory flush wrote a grown root and the root then shrinks back to the one
  the transaction began with, the stored root stays the emptied one.
  `RootReturns = TRUE`: `StoredTreeIsSound`. By the same slip a store whose first commit
  is a single leaf never stores its first leaf; it stays unknown after a reload, and
  dropping pages throws after the flush (`ReduceThrows`).
* A saved interior page stays in state changed (BT:2396), so later changes of it are
  not saved unless the pages were dropped. A commit that throws flushes without
  dropping. `RollsBack = FALSE`: `UnsavedIsModified`.
* One handle serves all connections of a replicant (RC:141): another node's begin rolls
  a transaction back, its commit commits it half written. `Nodes = {n1, n2}`, without any
  fault: `LogsAreHistories`.
* A node's restart leaves staged blocks on the replicants; a begin that misses one of
  them does not discard them, and the next write joins them.
  `Plans = {{"node", "resolve"}}`: `LogsAreHistories`.
* The transactions of a writer that follow an acknowledged one are not begun on the
  replicants (AS:95-112). Their stores return false there (RC:82), their commits merge
  nothing, no result is looked at, and the node acknowledges them: without any fault the
  second transaction of a writer is on no replicant. `Plans = {{}}`: `AckedIsEverywhere`
  for the outcome "unbegun" as well as "acked".
* After a remote commit that failed, the replicant's transaction is still underway; the
  next one, which is not begun, joins it, and both are one commit there.
  `Plans = {{"commit"}}`: that each entry of a log is of a single transaction.
* A read begin on the node rolls back the write transaction that the writer has on the
  replicants (TS:2794, AS:252). The writer's next store throws there, which stops the server,
  and the node waits for it for ever. `Plans = {{"read"}}`: `TransactionsEnd` with "read"
  among the plans it is about. If the replicant had kept a transaction, the read begin takes
  it up, stores go into it from then on, and a commit logs part of a transaction.
  `Plans = {{"read"}}`: `LogsAreHistories` without its condition on `plan`.
* A replicant or connection that is lost blocks the node in its next call for ever, where
  RH:203 says that begin returns false if too many failed. `TransactionsEnd` without
  its condition on `plan`.

Why some properties of the older modules are checked on restricted instances only; each
fails when the restriction is dropped:

* `RecoveryIsAtomic` and `SynchIsCommitPoint`, for one storage. A commit record closes
  whatever is in the journal (JC:337), the first pages of another storage's
  unfinished commit included; after a crash that storage has half a commit.
* `BegunIsTransacted`, without the memory manager. The manager begins a transaction of
  its own on an idle handle (DB:106); a client's `begin` that comes in between takes it
  for its own and returns, and the manager's rollback leaves the client without one.
* `LockedByWriter` and `CallsReturn`, for begins that do not throw. `begin` takes
  `write_lock` before what can throw (AS:244); after a throw the lock is held with no
  transaction, `rollback` does nothing without one, and no write on the storage can
  begin again. `resource_x` stays locked as well.

What is not stated about replication because the code does not have it: that an
acknowledged transaction is on a quorum (later transactions of a writer are not begun
there, the results of the remote calls are not looked at, so a failed commit counts, and
half of three is one), and that a replicant catches up with transactions it missed.

Three places where the models are simpler than the code and nothing depends on it.
`split_interior_node` discards the kids it moves (BT:5849-5853) under the comment "TODO:
BUG: this discard causes an invalid page save": the discards only clear cached pointers, the
pages and their entries in `modified` stay, so the model leaves them out. `load`
(BT:2622-2627) sets a changed page back to loaded; it stays in `modified`, and flush saves
all of `modified`. `BlockCache` asks whether a row is on file where the code compares with
`current_address`.

Seen on the way and not modelled: the Lua method `read()` does nothing
(`src/storage/interface/spaces_lua.cpp:176`), although `docs/API.md` describes it as
starting a read transaction; `open()` and `beginRead()` do.

## 6. Plan

Done: `VersionChains`, `SnapshotStore`, `Mvcc` (with `MCMvcc`), `Journal`, `BlockMap`,
`BlockCache`, `Sessions`, `BTreePages` and `BTree` over `SortedMap`, `SurfaceNode` over
`LeafSequences`, `Replication`, in this order, and the proofs above. Next:

1. Proofs: the order of the tree, with the keys below a page as a range it carries
   instead of a recursive operator, and shorter arguments for the longest cases of
   `JournalProofs` and `SessionsProofs`.
2. Start and stop of the library, `reduce_all`, and the coordinator's lock that
   `allocate` keeps until `complete`, in `Sessions`.
3. Reading from replicants and the notification of observers, in `Replication`.

## 7. Not modelled

Byte accounting, read-ahead, compression and the age timers of the allocator and the
coordinator decide only when eviction, merging or reduction happens; the models
allow these at any time. In `Journal` and `Sessions` replicants appear as a merge that may
throw. Backups of old journals and rollback records (never written) are left out, and so
is a participant joining or leaving during a synch. Of the B+ tree: duplicate keys,
erasure by iterator (`erase_iter_descend`), bulk loading, jumps of iterators, the
`key_lookup` hash and the layout of a page in bytes; keys are integers. Of
replication: `read_replicants`, `get`, the address and version queries, observers and
notifiers. Composite keys and their order, leb128 and the other codecs, cursors and
the Lua binding are sequential value code; memory pools only decide when memory is low.
sqlite, Poco, rpclib, zlib, lz4, fse and rabbit are third-party code; sqlite's
transactions, rpclib's calls and the operating system's files are modelled by what the
code relies on.
