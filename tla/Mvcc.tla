-------------------------------- MODULE Mvcc --------------------------------
(***************************************************************************)
(* The MVCC coordinator of one storage (mvcc_coordinator) with the version *)
(* storages it hands out (version_based_allocator) and the block map each  *)
(* of them owns (sqlite_allocator, seen as a map from addresses to blocks; *)
(* its cache and file are not told apart here).                            *)
(*                                                                         *)
(* An element of Objs is one version_storage object.  It is free, a        *)
(* transaction (active), a committed version (storages) or a finished      *)
(* reader kept for reuse (recycler).  The vector "storages" is the set     *)
(* "storages" ordered by "slot": push_back stamps the object with the      *)
(* coordinator's order, which grows with every push.  A committed version  *)
(* is based on the one below it in that vector (commit refuses any other,  *)
(* merge_down relinks all of them), so "based" is kept for transactions.   *)
(*                                                                         *)
(* Every operation below runs under the coordinator's lock.  Failures of   *)
(* replicants and journalling leave the state of this module as it is.     *)
(***************************************************************************)
EXTENDS VersionChains

CONSTANTS
    Objs,        \* version_storage objects
    Root,        \* the one that wraps the initial storage
    NoObj,       \* nullptr
    MaxAddr,     \* bound: addresses are 1..MaxAddr
    Val,         \* block contents
    Paths,       \* the ways a writer finishes: "commit" and/or "merge"
    MaxVersion   \* bound: versions created

ASSUME ObjsAssumption == IsFiniteSet(Objs) /\ Root \in Objs /\ NoObj \notin Objs
ASSUME BoundAssumption == MaxAddr \in Nat /\ MaxVersion \in Nat
ASSUME ValAssumption == NoVal \notin Val
ASSUME PathsAssumption == Paths \subseteq {"commit", "merge"}

VARIABLES
    storages,             \* committed versions
    slot,                 \* position of a version in the vector
    recycler,             \* finished readers kept for reuse
    active,               \* transactions handed out by begin
    based,                \* the version a transaction is based on
    version,              \* version of an object, 0 is the null version
    order,                \* order of an object
    readers,              \* dependants of an object
    read_only,            \* flag of an object
    blocks,               \* contents of an object's own block map
    bver,                 \* version of each of those blocks
    next,                 \* last address given out by an object's allocator
    modified,             \* changes > 0 in an object's allocator
    clock,                \* the last version create_version made
    last_order,           \* coordinator: order
    last_address,         \* coordinator: maximum address allocated
    active_transactions,  \* coordinator: transactions underway
    writing_transactions, \* coordinator: writers underway
    writing_transaction,  \* coordinator: the single writer
    last_comitted_version,
    journal_synching

objVars == <<based, version, order, read_only, next, modified>>
txVars == <<active_transactions, writing_transactions, writing_transaction>>
comVars == <<last_order, last_address, last_comitted_version>>
vars == <<storages, slot, recycler, active, readers, blocks, bver, clock,
          journal_synching, objVars, txVars, comVars>>

Addr == 1..MaxAddr
Free == Objs \ (storages \cup recycler \cup active)
Empty == [a \in Addr |-> NoVal]
ZeroVersions == [a \in Addr |-> 0]
Max2(m, n) == IF m >= n THEN m ELSE n

(* storages.back() *)
Newest == Top(storages, slot)

(* The version o and everything it is based on. *)
Chain(o) == {p \in storages : slot[p] <= slot[o]}

(* What a read of address a finds from version o downwards. *)
ReadFrom(o, a) == Lookup(Chain(o), slot, blocks, blocks, a, NoVal)

(* version_based_allocator::allocate(a, read): own blocks first. *)
TxRead(t, a) ==
    IF blocks[t][a] # NoVal THEN blocks[t][a] ELSE ReadFrom(based[t], a)

Committed == [a \in Addr |-> ReadFrom(Newest, a)]
TxView(t) == [a \in Addr |-> TxRead(t, a)]

-----------------------------------------------------------------------------
(* sqlite_allocator::move refuses a block that is not younger than the one *)
(* it replaces (or than the allocator it is created in).                   *)
MoveAllowed(src, dst) ==
    \A a \in Addr :
        blocks[src][a] # NoVal =>
            bver[src][a] > (IF blocks[dst][a] # NoVal THEN bver[dst][a]
                                                      ELSE version[dst])

(* merge_down applied to the given versions; nothing while the journal is  *)
(* synching.                                                               *)
MergeDown(S, sl, rd) ==
    IF journal_synching
    THEN /\ storages' = S
         /\ UNCHANGED <<blocks, bver>>
    ELSE /\ storages' = S \ MergedAway(S, sl, rd)
         /\ blocks' = MoveDown(S, sl, rd, blocks, blocks, NoVal)
         /\ bver' = MoveDown(S, sl, rd, blocks, bver, 0)

-----------------------------------------------------------------------------
Init ==
    /\ storages = {Root}
    /\ slot = [o \in Objs |-> 0]
    /\ recycler = {}
    /\ active = {}
    /\ based = [o \in Objs |-> NoObj]
    /\ version = [o \in Objs |-> IF o = Root THEN 1 ELSE 0]
    /\ order = [o \in Objs |-> IF o = Root THEN 1 ELSE 0]
    /\ readers = [o \in Objs |-> 0]
    /\ read_only = [o \in Objs |-> FALSE]
    /\ blocks = [o \in Objs |-> Empty]
    /\ bver = [o \in Objs |-> ZeroVersions]
    /\ next = [o \in Objs |-> 0]
    /\ modified = [o \in Objs |-> FALSE]
    /\ clock = 1
    /\ last_order = 1
    /\ last_address = 0
    /\ active_transactions = 0
    /\ writing_transactions = 0
    /\ writing_transaction = NoObj
    /\ last_comitted_version = 0
    /\ journal_synching = FALSE

(* begin: a new version storage at the coordinator's order and version, its*)
(* allocator starting at the last committed address.                       *)
Fresh(t) ==
    /\ t \in Free
    /\ clock < MaxVersion
    /\ clock' = clock + 1
    /\ version' = [version EXCEPT ![t] = clock + 1]
    /\ order' = [order EXCEPT ![t] = last_order]
    /\ next' = [next EXCEPT ![t] = last_address]
    /\ modified' = [modified EXCEPT ![t] = FALSE]
    /\ UNCHANGED recycler

(* begin: or a finished reader, with the version and order it had.         *)
Recycled(t) ==
    /\ t \in recycler
    /\ recycler' = recycler \ {t}
    /\ UNCHANGED <<clock, version, order, next, modified>>

(* A slip: only storages.back() gains a reader.                            *)
AttachToNewest(t) ==
    /\ based' = [based EXCEPT ![t] = Newest]
    /\ readers' = [readers EXCEPT ![Newest] = @ + 1]
    /\ active' = active \cup {t}
    /\ active_transactions' = active_transactions + 1

(* begin: every committed version gains a reader.                          *)
Attach(t) ==
    /\ based' = [based EXCEPT ![t] = Newest]
    /\ readers' = [o \in Objs |->
                     IF o \in storages THEN readers[o] + 1 ELSE readers[o]]
    /\ active' = active \cup {t}
    /\ active_transactions' = active_transactions + 1

BeginReader(t) ==
    /\ IF recycler = {} THEN Fresh(t) ELSE Recycled(t)
    /\ Attach(t)
    /\ read_only' = [read_only EXCEPT ![t] = TRUE]
    /\ UNCHANGED <<storages, slot, blocks, bver, journal_synching,
                   writing_transactions, writing_transaction, comVars>>

(* A slip: writers are not counted, so a second one may begin.             *)
BeginAnyWriter(t) ==
    /\ Fresh(t)
    /\ Attach(t)
    /\ read_only' = [read_only EXCEPT ![t] = FALSE]
    /\ writing_transactions' = writing_transactions + 1
    /\ writing_transaction' = t
    /\ UNCHANGED <<storages, slot, blocks, bver, journal_synching, comVars>>

BeginWriter(t) ==
    /\ writing_transactions = 0
    /\ Fresh(t)
    /\ Attach(t)
    /\ read_only' = [read_only EXCEPT ![t] = FALSE]
    /\ writing_transactions' = writing_transactions + 1
    /\ writing_transaction' = t
    /\ UNCHANGED <<storages, slot, blocks, bver, journal_synching, comVars>>

(* A slip: a block copied from below keeps the version it has there.       *)
StoreWithOldVersion(t, a, v) ==
    /\ t \in active /\ ~read_only[t]
    /\ blocks' = [blocks EXCEPT ![t][a] = v]
    /\ bver' = [bver EXCEPT ![t][a] =
                    Lookup(Chain(based[t]), slot, blocks, bver, a, version[t])]
    /\ next' = [next EXCEPT ![t] = Max2(a, @)]
    /\ modified' = [modified EXCEPT ![t] = TRUE]
    /\ UNCHANGED <<storages, slot, recycler, active, readers, clock,
                   journal_synching, based, version, order, read_only,
                   txVars, comVars>>

(* allocate(a, write) of an existing block, or allocate(a, create): the    *)
(* block is in the transaction's own map, at its version, from then on.    *)
Store(t, a, v) ==
    /\ t \in active /\ ~read_only[t]
    /\ blocks' = [blocks EXCEPT ![t][a] = v]
    /\ bver' = [bver EXCEPT ![t][a] = IF blocks[t][a] # NoVal THEN @ ELSE version[t]]
    /\ next' = [next EXCEPT ![t] = Max2(a, @)]
    /\ modified' = [modified EXCEPT ![t] = TRUE]
    /\ UNCHANGED <<storages, slot, recycler, active, readers, clock,
                   journal_synching, based, version, order, read_only,
                   txVars, comVars>>

(* allocate(0, create): the next address of the transaction's allocator.   *)
Create(t, v) ==
    /\ next[t] + 1 \in Addr
    /\ Store(t, next[t] + 1, v)

(* remove_reader on version o and everything below it.                     *)
Detached(o) ==
    [p \in Objs |-> IF p \in Chain(o) THEN readers[p] - 1 ELSE readers[p]]

Discard(t) ==
    /\ t \in active
    /\ active' = active \ {t}
    /\ active_transactions' = active_transactions - 1
    /\ writing_transactions' =
            IF read_only[t] THEN writing_transactions ELSE writing_transactions - 1
    /\ read_only' = [read_only EXCEPT ![t] = TRUE]
    /\ readers' = Detached(based[t])
    /\ recycler' = IF read_only[t] THEN recycler \cup {t} ELSE recycler
    /\ blocks' = [blocks EXCEPT ![t] = Empty]
    /\ bver' = [bver EXCEPT ![t] = ZeroVersions]
    /\ UNCHANGED <<storages, slot, clock, journal_synching, based, version,
                   order, next, modified, writing_transaction, comVars>>

(* The checks commit and merge make before they touch anything; each one   *)
(* throws (and for the order check discards) when it fails.                *)
MayFinish(t) ==
    /\ ~read_only[t]
    /\ version[t] > last_comitted_version
    /\ active_transactions # 0
    /\ modified[t] => order[t] >= last_order
    /\ based[t] = Newest

(* The last address and version committed become those of t.               *)
LastAddressKept(t) ==
    /\ last_comitted_version' = version[t]
    /\ UNCHANGED last_address

Publish(t) ==
    /\ last_address' = Max2(last_address, next[t])
    /\ last_comitted_version' = version[t]

(* push_back of the version, and merge_down; the order counts commits.     *)
PushAtSameOrder(t) ==
    LET sl == [slot EXCEPT ![t] = clock]
    IN  /\ slot' = sl
        /\ readers' = Detached(based[t])
        /\ MergeDown(storages \cup {t}, sl, Detached(based[t]))
        /\ UNCHANGED last_order

Push(t) ==
    LET sl == [slot EXCEPT ![t] = last_order]
    IN  /\ slot' = sl
        /\ readers' = Detached(based[t])
        /\ MergeDown(storages \cup {t}, sl, Detached(based[t]))
        /\ last_order' = last_order + 1

Commit(t) ==
    /\ "commit" \in Paths
    /\ t \in active /\ MayFinish(t)
    /\ active' = active \ {t}
    /\ active_transactions' = active_transactions - 1
    /\ writing_transactions' = writing_transactions - 1
    /\ read_only' = [read_only EXCEPT ![t] = TRUE]
    /\ Publish(t)
    /\ Push(t)
    /\ UNCHANGED <<recycler, clock, journal_synching, based, version, order,
                   next, modified, writing_transaction>>

(* sqlite_allocator::move: the blocks of t replace those of dst.           *)
Move(t, dst) ==
    /\ blocks' = [blocks EXCEPT
                    ![dst] = [a \in Addr |-> IF blocks[t][a] # NoVal
                                             THEN blocks[t][a] ELSE @[a]],
                    ![t] = Empty]
    /\ bver' = [bver EXCEPT
                    ![dst] = [a \in Addr |-> IF blocks[t][a] # NoVal
                                             THEN bver[t][a] ELSE @[a]],
                    ![t] = ZeroVersions]
    /\ modified' = [modified EXCEPT ![t] = FALSE]

(* The transaction goes on at the new order, with a higher version.  Slips *)
(* would be to forget either.                                              *)
RenewVersionOnly(t) ==
    /\ clock < MaxVersion
    /\ clock' = clock + 1
    /\ version' = [version EXCEPT ![t] = clock + 1]
    /\ last_order' = last_order + 1
    /\ UNCHANGED order

RenewOrderOnly(t) ==
    /\ last_order' = last_order + 1
    /\ order' = [order EXCEPT ![t] = last_order + 1]
    /\ UNCHANGED <<clock, version>>

Renew(t) ==
    /\ clock < MaxVersion
    /\ clock' = clock + 1
    /\ version' = [version EXCEPT ![t] = clock + 1]
    /\ last_order' = last_order + 1
    /\ order' = [order EXCEPT ![t] = last_order + 1]

(* merge moves the transaction's blocks into storages.back(), whoever reads*)
(* it, and keeps the transaction for the next write.                       *)
Merge(t) ==
    /\ "merge" \in Paths
    /\ t \in active /\ MayFinish(t)
    /\ t = writing_transaction
    /\ MoveAllowed(t, Newest)
    /\ Publish(t)
    /\ Move(t, Newest)
    /\ Renew(t)
    /\ UNCHANGED <<storages, slot, recycler, active, readers, based,
                   read_only, next, journal_synching, txVars>>

(* make_singular, called by the journal.                                   *)
MakeSingular ==
    /\ MergeDown(storages, slot, readers)
    /\ UNCHANGED <<slot, recycler, active, readers, clock, journal_synching,
                   objVars, txVars, comVars>>

JournalSynchStart ==
    /\ ~journal_synching
    /\ journal_synching' = TRUE
    /\ UNCHANGED <<storages, slot, recycler, active, readers, blocks, bver,
                   clock, objVars, txVars, comVars>>

JournalSynchEnd ==
    /\ journal_synching
    /\ journal_synching' = FALSE
    /\ UNCHANGED <<storages, slot, recycler, active, readers, blocks, bver,
                   clock, objVars, txVars, comVars>>

Next ==
    \/ \E t \in Objs :
        \/ BeginReader(t)
        \/ BeginWriter(t)
        \/ \E a \in Addr, v \in Val : Store(t, a, v)
        \/ \E v \in Val : Create(t, v)
        \/ Discard(t)
        \/ Commit(t)
        \/ Merge(t)
    \/ MakeSingular
    \/ JournalSynchStart
    \/ JournalSynchEnd

Spec == Init /\ [][Next]_vars

-----------------------------------------------------------------------------
TypeOK ==
    /\ storages \subseteq Objs
    /\ slot \in [Objs -> Nat]
    /\ recycler \subseteq Objs
    /\ active \subseteq Objs
    /\ based \in [Objs -> Objs \cup {NoObj}]
    /\ version \in [Objs -> Nat]
    /\ order \in [Objs -> Nat]
    /\ readers \in [Objs -> Nat]
    /\ read_only \in [Objs -> BOOLEAN]
    /\ blocks \in [Objs -> [Addr -> Val \cup {NoVal}]]
    /\ bver \in [Objs -> [Addr -> Nat]]
    /\ next \in [Objs -> Nat]
    /\ modified \in [Objs -> BOOLEAN]
    /\ clock \in Nat
    /\ last_order \in Nat
    /\ last_address \in Nat
    /\ active_transactions \in Nat
    /\ writing_transactions \in Nat
    /\ writing_transaction \in Objs \cup {NoObj}
    /\ last_comitted_version \in Nat
    /\ journal_synching \in BOOLEAN

(* remove_reader never meets a zero count (InvalidReaderCount), and        *)
(* is_unused() is the truth merge_down needs: the count of a version is the*)
(* number of active transactions that read through it, whatever begin,     *)
(* discard, commit and merge_down did in between.                          *)
ReaderCount ==
    \A o \in storages :
        readers[o] = Cardinality({t \in active : o \in Chain(based[t])})

(* One writer at a time, known to the coordinator, at the coordinator's    *)
(* order and above the last committed version: none of the throws of       *)
(* commit and merge (InvalidVersion, InvalidWriterOrder,                   *)
(* ConcurrentWriterError) can hit it.                                      *)
WriterCanFinish ==
    \A t \in active : ~read_only[t] => MayFinish(t) /\ writing_transaction = t

(* sqlite_allocator::move never throws InvalidVersion half way, nor does   *)
(* merge_down throw InvalidWriterOrder: versions grow along the vector, and*)
(* blocks of a younger version are younger than those of any older one they*)
(* may be moved into, the writer's than those of storages.back().          *)
MovesNeverThrow ==
    /\ \A o, p \in storages :
            slot[p] < slot[o] => version[p] < version[o] /\ MoveAllowed(o, p)
    /\ \A t \in active : ~read_only[t] => MoveAllowed(t, Newest)

(* A new address never hits a block that is already committed: the writer  *)
(* allocates above every address any committed version holds.              *)
FreshAddresses ==
    \A t \in active, o \in storages, a \in Addr :
        ~read_only[t] /\ blocks[o][a] # NoVal => a <= next[t]

(* abstracted_storage::stale() compares orders only: a transaction whose   *)
(* order is the coordinator's sees the committed state.                    *)
NotStaleIsCurrent ==
    \A t \in active :
        read_only[t] /\ order[t] = last_order => TxView(t) = Committed

(* A step changes the committed state only by making it a writer's view,   *)
(* all of it: discarding, reading, recycling and merging versions down     *)
(* never do.                                                               *)
CommitIsAtomic ==
    [][Committed' # Committed =>
         \E t \in active : ~read_only[t] /\ Committed' = TxView(t)]_vars

(* "The merge should produce only one table on completion in idle state":  *)
(* whenever no transaction is underway nothing counts as read, so that all *)
(* versions but the lowest would be merged away, and the commit that ends  *)
(* the last transaction does leave one (not while the journal is synching).*)
IdleMergesToOne ==
    /\ [](active = {} => Cardinality(storages \ MergedAway(storages, slot, readers)) = 1)
    /\ [][active' = {} /\ last_order' # last_order /\ ~journal_synching =>
             Cardinality(storages') = 1]_vars

(* The parts of the inductive invariant that the type and the properties   *)
(* above rest on.                                                          *)
Partition ==
    /\ storages # {}
    /\ storages \cap active = {}
    /\ storages \cap recycler = {}
    /\ active \cap recycler = {}

SlotsOrdered ==
    /\ \A o \in storages : slot[o] < last_order
    /\ \A o, p \in storages : slot[o] = slot[p] => o = p

BasesLive == \A t \in active : based[t] \in storages

OnlyStoragesRead == \A o \in Objs \ storages : readers[o] = 0

OnlyWritersHold ==
    \A o \in Objs \ storages : o \notin active \/ read_only[o] => blocks[o] = Empty

Counters ==
    /\ writing_transactions = Cardinality({t \in active : ~read_only[t]})
    /\ active_transactions = Cardinality(active)

(* The invariant merge_down relies on, as an inductive whole: the reader   *)
(* counts are exact, every transaction's base is a live committed version, *)
(* and objects that are not committed versions hold nothing but the        *)
(* writer's own blocks.                                                    *)
CoordinatorInv ==
    /\ TypeOK
    /\ Partition
    /\ SlotsOrdered
    /\ BasesLive
    /\ OnlyStoragesRead
    /\ OnlyWritersHold
    /\ Counters
    /\ ReaderCount

(* The parts of the invariant the writer's properties rest on.  Nothing is *)
(* younger than the last version made, no order above the coordinator's.   *)
ClockAhead ==
    /\ \A o \in Objs : version[o] <= clock /\ order[o] <= last_order
    /\ last_comitted_version <= clock
    /\ \A o \in storages, a \in Addr :
            blocks[o][a] # NoVal => bver[o][a] <= clock /\ a <= last_address

(* Versions grow along the vector, and so do those of blocks.              *)
VersionsGrow ==
    \A o, p \in storages :
        slot[p] < slot[o] =>
            /\ version[p] < version[o]
            /\ \A a \in Addr : blocks[o][a] # NoVal =>
                  /\ version[p] < bver[o][a]
                  /\ blocks[p][a] # NoVal => bver[p][a] < bver[o][a]

(* The writer is the one the coordinator knows, at its order and on        *)
(* storages.back(), younger than all that is committed, and its own blocks *)
(* are at its version and within the addresses it gave out.                *)
WriterAhead ==
    \A t \in active : ~read_only[t] =>
        /\ t = writing_transaction
        /\ based[t] = Newest
        /\ order[t] = last_order
        /\ last_comitted_version < version[t]
        /\ last_address <= next[t]
        /\ \A o \in storages :
              /\ version[o] < version[t]
              /\ \A a \in Addr : blocks[o][a] # NoVal => bver[o][a] < version[t]
        /\ \A a \in Addr :
              blocks[t][a] # NoVal => bver[t][a] = version[t] /\ a <= next[t]

(* A reader at the coordinator's order is based on storages.back().        *)
CurrentIsNewest ==
    \A t \in active : read_only[t] /\ order[t] = last_order => based[t] = Newest

(* Whatever begin, commit, merge and merge_down do, what begin gives out   *)
(* next is ahead of all that is committed, so that the comparisons by which*)
(* commit, merge and move throw, and stale() decides, come out right.      *)
WriterInv == ClockAhead /\ VersionsGrow /\ WriterAhead /\ CurrentIsNewest

-----------------------------------------------------------------------------
(* The coordinator implements the abstract snapshot store.                 *)
Mode == [t \in Objs |-> IF t \notin active THEN "idle"
                        ELSE IF read_only[t] THEN "read" ELSE "write"]
Views == [t \in Objs |-> IF t \in active THEN TxView(t) ELSE Empty]

Abs == INSTANCE SnapshotStore WITH
          Tx <- Objs, committed <- Committed, mode <- Mode, view <- Views

(* Snapshot isolation: every step is a step of SnapshotStore or changes    *)
(* nothing it can see; no transaction's view is changed by another's.      *)
ImplementsSnapshotStore == Abs!Spec
=============================================================================
