----------------------------- MODULE BlockCache -----------------------------
(***************************************************************************)
(* The block allocator of one version (sqlite_allocator): a cache of       *)
(* blocks over a table in an sqlite file, with a transaction that may be   *)
(* open on it.  It is permanent (the initial storage, which committed      *)
(* blocks are moved into and which the journal commits) or transient (the  *)
(* blocks of one transaction, handed on or dropped with their file).       *)
(*                                                                         *)
(* Memory pressure may evict blocks before any allocation.  Every          *)
(* operation holds the allocator's lock.  sqlite is modelled by what the   *)
(* code relies on: statements of the open session see "file", a commit     *)
(* makes that "durable", a rollback or a crash takes "durable" back.       *)
(* next is already at least every address in the table when a session is   *)
(* opened (AddressesBelowNext), so that opening one does not change it.    *)
(***************************************************************************)
EXTENDS Integers, FiniteSets

CONSTANTS
    MaxAddr,        \* bound: addresses are 1..MaxAddr
    Val,            \* block contents
    NoBlock,        \* end()
    MaxVersion,     \* bound: versions created
    MaxReferences   \* bound: references held by the coordinator

ASSUME BoundAssumption ==
    MaxAddr \in Nat /\ MaxVersion \in Nat /\ MaxReferences \in Nat

Addr == 1..MaxAddr
Block == [val : Val, ver : Nat]

ASSUME NoBlockAssumption == NoBlock \notin Block

VARIABLES
    transient,   \* the file is to be removed with the allocator
    cache,       \* allocations: the blocks in memory
    dirty,       \* those of them that are modified
    file,        \* the table as the open session sees it
    durable,     \* the table as last committed
    versions,    \* side map of block versions, 0 where there is no entry
    next,        \* last address given out
    changes,     \* changes > 0
    transacted,  \* a transaction is open
    session,     \* a session is open
    is_new,      \* there is no file
    references,
    version,     \* version of the allocator
    clock        \* the last version create_version made

sqlVars == <<file, durable, transacted, session, is_new>>
cacheVars == <<cache, dirty, versions, changes>>
vars == <<transient, next, references, version, clock, sqlVars, cacheVars>>

Empty == [a \in Addr |-> NoBlock]
NoVersions == [a \in Addr |-> 0]
Held(m) == {a \in Addr : m[a] # NoBlock}
Max2(m, n) == IF m >= n THEN m ELSE n

(* get_buffer: nothing is looked for when there is no file.                *)
OnFile(a) == IF is_new THEN NoBlock ELSE file[a]

(* The block _allocate(a, read) gives.                                     *)
Found(a) == IF cache[a] # NoBlock THEN cache[a] ELSE OnFile(a)
Contents == [a \in Addr |-> Found(a)]

(* Opening the session makes the file.                                     *)
GetSession == session' = TRUE /\ is_new' = FALSE

Init ==
    /\ transient \in BOOLEAN
    /\ cache = Empty /\ dirty = {} /\ versions = NoVersions /\ changes = FALSE
    /\ file = Empty /\ durable = Empty
    /\ transacted = FALSE /\ session = FALSE /\ is_new = TRUE
    /\ next = 0
    /\ references = 0
    /\ version = 1 /\ clock = 1

-----------------------------------------------------------------------------
(* _allocate(a, read) of a block that is not cached.                       *)
Read(a) ==
    /\ cache[a] = NoBlock /\ ~is_new
    /\ GetSession
    /\ IF file[a] # NoBlock
       THEN /\ cache' = [cache EXCEPT ![a] = file[a]]
            /\ versions' = [versions EXCEPT ![a] = file[a].ver]
       ELSE UNCHANGED <<cache, versions>>
    /\ UNCHANGED <<transient, dirty, changes, file, durable, transacted, next,
                   references, version, clock>>

(* _allocate(a, write), and the caller's change of the block; end() and    *)
(* nothing to change if the block does not exist.                          *)
Write(a, v) ==
    /\ transient
    /\ changes' = TRUE
    /\ session' = (session \/ (cache[a] = NoBlock /\ ~is_new))
    /\ IF Found(a) # NoBlock
       THEN /\ cache' = [cache EXCEPT ![a] = [val |-> v, ver |-> Found(a).ver]]
            /\ versions' = IF cache[a] # NoBlock THEN versions
                           ELSE [versions EXCEPT ![a] = Found(a).ver]
            /\ dirty' = dirty \cup {a}
       ELSE UNCHANGED <<cache, versions, dirty>>
    /\ UNCHANGED <<transient, file, durable, transacted, is_new, next,
                   references, version, clock>>

(* What _allocate(a, create) leaves in the cache, with content v at        *)
(* version w.                                                              *)
Place(a, v, w) ==
    /\ changes' = TRUE
    /\ cache' = [cache EXCEPT ![a] = [val |-> v, ver |-> w]]
    /\ dirty' = dirty \cup {a}
    /\ next' = Max2(a, next)

(* A cached block keeps its version, any other gets the allocator's.       *)
AllocatedVersion(a) == IF cache[a] # NoBlock THEN cache[a].ver ELSE version

(* _allocate(a, create) by a transaction.                                  *)
Create(a, v) ==
    /\ transient
    /\ Place(a, v, AllocatedVersion(a))
    /\ versions' = IF cache[a] # NoBlock THEN versions
                   ELSE [versions EXCEPT ![a] = version]
    /\ UNCHANGED <<transient, sqlVars, references, version, clock>>

(* _allocate(0, create): the next address.                                 *)
CreateNext(v) == next + 1 \in Addr /\ Create(next + 1, v)

(* A slip: the side map is not told of the version that came along.        *)
MoveInUntold(a, v, w) ==
    /\ w > AllocatedVersion(a)
    /\ Place(a, v, w)
    /\ clock' = Max2(clock, w)
    /\ UNCHANGED <<transient, versions, sqlVars, references, version>>

(* A block of version w moved in from a younger version; it overtakes the  *)
(* one that is there, and brings its version along.                        *)
MoveIn(a, v, w) ==
    /\ w > AllocatedVersion(a)
    /\ Place(a, v, w)
    /\ versions' = [versions EXCEPT ![a] = w]
    /\ clock' = Max2(clock, w)
    /\ UNCHANGED <<transient, sqlVars, references, version>>

-----------------------------------------------------------------------------
(* A slip: modified blocks are not written.                                *)
FlushedNothing == file

(* The table and the side map after every modified block is written.       *)
Flushed == [a \in Addr |-> IF a \in dirty THEN cache[a] ELSE file[a]]
FlushedVersions(E) ==
    [a \in Addr |-> IF a \in dirty \cup E THEN cache[a].ver ELSE versions[a]]

(* check_use and reduce: flush_back writes the modified blocks, erases them*)
(* and any others E, the least recently used first.                        *)
CheckUse(E) ==
    /\ E \subseteq Held(cache) \ dirty
    /\ cache' = [a \in Addr |-> IF a \in dirty \cup E THEN NoBlock ELSE cache[a]]
    /\ versions' = FlushedVersions(E)
    /\ file' = Flushed
    /\ dirty' = {}
    /\ transacted' = (transacted \/ dirty # {})
    /\ GetSession
    /\ UNCHANGED <<transient, changes, durable, next, references, version, clock>>

(* begin_new and commit, for the journal: written, and kept in the cache.  *)
JournalCommit ==
    /\ ~transient
    /\ GetSession
    /\ file' = Flushed
    /\ durable' = Flushed
    /\ versions' = FlushedVersions({})
    /\ dirty' = {}
    /\ transacted' = FALSE
    /\ UNCHANGED <<transient, cache, changes, next, references, version, clock>>

(* The cache and the side map are given up, the session closed.            *)
Close ==
    /\ cache' = Empty
    /\ dirty' = {}
    /\ versions' = NoVersions
    /\ changes' = FALSE
    /\ session' = FALSE
    /\ transacted' = FALSE

Engage ==
    /\ ~transient
    /\ references < MaxReferences
    /\ references' = references + 1
    /\ UNCHANGED <<transient, next, version, clock, sqlVars, cacheVars>>

(* release: the last reference discards, after a commit if there were      *)
(* changes; an open transaction is rolled back otherwise.                  *)
Release ==
    /\ ~transient
    /\ references' = IF references > 0 THEN references - 1 ELSE 0
    /\ IF references' = 0
       THEN /\ durable' = IF changes THEN Flushed ELSE durable
            /\ file' = durable'
            /\ is_new' = (is_new /\ ~changes)
            /\ Close
       ELSE UNCHANGED <<sqlVars, cacheVars>>
    /\ UNCHANGED <<transient, next, version, clock>>

(* An open session's file is removed with a transient allocator.           *)
RemoveFile ==
    /\ file' = IF session THEN Empty ELSE file
    /\ durable' = IF session THEN Empty ELSE durable
    /\ is_new' = (session \/ is_new)

NewVersion ==
    /\ clock < MaxVersion
    /\ clock' = clock + 1
    /\ version' = clock + 1

(* move: all blocks are handed to the version below, then rollback; the    *)
(* transaction goes on with a new version.                                 *)
MoveOut ==
    /\ transient
    /\ RemoveFile
    /\ Close
    /\ NewVersion
    /\ UNCHANGED <<transient, next, references>>

(* A transaction is dropped: discard.  The next one has an allocator of its*)
(* own that starts at the coordinator's last address n.                    *)
Destroy(n) ==
    /\ transient
    /\ RemoveFile
    /\ Close
    /\ NewVersion
    /\ next' = n
    /\ UNCHANGED <<transient, references>>

(* The process ends at any time and is started again: files of             *)
(* transactions are deleted, others opened.                                *)
Crash ==
    /\ cache' = Empty /\ dirty' = {} /\ versions' = NoVersions /\ changes' = FALSE
    /\ durable' = IF transient THEN Empty ELSE durable
    /\ file' = durable'
    /\ is_new' = (transient \/ is_new)
    /\ session' = ~is_new'
    /\ transacted' = FALSE
    /\ references' = 0
    /\ next' \in {n \in {0} \cup Addr :
                     /\ \A a \in Held(durable') : a <= n
                     /\ n = 0 \/ n \in Held(durable')}
    /\ NewVersion
    /\ UNCHANGED transient

Next ==
    \/ \E a \in Addr : Read(a)
    \/ \E a \in Addr, v \in Val : Write(a, v) \/ Create(a, v)
    \/ \E v \in Val : CreateNext(v)
    \/ \E a \in Addr, v \in Val, w \in 1..MaxVersion : MoveIn(a, v, w)
    \/ \E E \in SUBSET Held(cache) : CheckUse(E)
    \/ JournalCommit
    \/ Engage
    \/ Release
    \/ MoveOut
    \/ \E n \in 0..MaxAddr : Destroy(n)
    \/ Crash

Spec == Init /\ [][Next]_vars

-----------------------------------------------------------------------------
TypeOK ==
    /\ transient \in BOOLEAN /\ changes \in BOOLEAN /\ transacted \in BOOLEAN
    /\ session \in BOOLEAN /\ is_new \in BOOLEAN
    /\ cache \in [Addr -> Block \cup {NoBlock}]
    /\ file \in [Addr -> Block \cup {NoBlock}]
    /\ durable \in [Addr -> Block \cup {NoBlock}]
    /\ versions \in [Addr -> Nat]
    /\ dirty \subseteq Held(cache)
    /\ next \in Nat /\ references \in Nat /\ version \in Nat /\ clock \in Nat

(* get_latest_version answers from the side map before it looks at the     *)
(* block: through eviction, reloading, commits and moves an entry of the   *)
(* map is the version of the block that is there.                          *)
VersionsAgree ==
    \A a \in Addr :
        versions[a] # 0 => Found(a) # NoBlock /\ versions[a] = Found(a).ver

(* A slip: blocks that have been written out are forgotten.                *)
ModifiedInCache == dirty

(* get_addresses (move) and get_modified_addresses (journal) look at the   *)
(* cache and, only with a session open, at the file.                       *)
Addresses == (IF session THEN Held(file) ELSE {}) \cup Held(cache)
ModifiedAddresses == (IF session THEN Held(file) ELSE {}) \cup dirty

(* A transaction's journal entries, and the blocks it hands over when it is*)
(* merged, are all the blocks it has, whatever was evicted, written and    *)
(* read back before: nothing is committed in part.                         *)
HandsOverAll ==
    transient => Addresses = Held(Contents) /\ ModifiedAddresses = Held(Contents)

(* discard saves only if changes were counted, and rolls back otherwise: a *)
(* permanent allocator whose cache or open transaction has something that  *)
(* is not durable has counted a change.                                    *)
UnsavedIsCounted ==
    ~transient /\ (dirty # {} \/ file # durable) => changes

(* A new address is above every block the allocator holds.                 *)
AddressesBelowNext == \A a \in Held(Contents) : a <= next

(* What the above rest on: clean cached blocks are on file, only an open   *)
(* transaction tells the file from what is durable, and what is not a file *)
(* holds nothing.                                                          *)
CleanIsOnFile == \A a \in Held(cache) \ dirty : file[a] = cache[a]
OnlyTransactionsDiffer == ~transacted => file = durable
TransactedHasSession == transacted => session
NoFileIsEmpty == is_new => file = Empty /\ durable = Empty
SessionHasFile == session => ~is_new
TransientNeedsSession == transient /\ ~session => is_new
CachedIsVersioned == \A a \in Held(cache) : versions[a] = cache[a].ver

CacheInv ==
    /\ TypeOK
    /\ CleanIsOnFile
    /\ OnlyTransactionsDiffer
    /\ TransactedHasSession
    /\ NoFileIsEmpty
    /\ SessionHasFile
    /\ TransientNeedsSession
    /\ CachedIsVersioned
    /\ UnsavedIsCounted
    /\ VersionsAgree
    /\ AddressesBelowNext

-----------------------------------------------------------------------------
(* Only a permanent allocator outlives its process.                        *)
Stable == IF transient THEN Empty ELSE durable

Abs == INSTANCE BlockMap WITH
          contents <- Contents, stable <- Stable, incarnation <- version

(* The allocator implements a map of blocks: eviction, reloading, opening  *)
(* and closing the file change nothing it holds, a commit or the last      *)
(* release makes all of it stable, and a restart finds that.               *)
ImplementsBlockMap == Abs!Spec
=============================================================================
