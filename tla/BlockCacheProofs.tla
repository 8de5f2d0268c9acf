-------------------------- MODULE BlockCacheProofs --------------------------
(***************************************************************************)
(* Proofs about the block allocator.  CacheInv is inductive; one lemma per *)
(* action, then the refinement of BlockMap from the same invariant.        *)
(***************************************************************************)
EXTENDS BlockCache, TLAPS

(* The parts of CacheInv that speak about the file. *)
FileInv ==
    /\ OnlyTransactionsDiffer
    /\ TransactedHasSession
    /\ NoFileIsEmpty
    /\ SessionHasFile
    /\ TransientNeedsSession
    /\ UnsavedIsCounted

(* The parts of CacheInv that speak about blocks. *)
BlockInv ==
    /\ CleanIsOnFile
    /\ CachedIsVersioned
    /\ VersionsAgree
    /\ AddressesBelowNext

LEMMA InvParts == CacheInv <=> TypeOK /\ FileInv /\ BlockInv
BY DEF CacheInv, FileInv, BlockInv

(* Initially there is nothing in the cache and nothing on file. *)
LEMMA InitCacheInv == Init => CacheInv
<1>1. Init => TypeOK
  <2> SUFFICES ASSUME Init PROVE TypeOK
    OBVIOUS
  <2>1. /\ transient \in BOOLEAN /\ changes \in BOOLEAN /\ transacted \in BOOLEAN
        /\ session \in BOOLEAN /\ is_new \in BOOLEAN
    BY Zenon DEF Init
  <2>2. /\ cache \in [Addr -> Block \cup {NoBlock}]
        /\ file \in [Addr -> Block \cup {NoBlock}]
        /\ durable \in [Addr -> Block \cup {NoBlock}]
        /\ versions \in [Addr -> Nat]
        /\ dirty \subseteq Held(cache)
    BY DEF Init, Empty, NoVersions
  <2>3. next \in Nat /\ references \in Nat /\ version \in Nat /\ clock \in Nat
    BY DEF Init
  <2> QED BY <2>1, <2>2, <2>3 DEF TypeOK
<1>2. Init => FileInv
  BY DEF Init, FileInv, OnlyTransactionsDiffer, TransactedHasSession, NoFileIsEmpty,
         SessionHasFile, TransientNeedsSession, UnsavedIsCounted
<1>3. Init => BlockInv
  BY DEF Init, BlockInv, CleanIsOnFile, CachedIsVersioned, VersionsAgree,
         AddressesBelowNext, Held, Empty, NoVersions, Contents, Found, OnFile
<1> QED BY <1>1, <1>2, <1>3, InvParts

(* _allocate(a, read) loads the block that is on file. *)
LEMMA ReadInv ==
    ASSUME CacheInv, NEW a \in Addr, Read(a)
    PROVE  CacheInv'
<1>1. TypeOK'
  BY DEF CacheInv, TypeOK, Read, GetSession, Held, Block
<1>2. FileInv'
  BY DEF CacheInv, Read, GetSession, FileInv, OnlyTransactionsDiffer,
         TransactedHasSession, NoFileIsEmpty, SessionHasFile, TransientNeedsSession,
         UnsavedIsCounted
<1>3. BlockInv'
  BY DEF CacheInv, TypeOK, Read, GetSession, BlockInv, CleanIsOnFile,
         CachedIsVersioned, VersionsAgree, AddressesBelowNext, Held, Contents, Found,
         OnFile
<1> QED BY <1>1, <1>2, <1>3 DEF CacheInv, FileInv, BlockInv

(* A written block keeps its version and is modified from then on. *)
LEMMA WriteInv ==
    ASSUME CacheInv, NEW a \in Addr, NEW v \in Val, Write(a, v)
    PROVE  CacheInv'
<1> USE DEF CacheInv
<1>1. TypeOK'
  <2>1. /\ transient' \in BOOLEAN /\ changes' \in BOOLEAN /\ transacted' \in BOOLEAN
        /\ session' \in BOOLEAN /\ is_new' \in BOOLEAN
    BY DEF TypeOK, Write
  <2>2. /\ cache' \in [Addr -> Block \cup {NoBlock}]
        /\ file' \in [Addr -> Block \cup {NoBlock}]
        /\ durable' \in [Addr -> Block \cup {NoBlock}]
        /\ versions' \in [Addr -> Nat]
    <3>1. CASE Found(a) = NoBlock
      BY <3>1 DEF TypeOK, Write
    <3>2. CASE Found(a) # NoBlock
      <4>1. Found(a) \in Block
        BY <3>2 DEF TypeOK, Found, OnFile
      <4>2. [val |-> v, ver |-> Found(a).ver] \in Block /\ Found(a).ver \in Nat
        BY <4>1 DEF Block
      <4> QED BY <3>2, <4>2 DEF TypeOK, Write
    <3> QED BY <3>1, <3>2
  <2>3. dirty' \subseteq Held(cache)'
    <3>1. CASE Found(a) = NoBlock
      BY <3>1 DEF TypeOK, Write, Held
    <3>2. CASE Found(a) # NoBlock
      <4>1. [val |-> v, ver |-> Found(a).ver] # NoBlock
        BY <3>2, NoBlockAssumption DEF TypeOK, Found, OnFile, Block
      <4> QED BY <3>2, <4>1 DEF TypeOK, Write, Held
    <3> QED BY <3>1, <3>2
  <2>4. next' \in Nat /\ references' \in Nat /\ version' \in Nat /\ clock' \in Nat
    BY DEF TypeOK, Write
  <2> QED BY <2>1, <2>2, <2>3, <2>4 DEF TypeOK
<1>2. FileInv'
  BY DEF Write, FileInv, OnlyTransactionsDiffer, TransactedHasSession, NoFileIsEmpty,
         SessionHasFile, TransientNeedsSession, UnsavedIsCounted
<1>3. BlockInv'
  <2>1. CASE Found(a) = NoBlock
    BY <2>1 DEF TypeOK, Write, BlockInv, CleanIsOnFile, CachedIsVersioned, VersionsAgree,
           AddressesBelowNext, Held, Contents, Found, OnFile
  <2>2. CASE Found(a) # NoBlock
    <3>1. [val |-> v, ver |-> Found(a).ver] # NoBlock
      BY <2>2, NoBlockAssumption DEF TypeOK, Found, OnFile, Block
    <3>2. /\ cache' = [cache EXCEPT ![a] = [val |-> v, ver |-> Found(a).ver]]
          /\ dirty' = dirty \cup {a}
          /\ versions' = IF cache[a] # NoBlock THEN versions
                         ELSE [versions EXCEPT ![a] = Found(a).ver]
          /\ UNCHANGED <<file, is_new, next>>
      BY <2>2 DEF Write
    <3>3. CachedIsVersioned'
      BY <3>1, <3>2 DEF TypeOK, CachedIsVersioned, Held, Found
    <3>4. VersionsAgree'
      BY <3>1, <3>2, <2>2 DEF TypeOK, CachedIsVersioned, VersionsAgree, Held, Found, OnFile
    <3>5. CleanIsOnFile'
      BY <3>1, <3>2 DEF TypeOK, CleanIsOnFile, Held
    <3>6. AddressesBelowNext'
      BY <2>2, <3>1, <3>2 DEF TypeOK, AddressesBelowNext, Held, Contents, Found, OnFile
    <3> QED BY <3>3, <3>4, <3>5, <3>6 DEF BlockInv
  <2> QED BY <2>1, <2>2
<1> QED BY <1>1, <1>2, <1>3 DEF FileInv, BlockInv

(* A created block is modified, and next is at least its address. *)
LEMMA CreateInv ==
    ASSUME CacheInv, NEW a \in Addr, NEW v \in Val, Create(a, v)
    PROVE  CacheInv'
<1> USE BoundAssumption DEF CacheInv
<1>1. TypeOK'
  <2>1. /\ transient' \in BOOLEAN /\ changes' \in BOOLEAN /\ transacted' \in BOOLEAN
        /\ session' \in BOOLEAN /\ is_new' \in BOOLEAN
    BY DEF TypeOK, Create, Place, sqlVars
  <2>2. /\ cache' \in [Addr -> Block \cup {NoBlock}]
        /\ file' \in [Addr -> Block \cup {NoBlock}]
        /\ durable' \in [Addr -> Block \cup {NoBlock}]
        /\ versions' \in [Addr -> Nat]
    <3>1. AllocatedVersion(a) \in Nat
      BY DEF TypeOK, AllocatedVersion, Block
    <3>2. [val |-> v, ver |-> AllocatedVersion(a)] \in Block
      BY <3>1 DEF Block
    <3> QED BY <3>2 DEF TypeOK, Create, Place, sqlVars
  <2>3. dirty' \subseteq Held(cache)'
    <3>1. [val |-> v, ver |-> AllocatedVersion(a)] # NoBlock
      BY NoBlockAssumption DEF TypeOK, AllocatedVersion, Block
    <3> QED BY <3>1 DEF TypeOK, Create, Place, Held
  <2>4. next' \in Nat /\ references' \in Nat /\ version' \in Nat /\ clock' \in Nat
    BY DEF TypeOK, Create, Place, Max2, Addr
  <2> QED BY <2>1, <2>2, <2>3, <2>4 DEF TypeOK
<1>2. FileInv'
  BY DEF Create, Place, sqlVars, FileInv, OnlyTransactionsDiffer,
         TransactedHasSession, NoFileIsEmpty, SessionHasFile, TransientNeedsSession,
         UnsavedIsCounted
<1>3. BlockInv'
  BY NoBlockAssumption DEF TypeOK, Create, Place, AllocatedVersion, sqlVars, BlockInv, CleanIsOnFile,
         CachedIsVersioned, VersionsAgree, AddressesBelowNext, Held, Contents, Found,
         OnFile, Block, Max2, Addr
<1> QED BY <1>1, <1>2, <1>3 DEF FileInv, BlockInv

(* A block that is moved in brings its version into the side map. *)
LEMMA MoveInInv ==
    ASSUME CacheInv, NEW a \in Addr, NEW v \in Val, NEW w \in 1..MaxVersion,
           MoveIn(a, v, w)
    PROVE  CacheInv'
<1> USE BoundAssumption DEF CacheInv
<1>1. TypeOK'
  <2>1. /\ transient' \in BOOLEAN /\ changes' \in BOOLEAN /\ transacted' \in BOOLEAN
        /\ session' \in BOOLEAN /\ is_new' \in BOOLEAN
    BY DEF TypeOK, MoveIn, Place, sqlVars
  <2>2. /\ cache' \in [Addr -> Block \cup {NoBlock}]
        /\ file' \in [Addr -> Block \cup {NoBlock}]
        /\ durable' \in [Addr -> Block \cup {NoBlock}]
        /\ versions' \in [Addr -> Nat]
    BY DEF TypeOK, MoveIn, Place, sqlVars, Block
  <2>3. dirty' \subseteq Held(cache)'
    BY NoBlockAssumption, <2>2 DEF TypeOK, MoveIn, Place, Held, Block
  <2>4. next' \in Nat /\ references' \in Nat /\ version' \in Nat /\ clock' \in Nat
    BY DEF TypeOK, MoveIn, Place, Max2, Addr
  <2> QED BY <2>1, <2>2, <2>3, <2>4 DEF TypeOK
<1>2. FileInv'
  BY DEF MoveIn, Place, sqlVars, FileInv, OnlyTransactionsDiffer,
         TransactedHasSession, NoFileIsEmpty, SessionHasFile, TransientNeedsSession,
         UnsavedIsCounted
<1>3. BlockInv'
  BY NoBlockAssumption DEF TypeOK, MoveIn, Place, sqlVars, BlockInv, CleanIsOnFile, CachedIsVersioned,
         VersionsAgree, AddressesBelowNext, Held, Contents, Found, OnFile, Block, Max2,
         Addr
<1> QED BY <1>1, <1>2, <1>3 DEF FileInv, BlockInv

(* Eviction leaves on file whatever it takes from the cache. *)
LEMMA CheckUseInv ==
    ASSUME CacheInv, NEW E \in SUBSET Held(cache), CheckUse(E)
    PROVE  CacheInv'
<1> USE DEF CacheInv
<1>1. TypeOK'
  BY DEF TypeOK, CheckUse, Flushed, FlushedVersions, GetSession, Held, Block
<1>2. FileInv'
  BY DEF TypeOK, CheckUse, Flushed, GetSession, FileInv, OnlyTransactionsDiffer,
         TransactedHasSession, NoFileIsEmpty, SessionHasFile, TransientNeedsSession,
         UnsavedIsCounted
<1>3. BlockInv'
  BY DEF TypeOK, CheckUse, Flushed, FlushedVersions, GetSession, BlockInv,
         CleanIsOnFile, CachedIsVersioned, VersionsAgree, AddressesBelowNext, Held,
         Contents, Found, OnFile, NoFileIsEmpty, Empty
<1> QED BY <1>1, <1>2, <1>3 DEF FileInv, BlockInv

(* A commit makes the flushed file durable and keeps the cache. *)
LEMMA JournalCommitInv ==
    ASSUME CacheInv, JournalCommit
    PROVE  CacheInv'
<1> USE DEF CacheInv
<1>1. TypeOK'
  BY DEF TypeOK, JournalCommit, Flushed, FlushedVersions, GetSession, Held, Block
<1>2. FileInv'
  BY DEF JournalCommit, GetSession, FileInv, OnlyTransactionsDiffer,
         TransactedHasSession, NoFileIsEmpty, SessionHasFile, TransientNeedsSession,
         UnsavedIsCounted
<1>3. BlockInv'
  BY DEF TypeOK, JournalCommit, Flushed, FlushedVersions, GetSession, BlockInv,
         CleanIsOnFile, CachedIsVersioned, VersionsAgree, AddressesBelowNext, Held,
         Contents, Found, OnFile, NoFileIsEmpty, Empty
<1> QED BY <1>1, <1>2, <1>3 DEF FileInv, BlockInv

(* Nothing is left that an invariant could be wrong about. *)
LEMMA ClosedBlocks ==
    ASSUME cache' = Empty, dirty' = {}, versions' = NoVersions,
           \A a \in Held(file)' : a <= next'
    PROVE  BlockInv'
BY DEF BlockInv, CleanIsOnFile, CachedIsVersioned, VersionsAgree, AddressesBelowNext,
       Held, Contents, Found, OnFile, Empty, NoVersions

(* Blocks on file are visible, so their addresses are below next. *)
LEMMA FileBelowNext ==
    ASSUME CacheInv
    PROVE  /\ \A a \in Held(file) : a <= next
           /\ \A a \in Held(Flushed) : a <= next
BY DEF CacheInv, TypeOK, AddressesBelowNext, NoFileIsEmpty, Held, Contents, Found, OnFile,
       Flushed, Empty

LEMMA EngageInv ==
    ASSUME CacheInv, Engage
    PROVE  CacheInv'
<1> USE DEF CacheInv
<1>1. TypeOK'
  BY BoundAssumption DEF TypeOK, Engage, sqlVars, cacheVars, Held
<1>2. FileInv'
  BY DEF Engage, sqlVars, cacheVars, FileInv, OnlyTransactionsDiffer,
         TransactedHasSession, NoFileIsEmpty, SessionHasFile, TransientNeedsSession,
         UnsavedIsCounted
<1>3. BlockInv'
  BY DEF Engage, sqlVars, cacheVars, BlockInv, CleanIsOnFile, CachedIsVersioned,
         VersionsAgree, AddressesBelowNext, Held, Contents, Found, OnFile
<1> QED BY <1>1, <1>2, <1>3 DEF FileInv, BlockInv

(* The last release commits what was counted as changed before it closes. *)
LEMMA ReleaseInv ==
    ASSUME CacheInv, Release
    PROVE  CacheInv'
<1> USE DEF CacheInv
<1>0. references' \in Nat /\ UNCHANGED <<transient, next, version, clock>>
  BY DEF TypeOK, Release
<1>1. CASE references' = 0
  <2>1. TypeOK'
    <3>1. Flushed \in [Addr -> Block \cup {NoBlock}]
      BY DEF TypeOK, Flushed, Held
    <3>2. /\ file' \in [Addr -> Block \cup {NoBlock}]
          /\ durable' \in [Addr -> Block \cup {NoBlock}]
      BY <1>1, <3>1 DEF TypeOK, Release
    <3>3. /\ cache' \in [Addr -> Block \cup {NoBlock}]
          /\ versions' \in [Addr -> Nat]
          /\ dirty' \subseteq Held(cache)'
      BY <1>1 DEF Release, Close, Empty, NoVersions
    <3>4. /\ transient' \in BOOLEAN /\ changes' \in BOOLEAN /\ transacted' \in BOOLEAN
          /\ session' \in BOOLEAN /\ is_new' \in BOOLEAN
      BY <1>0, <1>1 DEF TypeOK, Release, Close
    <3> QED BY <1>0, <3>2, <3>3, <3>4 DEF TypeOK
  <2>2. FileInv'
    BY <1>1 DEF TypeOK, Release, Close, FileInv, OnlyTransactionsDiffer, TransactedHasSession,
           NoFileIsEmpty, SessionHasFile, TransientNeedsSession, UnsavedIsCounted
  <2>3. BlockInv'
    <3>1. file' = Flushed \/ file' = file
      BY <1>1 DEF TypeOK, Release, UnsavedIsCounted
    <3> QED BY <1>0, <1>1, <3>1, FileBelowNext, ClosedBlocks DEF Release, Close, Held
  <2> QED BY <2>1, <2>2, <2>3 DEF FileInv, BlockInv
<1>2. CASE references' # 0
  <2>1. TypeOK'
    BY <1>0, <1>2 DEF TypeOK, Release, sqlVars, cacheVars, Held
  <2>2. FileInv'
    BY <1>2 DEF Release, sqlVars, cacheVars, FileInv, OnlyTransactionsDiffer,
           TransactedHasSession, NoFileIsEmpty, SessionHasFile, TransientNeedsSession,
           UnsavedIsCounted
  <2>3. BlockInv'
    BY <1>2 DEF Release, sqlVars, cacheVars, BlockInv, CleanIsOnFile,
           CachedIsVersioned, VersionsAgree, AddressesBelowNext, Held, Contents, Found,
           OnFile
  <2> QED BY <2>1, <2>2, <2>3 DEF FileInv, BlockInv
<1> QED BY <1>1, <1>2

(* An allocator whose file is removed, or never was, with an empty cache. *)
LEMMA RemovedInv ==
    ASSUME CacheInv, transient, RemoveFile, Close, NewVersion,
           next' \in Nat, UNCHANGED <<transient, references>>
    PROVE  CacheInv'
<1> USE DEF CacheInv
<1>1. file' = Empty /\ durable' = Empty /\ is_new'
  BY DEF TypeOK, RemoveFile, NoFileIsEmpty, TransientNeedsSession
<1>2. TypeOK'
  <2>1. /\ cache' \in [Addr -> Block \cup {NoBlock}]
        /\ file' \in [Addr -> Block \cup {NoBlock}]
        /\ durable' \in [Addr -> Block \cup {NoBlock}]
        /\ versions' \in [Addr -> Nat]
        /\ dirty' \subseteq Held(cache)'
    BY <1>1 DEF Close, Empty, NoVersions
  <2>2. /\ transient' \in BOOLEAN /\ changes' \in BOOLEAN /\ transacted' \in BOOLEAN
        /\ session' \in BOOLEAN /\ is_new' \in BOOLEAN
    BY DEF TypeOK, Close, RemoveFile
  <2>3. references' \in Nat /\ version' \in Nat /\ clock' \in Nat
    BY DEF TypeOK, NewVersion
  <2> QED BY <2>1, <2>2, <2>3 DEF TypeOK
<1>3. FileInv'
  BY <1>1 DEF Close, FileInv, OnlyTransactionsDiffer, TransactedHasSession,
         NoFileIsEmpty, SessionHasFile, TransientNeedsSession, UnsavedIsCounted
<1>4. BlockInv'
  BY <1>1, ClosedBlocks DEF Close, Held, Empty
<1> QED BY <1>2, <1>3, <1>4 DEF FileInv, BlockInv

LEMMA MoveOutInv ==
    ASSUME CacheInv, MoveOut
    PROVE  CacheInv'
BY RemovedInv DEF MoveOut, CacheInv, TypeOK

LEMMA DestroyInv ==
    ASSUME CacheInv, NEW n \in 0..MaxAddr, Destroy(n)
    PROVE  CacheInv'
BY RemovedInv, BoundAssumption DEF Destroy

(* After a crash what was durable is on file, and next is found from it. *)
LEMMA CrashInv ==
    ASSUME CacheInv, Crash
    PROVE  CacheInv'
<1> USE DEF CacheInv
<1>1. /\ file' = durable'
      /\ durable' \in [Addr -> Block \cup {NoBlock}]
      /\ is_new' => durable' = Empty
  BY DEF TypeOK, Crash, NoFileIsEmpty, Empty
<1>2. next' \in Nat /\ \A a \in Held(durable') : a <= next'
  BY BoundAssumption DEF Crash, Addr
<1>3. TypeOK'
  <2>1. /\ cache' \in [Addr -> Block \cup {NoBlock}]
        /\ versions' \in [Addr -> Nat]
        /\ dirty' \subseteq Held(cache)'
    BY DEF Crash, Empty, NoVersions
  <2>2. /\ transient' \in BOOLEAN /\ changes' \in BOOLEAN /\ transacted' \in BOOLEAN
        /\ session' \in BOOLEAN /\ is_new' \in BOOLEAN
    BY DEF TypeOK, Crash
  <2>3. references' \in Nat /\ version' \in Nat /\ clock' \in Nat
    BY DEF TypeOK, Crash, NewVersion
  <2> QED BY <1>1, <1>2, <2>1, <2>2, <2>3 DEF TypeOK
<1>4. FileInv'
  BY <1>1 DEF TypeOK, Crash, FileInv, OnlyTransactionsDiffer, TransactedHasSession,
         NoFileIsEmpty, SessionHasFile, TransientNeedsSession, UnsavedIsCounted
<1>5. BlockInv'
  BY <1>1, <1>2, ClosedBlocks DEF Crash, Held
<1> QED BY <1>3, <1>4, <1>5 DEF FileInv, BlockInv

(* CacheInv is an invariant of the allocator: the side map of versions     *)
(* agrees with the blocks, clean blocks are on file, what is not saved has *)
(* been counted and new addresses are new.                                 *)
THEOREM CacheCorrect == Spec => []CacheInv
<1>1. CacheInv /\ [Next]_vars => CacheInv'
  <2> SUFFICES ASSUME CacheInv, [Next]_vars PROVE CacheInv'
    OBVIOUS
  <2>1. CASE UNCHANGED vars
    BY <2>1 DEF vars, sqlVars, cacheVars, CacheInv, TypeOK, CleanIsOnFile,
           OnlyTransactionsDiffer, TransactedHasSession, NoFileIsEmpty, SessionHasFile,
           TransientNeedsSession, CachedIsVersioned, UnsavedIsCounted, VersionsAgree,
           AddressesBelowNext, Held, Contents, Found, OnFile
  <2>2. CASE \E a \in Addr : Read(a)
    BY <2>2, ReadInv
  <2>3. CASE \E a \in Addr, v \in Val : Write(a, v) \/ Create(a, v)
    BY <2>3, WriteInv, CreateInv
  <2>4. CASE \E v \in Val : CreateNext(v)
    BY <2>4, CreateInv DEF CreateNext
  <2>5. CASE \E a \in Addr, v \in Val, w \in 1..MaxVersion : MoveIn(a, v, w)
    BY <2>5, MoveInInv
  <2>6. CASE \E E \in SUBSET Held(cache) : CheckUse(E)
    BY <2>6, CheckUseInv
  <2>7. CASE JournalCommit
    BY <2>7, JournalCommitInv
  <2>8. CASE Engage
    BY <2>8, EngageInv
  <2>9. CASE Release
    BY <2>9, ReleaseInv
  <2>10. CASE MoveOut
    BY <2>10, MoveOutInv
  <2>11. CASE \E n \in 0..MaxAddr : Destroy(n)
    BY <2>11, DestroyInv
  <2>12. CASE Crash
    BY <2>12, CrashInv
  <2> QED
    BY <2>1, <2>2, <2>3, <2>4, <2>5, <2>6, <2>7, <2>8, <2>9, <2>10, <2>11, <2>12 DEF Next
<1> QED BY <1>1, InitCacheInv, PTL DEF Spec

(* What a transaction journals and hands over is everything it holds.      *)
THEOREM CacheHandsOverAll == Spec => []HandsOverAll
<1>1. CacheInv => HandsOverAll
  BY DEF CacheInv, TypeOK, HandsOverAll, Addresses, ModifiedAddresses, Held, Contents,
         Found, OnFile, CleanIsOnFile, TransientNeedsSession, SessionHasFile,
         NoFileIsEmpty, Empty
<1> QED BY <1>1, CacheCorrect, PTL

(* No allocator is ahead of the clock, so that a new version is another.   *)
ClockInv == version \in Nat /\ clock \in Nat /\ version <= clock

LEMMA ClockAhead == Spec => []ClockInv
<1>1. Init => ClockInv
  BY DEF Init, ClockInv
<1>2. ClockInv /\ [Next]_vars => ClockInv'
  <2> SUFFICES ASSUME ClockInv, [Next]_vars PROVE ClockInv'
    OBVIOUS
  <2>1. NewVersion => ClockInv'
    BY DEF NewVersion, ClockInv
  <2>2. UNCHANGED <<version, clock>> => ClockInv'
    BY DEF ClockInv
  <2>3. ASSUME NEW a \in Addr, NEW v \in Val, NEW w \in 1..MaxVersion, MoveIn(a, v, w)
        PROVE  ClockInv'
    BY <2>3, BoundAssumption DEF MoveIn, ClockInv, Max2
  <2> QED
    BY <2>1, <2>2, <2>3 DEF Next, vars, Read, Write, Create, CreateNext, CheckUse,
           JournalCommit, Engage, Release, MoveOut, Destroy, Crash
<1> QED BY <1>1, <1>2, PTL DEF Spec

-----------------------------------------------------------------------------
(* How each action looks to the map of blocks. *)
LEMMA ReadStutters ==
    ASSUME CacheInv, NEW a \in Addr, Read(a)
    PROVE  UNCHANGED <<Contents, Stable, version>>
BY DEF CacheInv, TypeOK, Read, GetSession, Contents, Found, OnFile, Stable

LEMMA CheckUseStutters ==
    ASSUME CacheInv, NEW E \in SUBSET Held(cache), CheckUse(E)
    PROVE  UNCHANGED <<Contents, Stable, version>>
<1>1. \A a \in Addr : Found(a)' = Found(a)
  BY DEF CacheInv, TypeOK, CheckUse, GetSession, Flushed, Found, OnFile, Held,
         CleanIsOnFile, NoFileIsEmpty, Empty
<1> QED BY <1>1 DEF CheckUse, Contents, Stable

LEMMA WritePuts ==
    ASSUME CacheInv, NEW a \in Addr, NEW v \in Val, Write(a, v)
    PROVE  Abs!Put(a) \/ UNCHANGED <<Contents, Stable, version>>
<1>1. CASE Found(a) = NoBlock
  BY <1>1 DEF Write, Contents, Found, OnFile, Stable
<1>2. CASE Found(a) # NoBlock
  <2>1. [val |-> v, ver |-> Found(a).ver] \in Block
    BY <1>2 DEF CacheInv, TypeOK, Found, OnFile, Block
  <2>2. Contents' = [Contents EXCEPT ![a] = [val |-> v, ver |-> Found(a).ver]]
    <3> DEFINE b == [val |-> v, ver |-> Found(a).ver]
    <3>1. cache' = [cache EXCEPT ![a] = b] /\ UNCHANGED file
      BY <1>2 DEF Write
    <3>2. \A c \in Addr : OnFile(c)' = OnFile(c)
      BY DEF CacheInv, TypeOK, Write, GetSession, OnFile, NoFileIsEmpty, Empty
    <3>3. b # NoBlock
      BY <2>1, NoBlockAssumption
    <3> HIDE DEF b
    <3>4. \A c \in Addr : Found(c)' = IF c = a THEN b ELSE Found(c)
      BY <3>1, <3>2, <3>3 DEF CacheInv, TypeOK, Found
    <3>5. Contents' = [Contents EXCEPT ![a] = b]
      BY <3>4 DEF Contents
    <3> QED BY <3>5 DEF b
  <2>3. UNCHANGED <<Stable, version>>
    BY DEF Write, Stable
  <2> QED BY <2>1, <2>2, <2>3 DEF Abs!Put, Contents
<1> QED BY <1>1, <1>2

LEMMA PlacePuts ==
    ASSUME CacheInv, NEW a \in Addr, NEW v \in Val, NEW w \in Nat, Place(a, v, w),
           UNCHANGED <<transient, sqlVars, version>>
    PROVE  Abs!Put(a)
<1>1. [val |-> v, ver |-> w] \in Block
  BY DEF Block
<1>2. Contents' = [Contents EXCEPT ![a] = [val |-> v, ver |-> w]]
  BY <1>1, NoBlockAssumption DEF CacheInv, TypeOK, Place, sqlVars, Contents, Found, OnFile
<1>3. UNCHANGED <<Stable, version>>
  BY DEF sqlVars, Stable
<1> QED BY <1>1, <1>2, <1>3 DEF Abs!Put, Contents

LEMMA CommitSaves ==
    ASSUME CacheInv, JournalCommit
    PROVE  Abs!Save
<1>1. \A a \in Addr : Found(a)' = Found(a) /\ Flushed[a] = Found(a)
  BY DEF CacheInv, TypeOK, JournalCommit, GetSession, Flushed, Found, OnFile, Held,
         CleanIsOnFile, NoFileIsEmpty, Empty
<1>2. UNCHANGED Contents /\ Flushed = Contents
  BY <1>1 DEF Contents, Flushed
<1> QED BY <1>2 DEF JournalCommit, Abs!Save, Stable

LEMMA ReleaseSaves ==
    ASSUME CacheInv, Release
    PROVE  Abs!Save \/ UNCHANGED <<Contents, Stable, version>>
<1>1. CASE references' # 0
  BY <1>1 DEF Release, sqlVars, cacheVars, Contents, Found, OnFile, Stable
<1>2. CASE references' = 0
  <2>1. durable' = Flushed /\ file' = Flushed
    BY <1>2 DEF CacheInv, TypeOK, Release, UnsavedIsCounted, Flushed
  <2>2. is_new' => Flushed = Empty
    BY <1>2 DEF CacheInv, TypeOK, Release, NoFileIsEmpty, UnsavedIsCounted, Flushed
  <2>3. Flushed = Contents
    BY DEF CacheInv, TypeOK, Flushed, Contents, Found, OnFile, Held, CleanIsOnFile,
           NoFileIsEmpty, Empty
  <2>4. Contents' = Flushed
    BY <1>2, <2>1, <2>2 DEF Release, Close, Contents, Found, OnFile, Empty, Flushed
  <2> QED BY <2>1, <2>3, <2>4 DEF Release, Abs!Save, Stable
<1> QED BY <1>1, <1>2

LEMMA RemoveRestarts ==
    ASSUME CacheInv, ClockInv, transient, RemoveFile, Close, NewVersion,
           UNCHANGED transient
    PROVE  Abs!Restart
<1>1. Contents' = Empty
  BY DEF CacheInv, TypeOK, RemoveFile, Close, Contents, Found, OnFile, Empty,
         TransientNeedsSession
<1>2. version' # version
  BY DEF ClockInv, NewVersion
<1> QED BY <1>1, <1>2 DEF Abs!Restart, Stable

LEMMA CrashRestarts ==
    ASSUME CacheInv, ClockInv, Crash
    PROVE  Abs!Restart
<1>1. Contents' = Stable
  BY DEF CacheInv, TypeOK, Crash, Contents, Found, OnFile, Empty, NoFileIsEmpty, Stable
<1>2. UNCHANGED Stable
  BY DEF Crash, Stable
<1>3. version' # version
  BY DEF ClockInv, Crash, NewVersion
<1> QED BY <1>1, <1>2, <1>3 DEF Abs!Restart

(* The allocator implements the map of blocks, whatever is evicted when.   *)
THEOREM CacheIsBlockMap == Spec => ImplementsBlockMap
<1>1. Init => Abs!Init
  BY DEF Init, Abs!Init, Abs!Empty, Contents, Found, OnFile, Empty, Stable
<1>2. CacheInv /\ ClockInv /\ [Next]_vars => [Abs!Next]_<<Contents, Stable, version>>
  <2> SUFFICES ASSUME CacheInv, ClockInv, [Next]_vars
               PROVE  Abs!Next \/ UNCHANGED <<Contents, Stable, version>>
    OBVIOUS
  <2>1. CASE UNCHANGED vars
    BY <2>1 DEF vars, sqlVars, cacheVars, Contents, Found, OnFile, Stable
  <2>2. CASE \E a \in Addr : Read(a)
    BY <2>2, ReadStutters
  <2>3. ASSUME NEW a \in Addr, NEW v \in Val, Create(a, v)
        PROVE  Abs!Put(a)
    <3>1. AllocatedVersion(a) \in Nat
      BY DEF CacheInv, TypeOK, AllocatedVersion, Block
    <3> QED BY <2>3, <3>1, PlacePuts DEF Create
  <2>4. CASE \E a \in Addr, v \in Val : Write(a, v) \/ Create(a, v)
    BY <2>3, <2>4, WritePuts DEF Abs!Next
  <2>5. CASE \E v \in Val : CreateNext(v)
    BY <2>3, <2>5 DEF CreateNext, Abs!Next
  <2>6. CASE \E a \in Addr, v \in Val, w \in 1..MaxVersion : MoveIn(a, v, w)
    BY <2>6, PlacePuts, BoundAssumption DEF MoveIn, Abs!Next
  <2>7. CASE \E E \in SUBSET Held(cache) : CheckUse(E)
    BY <2>7, CheckUseStutters
  <2>8. CASE JournalCommit
    BY <2>8, CommitSaves DEF Abs!Next
  <2>9. CASE Engage
    BY <2>9 DEF Engage, sqlVars, cacheVars, Contents, Found, OnFile, Stable
  <2>10. CASE Release
    BY <2>10, ReleaseSaves DEF Abs!Next
  <2>11. CASE MoveOut \/ \E n \in 0..MaxAddr : Destroy(n)
    BY <2>11, RemoveRestarts DEF MoveOut, Destroy, Abs!Next
  <2>12. CASE Crash
    BY <2>12, CrashRestarts DEF Abs!Next
  <2> QED
    BY <2>1, <2>2, <2>4, <2>5, <2>6, <2>7, <2>8, <2>9, <2>10, <2>11, <2>12 DEF Next
<1> QED
  BY <1>1, <1>2, CacheCorrect, ClockAhead, PTL
     DEF Spec, ImplementsBlockMap, Abs!Spec, Abs!vars
=============================================================================
