----------------------- MODULE MvccTransactionProofs ------------------------
(***************************************************************************)
(* What the transactions of the coordinator see and whether they finish.   *)
(* First the views: the committed state changes only as a whole, into a    *)
(* writer's view, and while writers finish with commit no transaction's    *)
(* view is changed by another, so the coordinator implements SnapshotStore.*)
(* Then the writer's side, for both ways of finishing: what keeps commit,  *)
(* merge and the moves of blocks from throwing, new addresses from hitting *)
(* committed blocks, and stale() from missing a commit.                    *)
(***************************************************************************)
EXTENDS MvccProofs

(* NewestIsLast in the state after a step.                                 *)
LEMMA NewestIsLastNext ==
    ASSUME CoordinatorInv'
    PROVE  /\ Newest' \in storages'
           /\ \A x \in storages' : slot'[x] \in Int
           /\ Chain(Newest)' = storages'
<1>1. IsFiniteSet(storages') /\ storages' # {} /\ \A x \in storages' : slot'[x] \in Int
  BY FS_Subset, ObjsAssumption DEF CoordinatorInv, TypeOK, Partition
<1>2. /\ Newest' \in storages'
      /\ \A q \in storages' : slot'[q] <= slot'[Newest']
  BY <1>1, TopExists DEF Newest
<1> QED
  BY <1>1, <1>2 DEF Chain

(* A read through version o finds the same while the versions below it and *)
(* their blocks are the same.                                              *)
LEMMA ReadFromKept ==
    ASSUME CoordinatorInv, NEW o \in storages, NEW a,
           \A p \in Chain(o) : /\ p \in storages' /\ slot'[p] = slot[p]
                               /\ blocks'[p] = blocks[p],
           \A p \in storages' : slot'[p] <= slot'[o] => p \in Chain(o)
    PROVE  ReadFrom(o, a)' = ReadFrom(o, a)
<1>1. /\ Chain(o) \subseteq storages /\ o \in Chain(o) /\ IsFiniteSet(Chain(o))
      /\ \A x \in Chain(o) : slot[x] \in Int
      /\ \A x, y \in Chain(o) : slot[x] = slot[y] => x = y
  BY FS_Subset, FiniteCounts DEF Chain, CoordinatorInv, TypeOK, SlotsOrdered
<1>2. Chain(o)' = Chain(o)
  <2>1. \A p \in Chain(o) : slot'[p] <= slot'[o]
    BY <1>1 DEF Chain
  <2> QED
    BY <1>1, <2>1 DEF Chain
<1>3. Lookup(Chain(o), slot', blocks', blocks', a, NoVal)
        = Lookup(Chain(o), slot, blocks, blocks, a, NoVal)
  BY <1>1, LookupAgrees
<1> QED
  BY <1>2, <1>3 DEF ReadFrom

(* The committed state is what is found from the newest version down.      *)
LEMMA CommittedLookup ==
    ASSUME CoordinatorInv
    PROVE  Committed = [a \in Addr |-> Lookup(storages, slot, blocks, blocks, a, NoVal)]
BY NewestIsLast DEF Committed, ReadFrom

LEMMA CommittedLookupNext ==
    ASSUME CoordinatorInv'
    PROVE  Committed' =
             [a \in Addr |-> Lookup(storages', slot', blocks', blocks', a, NoVal)]
BY NewestIsLastNext DEF Committed, ReadFrom, Addr

(* merge_down leaves what is found from the uppermost version down.        *)
LEMMA MergeDownLookup ==
    ASSUME CoordinatorInv, NEW S \in SUBSET Objs,
           NEW sl \in [Objs -> Nat], \A x, y \in S : sl[x] = sl[y] => x = y,
           NEW rd, MergeDown(S, sl, rd), NEW a \in Addr
    PROVE  Lookup(storages', sl, blocks', blocks', a, NoVal)
             = Lookup(S, sl, blocks, blocks, a, NoVal)
<1>0. /\ IsFiniteSet(S) /\ blocks \in [Objs -> [Addr -> Val \cup {NoVal}]]
      /\ S \subseteq DOMAIN blocks /\ \A x \in S : sl[x] \in Int
      /\ \A x \in S : a \in DOMAIN blocks[x]
  BY FS_Subset, ObjsAssumption DEF CoordinatorInv, TypeOK
<1>1. CASE journal_synching
  BY <1>1 DEF MergeDown
<1>2. CASE ~journal_synching
  <2>1. /\ storages' = S \ MergedAway(S, sl, rd)
        /\ blocks' = MoveDown(S, sl, rd, blocks, blocks, NoVal)
    BY <1>2 DEF MergeDown
  <2>2. Lookup(S \ MergedAway(S, sl, rd), sl, MoveDown(S, sl, rd, blocks, blocks, NoVal),
               MoveDown(S, sl, rd, blocks, blocks, NoVal), a, NoVal)
          = Lookup(S, sl, blocks, blocks, a, NoVal)
    BY <1>0, MergeDownKeepsLookup
  <2> QED
    BY <2>1, <2>2
<1> QED
  BY <1>1, <1>2

-----------------------------------------------------------------------------
(* commit makes the writer's view the committed state.                     *)
LEMMA CommitView ==
    ASSUME CoordinatorInv, NEW t \in Objs, Commit(t)
    PROVE  Committed' = TxView(t)
<1> DEFINE S == storages \cup {t}
<1>0. /\ t \in active /\ t \notin storages
      /\ MergeDown(S, slot', readers')
      /\ \A o \in storages : slot'[o] = slot[o] /\ slot[o] < slot'[t]
      /\ slot' = [slot EXCEPT ![t] = last_order]
  BY CommitFacts
<1>1. /\ S \in SUBSET Objs /\ slot' \in [Objs -> Nat]
      /\ \A x \in S : slot'[x] \in Int
      /\ \A x \in storages : slot[x] \in Int
      /\ \A x, y \in storages : slot[x] = slot[y] => x = y
      /\ IsFiniteSet(storages)
  BY <1>0, FiniteCounts DEF CoordinatorInv, TypeOK, SlotsOrdered
<1>2. \A x, y \in S : slot'[x] = slot'[y] => x = y
  <2> SUFFICES ASSUME NEW x \in S, NEW y \in S, slot'[x] = slot'[y] PROVE x = y
    OBVIOUS
  <2>1. x = t <=> y = t
    BY <1>0, <1>1
  <2> QED
    BY <1>0, <1>1, <2>1
<1>3. based[t] = Newest /\ Chain(Newest) = storages
  BY NewestIsLast DEF Commit, MayFinish
<1>4. ASSUME NEW a \in Addr
      PROVE  Lookup(storages', slot', blocks', blocks', a, NoVal) = TxRead(t, a)
  <2>1. Lookup(storages', slot', blocks', blocks', a, NoVal)
          = Lookup(S, slot', blocks, blocks, a, NoVal)
    <3> HIDE DEF S
    <3> QED
      BY <1>0, <1>1, <1>2, MergeDownLookup, Zenon
  <2>2. CASE blocks[t][a] # NoVal
    <3>1. Lookup(S, slot', blocks, blocks, a, NoVal) = blocks[t][a]
      <4>1. t \in S /\ slot'[t] \in Int /\ \A q \in S \ {t} : slot'[q] \in Int /\ slot'[q] < slot'[t]
        BY <1>0, <1>1
      <4> HIDE DEF S
      <4> QED
        BY <2>2, <4>1, LookupInUppermost
    <3> QED
      BY <2>1, <2>2, <3>1 DEF TxRead
  <2>3. CASE blocks[t][a] = NoVal
    <3>1. Holders(S, blocks, a) = Holders(storages, blocks, a)
      BY <2>3 DEF Holders
    <3>2. Lookup(S, slot', blocks, blocks, a, NoVal)
            = Lookup(storages, slot', blocks, blocks, a, NoVal)
      BY <3>1 DEF Lookup
    <3>3. Lookup(storages, slot', blocks, blocks, a, NoVal)
            = Lookup(storages, slot, blocks, blocks, a, NoVal)
      <4>1. \A x \in storages : slot[x] \in Int /\ slot'[x] = slot[x] /\ blocks[x] = blocks[x]
        BY <1>0, <1>1
      <4> QED
        BY <1>1, <4>1, LookupAgrees
    <3> QED
      BY <1>3, <2>1, <2>3, <3>2, <3>3 DEF TxRead, ReadFrom
  <2> QED
    BY <2>2, <2>3
<1>5. CoordinatorInv'
  BY CommitInv
<1> QED
  BY <1>4, <1>5, CommittedLookupNext DEF TxView

(* merge does so too.                                                      *)
LEMMA MergeView ==
    ASSUME CoordinatorInv, NEW t \in Objs, Merge(t)
    PROVE  Committed' = TxView(t)
<1>0. /\ t \in active /\ t \notin storages /\ based[t] = Newest
      /\ Newest \in storages /\ Chain(Newest) = storages
      /\ \A q \in storages : slot[q] <= slot[Newest]
      /\ storages' = storages /\ slot' = slot
  BY NewestIsLast DEF Merge, MayFinish, CoordinatorInv, Partition
<1>1. /\ \A x \in storages : slot[x] \in Int
      /\ \A x, y \in storages : slot[x] = slot[y] => x = y
      /\ IsFiniteSet(storages)
      /\ storages \subseteq Objs
  BY FiniteCounts DEF CoordinatorInv, TypeOK, SlotsOrdered
<1>2. /\ \A o \in storages \ {Newest} : blocks'[o] = blocks[o]
      /\ \A a \in Addr : blocks'[Newest][a] =
            IF blocks[t][a] # NoVal THEN blocks[t][a] ELSE blocks[Newest][a]
  BY <1>0, <1>1 DEF Merge, Move, CoordinatorInv, TypeOK
<1>3. ASSUME NEW a \in Addr
      PROVE  Lookup(storages, slot, blocks', blocks', a, NoVal) = TxRead(t, a)
  <2>1. CASE blocks[t][a] # NoVal
    <3>1. blocks'[Newest][a] = blocks[t][a]
      BY <1>2, <2>1
    <3>2. Lookup(storages, slot, blocks', blocks', a, NoVal) = blocks'[Newest][a]
      <4>1. blocks'[Newest][a] # NoVal
        BY <2>1, <3>1
      <4>2. /\ slot[Newest] \in Int
            /\ \A q \in storages \ {Newest} : slot[q] \in Int /\ slot[q] < slot[Newest]
        BY <1>0, <1>1
      <4>3. Newest \in storages
        BY <1>0
      <4> QED
        <5> DEFINE n == Newest
        <5> HIDE DEF n
        <5>1. n \in Holders(storages, blocks', a)
          BY <4>1, <4>3 DEF Holders, n
        <5>2. Top(Holders(storages, blocks', a), slot) = n
          BY <4>2, <5>1 DEF Top, Holders, n
        <5> QED
          BY <5>1, <5>2 DEF Lookup, n
    <3> QED
      BY <2>1, <3>1, <3>2 DEF TxRead
  <2>2. CASE blocks[t][a] = NoVal
    <3>1. \A o \in storages : blocks'[o][a] = blocks[o][a]
      BY <1>2, <2>2
    <3>2. Holders(storages, blocks', a) = Holders(storages, blocks, a)
      BY <3>1 DEF Holders
    <3>3. CASE Holders(storages, blocks, a) = {}
      BY <1>0, <2>2, <3>2, <3>3 DEF Lookup, TxRead, ReadFrom
    <3>4. CASE Holders(storages, blocks, a) # {}
      <4> DEFINE H == Holders(storages, blocks, a)
      <4>1. H \subseteq storages /\ IsFiniteSet(H) /\ H # {} /\ \A x \in H : slot[x] \in Int
        BY <1>1, <3>4, FS_Subset DEF Holders
      <4> HIDE DEF H
      <4>2. Top(H, slot) \in storages
        BY <4>1, TopExists
      <4> QED
        BY <1>0, <2>2, <3>1, <3>2, <3>4, <4>2 DEF Lookup, TxRead, ReadFrom, H
    <3> QED
      BY <3>3, <3>4
  <2> QED
    BY <2>1, <2>2
<1>4. CoordinatorInv'
  BY MergeInv
<1> QED
  BY <1>0, <1>3, <1>4, CommittedLookupNext DEF TxView

(* A step that touches no committed version leaves the committed state.    *)
LEMMA CommittedKept ==
    ASSUME CoordinatorInv, CoordinatorInv', storages' = storages, slot' = slot,
           \A o \in storages : blocks'[o] = blocks[o]
    PROVE  Committed' = Committed
<1>1. /\ IsFiniteSet(storages)
      /\ \A x \in storages : slot[x] \in Int
      /\ \A x, y \in storages : slot[x] = slot[y] => x = y
  BY FiniteCounts DEF CoordinatorInv, TypeOK, SlotsOrdered
<1>2. ASSUME NEW a \in Addr
      PROVE  Lookup(storages', slot', blocks', blocks', a, NoVal)
               = Lookup(storages, slot, blocks, blocks, a, NoVal)
  BY <1>1, LookupAgrees
<1> QED
  BY <1>2, CommittedLookup, CommittedLookupNext

(* A transaction's view is kept while its base, its own blocks and the     *)
(* versions it reads through are.                                          *)
LEMMA TxViewKept ==
    ASSUME CoordinatorInv, NEW u \in active, u \in active', u \in Objs,
           based'[u] = based[u], blocks'[u] = blocks[u],
           \A p \in Chain(based[u]) : /\ p \in storages' /\ slot'[p] = slot[p]
                                      /\ blocks'[p] = blocks[p],
           \A p \in storages' : slot'[p] <= slot'[based[u]] => p \in Chain(based[u])
    PROVE  TxView(u)' = TxView(u)
<1>1. based[u] \in storages
  BY DEF CoordinatorInv, BasesLive
<1>2. ASSUME NEW a \in Addr PROVE TxRead(u, a)' = TxRead(u, a)
  <2> DEFINE o == based[u]
  <2>1. ReadFrom(o, a)' = ReadFrom(o, a)
    BY <1>1, ReadFromKept
  <2> QED
    BY <2>1 DEF TxRead
<1> QED
  BY <1>2 DEF TxView, Addr

(* make_singular changes nothing a transaction can see.                    *)
LEMMA MakeSingularView ==
    ASSUME CoordinatorInv, MakeSingular
    PROVE  /\ Committed' = Committed
           /\ \A u \in active : TxView(u)' = TxView(u)
<1>0. /\ MergeDown(storages, slot, readers)
      /\ slot' = slot /\ based' = based /\ active' = active /\ readers' = readers
      /\ storages \in SUBSET Objs /\ storages # {} /\ slot \in [Objs -> Nat]
      /\ \A x, y \in storages : slot[x] = slot[y] => x = y
      /\ active \subseteq Objs /\ storages \cap active = {}
  BY DEF MakeSingular, objVars, CoordinatorInv, TypeOK, Partition, SlotsOrdered
<1>1. CoordinatorInv'
  BY MakeSingularInv
<1>2. ASSUME NEW a \in Addr
      PROVE  Lookup(storages', slot', blocks', blocks', a, NoVal)
               = Lookup(storages, slot, blocks, blocks, a, NoVal)
  <2>1. Lookup(storages', slot, blocks', blocks', a, NoVal)
          = Lookup(storages, slot, blocks, blocks, a, NoVal)
    BY <1>0, MergeDownLookup, Zenon
  <2> QED
    BY <1>0, <2>1
<1>3. Committed' = Committed
  BY <1>1, <1>2, CommittedLookup, CommittedLookupNext
<1>4. /\ storages' \subseteq storages /\ storages' # {}
      /\ blocks' \in [Objs -> [Addr -> Val \cup {NoVal}]]
      /\ bver' \in [Objs -> [Addr -> Nat]]
      /\ \A p \in storages : readers[p] # 0 => p \in storages'
      /\ \A p \in Objs : p \notin storages \/ readers[p] # 0 => blocks'[p] = blocks[p]
      /\ \A p \in storages \ storages' : readers[p] = 0 /\ blocks'[p] = Empty
  BY <1>0, MergeDownLeaves, Zenon
<1>5. ASSUME NEW u \in active PROVE TxView(u)' = TxView(u)
  <2>1. \A p \in Chain(based[u]) : readers[p] # 0
    <3> SUFFICES ASSUME NEW p \in Chain(based[u]) PROVE readers[p] # 0
      OBVIOUS
    <3>1. p \in storages /\ u \in Dependants(p)
      BY DEF Chain, Dependants
    <3>2. Cardinality(Dependants(p)) # 0
      BY <3>1, FiniteCounts, FS_EmptySet
    <3> QED
      BY <3>1, <3>2 DEF CoordinatorInv, ReaderCount, Dependants
  <2>2. \A p \in Chain(based[u]) : /\ p \in storages' /\ slot'[p] = slot[p]
                                   /\ blocks'[p] = blocks[p]
    BY <1>0, <1>4, <2>1 DEF Chain
  <2>3. \A p \in storages' : slot'[p] <= slot'[based[u]] => p \in Chain(based[u])
    BY <1>0, <1>4 DEF Chain
  <2>4. u \in active' /\ u \in Objs /\ based'[u] = based[u] /\ blocks'[u] = blocks[u]
    BY <1>0, <1>4
  <2> QED
    BY <2>2, <2>3, <2>4, TxViewKept
<1> QED
  BY <1>3, <1>5

(* Beginning, storing, discarding and the journal's flag touch no          *)
(* committed version.                                                      *)
LEMMA QuietSteps ==
    ASSUME CoordinatorInv, NEW t \in Objs,
           \/ BeginReader(t) \/ BeginWriter(t)
           \/ \E a \in Addr, v \in Val : Store(t, a, v)
           \/ Discard(t) \/ JournalSynchStart \/ JournalSynchEnd
    PROVE  /\ storages' = storages /\ slot' = slot
           /\ \A o \in Objs : o \in storages \/ o # t => blocks'[o] = blocks[o]
<1>0. t \in active => t \notin storages
  BY DEF CoordinatorInv, Partition
<1>1. CASE BeginReader(t) \/ BeginWriter(t)
  BY <1>1 DEF BeginReader, BeginWriter
<1>2. CASE \E a \in Addr, v \in Val : Store(t, a, v)
  BY <1>0, <1>2 DEF Store, CoordinatorInv, TypeOK
<1>3. CASE Discard(t)
  BY <1>0, <1>3 DEF Discard, CoordinatorInv, TypeOK
<1>4. CASE JournalSynchStart \/ JournalSynchEnd
  BY <1>4 DEF JournalSynchStart, JournalSynchEnd
<1> QED
  BY <1>1, <1>2, <1>3, <1>4

LEMMA QuietStepsKeepCommitted ==
    ASSUME CoordinatorInv, CoordinatorInv', NEW t \in Objs,
           \/ BeginReader(t) \/ BeginWriter(t)
           \/ \E a \in Addr, v \in Val : Store(t, a, v)
           \/ Discard(t) \/ JournalSynchStart \/ JournalSynchEnd
    PROVE  Committed' = Committed
<1>1. /\ storages' = storages /\ slot' = slot
      /\ \A o \in Objs : o \in storages \/ o # t => blocks'[o] = blocks[o]
  BY QuietSteps
<1>2. \A o \in storages : blocks'[o] = blocks[o]
  BY <1>1 DEF CoordinatorInv, TypeOK
<1> QED
  BY <1>1, <1>2, CommittedKept

(* Whichever way writers finish, the committed state only ever changes to  *)
(* the view of one writer, all of it in one step.                          *)
THEOREM CommitsAreAtomic == Spec => CommitIsAtomic
<1> DEFINE A == Committed' # Committed =>
                  \E t \in active : ~read_only[t] /\ Committed' = TxView(t)
<1>1. ASSUME CoordinatorInv, CoordinatorInv', [Next]_vars
      PROVE  [A]_vars
  <2>1. ASSUME NEW t \in Objs,
               \/ BeginReader(t) \/ BeginWriter(t)
               \/ \E a \in Addr, v \in Val : Store(t, a, v)
               \/ Discard(t) \/ JournalSynchStart \/ JournalSynchEnd
        PROVE  A
    BY <1>1, <2>1, QuietStepsKeepCommitted
  <2>2. ASSUME JournalSynchStart \/ JournalSynchEnd
        PROVE  A
    BY <2>1, <2>2, ObjsAssumption
  <2>3. ASSUME NEW t \in Objs, Commit(t) PROVE A
    <3>1. Committed' = TxView(t)
      BY <1>1, <2>3, CommitView
    <3>2. t \in active /\ ~read_only[t]
      BY <2>3 DEF Commit, MayFinish
    <3> QED
      BY <3>1, <3>2
  <2>4. ASSUME NEW t \in Objs, Merge(t) PROVE A
    <3>1. Committed' = TxView(t)
      BY <1>1, <2>4, MergeView
    <3>2. t \in active /\ ~read_only[t]
      BY <2>4 DEF Merge, MayFinish
    <3> QED
      BY <3>1, <3>2
  <2>5. ASSUME MakeSingular PROVE A
    BY <1>1, <2>5, MakeSingularView
  <2>6. ASSUME NEW t \in Objs, NEW v \in Val, Create(t, v) PROVE A
    <3>1. \E a \in Addr, w \in Val : Store(t, a, w)
      BY <2>6 DEF Create
    <3> QED
      BY <2>1, <3>1
  <2> HIDE DEF A
  <2> QED
    BY <1>1, <2>1, <2>2, <2>3, <2>4, <2>5, <2>6 DEF Next
<1>2. Spec => []CoordinatorInv
  BY CoordinatorCorrect
<1> QED
  BY <1>1, <1>2, PTL DEF Spec, CommitIsAtomic

-----------------------------------------------------------------------------
(* While writers finish with commit, the coordinator implements            *)
(* SnapshotStore: one lemma per action, each mapped to a step of the       *)
(* abstract store or to a stuttering step.                                 *)

(* The view of a transaction that a quiet step of t is not about.          *)
LEMMA OtherViewsKept ==
    ASSUME CoordinatorInv, NEW t \in Objs,
           \/ BeginReader(t) \/ BeginWriter(t)
           \/ \E a \in Addr, v \in Val : Store(t, a, v)
           \/ Discard(t) \/ JournalSynchStart \/ JournalSynchEnd,
           NEW u \in active, u \in active', based'[u] = based[u],
           u # t \/ blocks'[u] = blocks[u]
    PROVE  TxView(u)' = TxView(u)
<1>1. /\ storages' = storages /\ slot' = slot
      /\ \A o \in Objs : o \in storages \/ o # t => blocks'[o] = blocks[o]
  BY QuietSteps
<1>2. u \in Objs /\ based[u] \in storages /\ storages \subseteq Objs
  BY DEF CoordinatorInv, TypeOK, BasesLive
<1>3. \A p \in Chain(based[u]) : /\ p \in storages' /\ slot'[p] = slot[p]
                                 /\ blocks'[p] = blocks[p]
  BY <1>1, <1>2 DEF Chain
<1>4. \A p \in storages' : slot'[p] <= slot'[based[u]] => p \in Chain(based[u])
  BY <1>1 DEF Chain
<1>5. blocks'[u] = blocks[u]
  BY <1>1, <1>2
<1> QED
  BY <1>2, <1>3, <1>4, <1>5, TxViewKept

(* A quiet step of t that begins a transaction gives it the committed view.*)
LEMMA BeginView ==
    ASSUME CoordinatorInv, CoordinatorInv', NEW t \in Objs,
           BeginReader(t) \/ BeginWriter(t)
    PROVE  /\ t \notin active /\ active' = active \cup {t}
           /\ \A u \in active : based'[u] = based[u]
           /\ TxView(t)' = Committed
<1>1. /\ t \notin active /\ t \notin storages
      /\ active' = active \cup {t}
      /\ based' = [based EXCEPT ![t] = Newest]
      /\ blocks' = blocks
  BY DEF BeginReader, BeginWriter, Fresh, Recycled, Attach, Free, CoordinatorInv, Partition
<1>2. /\ storages' = storages /\ slot' = slot
  BY QuietSteps
<1>3. blocks'[t] = Empty
  BY <1>1 DEF CoordinatorInv, OnlyWritersHold
<1>4. Newest' = Newest /\ based'[t] = Newest
  BY <1>1, <1>2 DEF Newest, CoordinatorInv, TypeOK
<1>5. Committed' = Committed
  BY QuietStepsKeepCommitted
<1>6. ASSUME NEW a \in Addr PROVE TxRead(t, a)' = ReadFrom(Newest, a)'
  BY <1>3, <1>4 DEF TxRead, Empty
<1>7. TxView(t)' = Committed'
  BY <1>6 DEF TxView, Committed, Addr
<1> QED
  BY <1>1, <1>5, <1>7 DEF CoordinatorInv, TypeOK

LEMMA BeginReaderRefines ==
    ASSUME CoordinatorInv, CoordinatorInv', NEW t \in Objs, BeginReader(t)
    PROVE  Abs!Begin(t, "read")
<1>1. /\ t \notin active /\ active' = active \cup {t}
      /\ \A u \in active : based'[u] = based[u]
      /\ TxView(t)' = Committed
  BY BeginView
<1>2. Committed' = Committed
  BY QuietStepsKeepCommitted
<1>3. \A u \in active : TxView(u)' = TxView(u)
  BY <1>1, OtherViewsKept
<1>4. read_only' = [read_only EXCEPT ![t] = TRUE] /\ read_only \in [Objs -> BOOLEAN]
  BY DEF BeginReader, CoordinatorInv, TypeOK
<1>5. Mode' = [Mode EXCEPT ![t] = "read"] /\ Mode[t] = "idle"
  BY <1>1, <1>4 DEF Mode
<1>6. Views' = [Views EXCEPT ![t] = Committed]
  BY <1>1, <1>3 DEF Views, Empty, Addr
<1> QED
  BY <1>2, <1>5, <1>6 DEF Abs!Begin

LEMMA BeginWriterRefines ==
    ASSUME CoordinatorInv, CoordinatorInv', NEW t \in Objs, BeginWriter(t)
    PROVE  Abs!Begin(t, "write")
<1>1. /\ t \notin active /\ active' = active \cup {t}
      /\ \A u \in active : based'[u] = based[u]
      /\ TxView(t)' = Committed
  BY BeginView
<1>2. Committed' = Committed
  BY QuietStepsKeepCommitted
<1>3. \A u \in active : TxView(u)' = TxView(u)
  BY <1>1, OtherViewsKept
<1>4. read_only' = [read_only EXCEPT ![t] = FALSE] /\ read_only \in [Objs -> BOOLEAN]
  BY DEF BeginWriter, CoordinatorInv, TypeOK
<1>5. Mode' = [Mode EXCEPT ![t] = "write"] /\ Mode[t] = "idle"
  BY <1>1, <1>4 DEF Mode
<1>6. Views' = [Views EXCEPT ![t] = Committed]
  BY <1>1, <1>3 DEF Views, Empty, Addr
<1>7. \A u \in Objs : Mode[u] # "write"
  <2>1. Cardinality(Writers) = 0
    BY DEF BeginWriter, CoordinatorInv, Counters, Writers
  <2>2. Writers = {}
    BY <2>1, FiniteCounts, FS_EmptySet
  <2> QED
    BY <2>2 DEF Writers, Mode
<1> QED
  BY <1>2, <1>5, <1>6, <1>7 DEF Abs!Begin

LEMMA StoreRefines ==
    ASSUME CoordinatorInv, CoordinatorInv', NEW t \in Objs, NEW a \in Addr, NEW v \in Val,
           Store(t, a, v)
    PROVE  Abs!Put(t, a, v)
<1>0. /\ t \in active /\ ~read_only[t] /\ active' = active /\ read_only' = read_only
      /\ based' = based /\ blocks' = [blocks EXCEPT ![t][a] = v]
      /\ blocks \in [Objs -> [Addr -> Val \cup {NoVal}]]
  BY DEF Store, CoordinatorInv, TypeOK
<1>1. Committed' = Committed
  BY QuietStepsKeepCommitted
<1>2. \A u \in active : u # t => TxView(u)' = TxView(u)
  BY <1>0, OtherViewsKept
<1>3. TxView(t)' = [TxView(t) EXCEPT ![a] = v]
  <2>1. blocks'[t][a] = v /\ v # NoVal /\ \A b \in Addr : b # a => blocks'[t][b] = blocks[t][b]
    BY <1>0, ValAssumption
  <2>2. ASSUME NEW b \in Addr
        PROVE  TxRead(t, b)' = IF b = a THEN v ELSE TxRead(t, b)
    <3>1. /\ storages' = storages /\ slot' = slot
          /\ \A o \in Objs : o \in storages \/ o # t => blocks'[o] = blocks[o]
      BY QuietSteps
    <3>2. based[t] \in storages /\ based'[t] = based[t]
      BY <1>0 DEF CoordinatorInv, BasesLive
    <3>3. \A p \in Chain(based[t]) : /\ p \in storages' /\ slot'[p] = slot[p]
                                     /\ blocks'[p] = blocks[p]
      BY <3>1 DEF Chain, CoordinatorInv, TypeOK
    <3>4. \A p \in storages' : slot'[p] <= slot'[based[t]] => p \in Chain(based[t])
      BY <3>1 DEF Chain
    <3>5. ReadFrom(based[t], b)' = ReadFrom(based[t], b)
      BY <3>2, <3>3, <3>4, ReadFromKept
    <3> QED
      BY <1>0, <2>1, <3>5 DEF TxRead
  <2> QED
    BY <2>2 DEF TxView, Addr
<1>4. Mode' = Mode /\ Mode[t] = "write"
  BY <1>0 DEF Mode
<1>5. Views' = [Views EXCEPT ![t][a] = v]
  <2>1. Views' = [Views EXCEPT ![t] = [TxView(t) EXCEPT ![a] = v]]
    BY <1>0, <1>2, <1>3 DEF Views, Empty, Addr
  <2>2. Views[t] = TxView(t)
    BY <1>0 DEF Views
  <2> QED
    BY <2>1, <2>2
<1> QED
  BY <1>1, <1>4, <1>5 DEF Abs!Put

LEMMA DiscardRefines ==
    ASSUME CoordinatorInv, CoordinatorInv', NEW t \in Objs, Discard(t)
    PROVE  Abs!Discard(t)
<1>0. /\ t \in active /\ active' = active \ {t}
      /\ read_only' = [read_only EXCEPT ![t] = TRUE] /\ read_only \in [Objs -> BOOLEAN]
      /\ based' = based
  BY DEF Discard, CoordinatorInv, TypeOK
<1>1. Committed' = Committed
  BY QuietStepsKeepCommitted
<1>2. \A u \in active' : TxView(u)' = TxView(u)
  BY <1>0, OtherViewsKept
<1>3. Mode' = [Mode EXCEPT ![t] = "idle"] /\ Mode[t] # "idle"
  BY <1>0 DEF Mode
<1>4. Views' = [Views EXCEPT ![t] = Abs!Empty]
  BY <1>0, <1>2 DEF Views, Empty, Addr, Abs!Empty
<1> QED
  BY <1>1, <1>3, <1>4 DEF Abs!Discard

(* The readers a commit leaves behind see what they saw: every version they*)
(* read through is still counted, so merge_down has not touched it.        *)
LEMMA CommitRefines ==
    ASSUME CoordinatorInv, CoordinatorInv', NEW t \in Objs, Commit(t)
    PROVE  Abs!Commit(t)
<1> DEFINE S == storages \cup {t}
<1>0. /\ t \in active /\ t \notin storages /\ ~read_only[t]
      /\ active' = active \ {t}
      /\ slot' = [slot EXCEPT ![t] = last_order]
      /\ MergeDown(S, slot', readers')
      /\ \A o \in storages : slot'[o] = slot[o] /\ slot[o] < slot'[t]
      /\ \A u \in active', o \in storages : o \in Chain(based[u]) => readers'[o] # 0
  BY CommitFacts
<1>1. /\ read_only' = [read_only EXCEPT ![t] = TRUE] /\ read_only \in [Objs -> BOOLEAN]
      /\ based' = based
      /\ S \in SUBSET Objs /\ S # {} /\ slot' \in [Objs -> Nat]
  BY <1>0 DEF Commit, CoordinatorInv, TypeOK
<1>2. Committed' = TxView(t)
  BY CommitView
<1>3. /\ storages' \subseteq S /\ storages' # {}
      /\ blocks' \in [Objs -> [Addr -> Val \cup {NoVal}]]
      /\ bver' \in [Objs -> [Addr -> Nat]]
      /\ \A p \in S : readers'[p] # 0 => p \in storages'
      /\ \A p \in Objs : p \notin S \/ readers'[p] # 0 => blocks'[p] = blocks[p]
      /\ \A p \in S \ storages' : readers'[p] = 0 /\ blocks'[p] = Empty
  <2> HIDE DEF S
  <2> QED
    BY <1>0, <1>1, MergeDownLeaves, Zenon
<1>4. ASSUME NEW u \in active' PROVE TxView(u)' = TxView(u)
  <2>1. /\ u \in active /\ u \in Objs /\ u # t /\ u \notin storages
        /\ based[u] \in storages /\ storages \subseteq Objs
        /\ slot'[based[u]] \in Int /\ slot'[t] \in Int
    BY <1>0, <1>1 DEF CoordinatorInv, TypeOK, Partition, BasesLive
  <2>2. \A p \in Chain(based[u]) : /\ p \in storages' /\ slot'[p] = slot[p]
                                   /\ blocks'[p] = blocks[p]
    BY <1>0, <1>3, <2>1 DEF Chain
  <2>3. \A p \in storages' : slot'[p] <= slot'[based[u]] => p \in Chain(based[u])
    <3> SUFFICES ASSUME NEW p \in storages', slot'[p] <= slot'[based[u]]
                 PROVE  p \in Chain(based[u])
      OBVIOUS
    <3>1. p # t
      BY <1>0, <2>1
    <3>2. p \in storages
      BY <1>3, <3>1
    <3> QED
      BY <1>0, <2>1, <3>2 DEF Chain
  <2>4. blocks'[u] = blocks[u] /\ based'[u] = based[u]
    BY <1>1, <1>3, <2>1
  <2> QED
    BY <2>1, <2>2, <2>3, <2>4, TxViewKept
<1>5. Mode' = [Mode EXCEPT ![t] = "idle"] /\ Mode[t] = "write"
  BY <1>0, <1>1 DEF Mode
<1>6. Views' = [Views EXCEPT ![t] = Abs!Empty] /\ Views[t] = TxView(t)
  BY <1>0, <1>4 DEF Views, Empty, Addr, Abs!Empty
<1> QED
  BY <1>2, <1>5, <1>6 DEF Abs!Commit

LEMMA MakeSingularStutters ==
    ASSUME CoordinatorInv, CoordinatorInv', MakeSingular
    PROVE  UNCHANGED Abs!vars
<1>1. Committed' = Committed /\ \A u \in active : TxView(u)' = TxView(u)
  BY MakeSingularView
<1>2. active' = active /\ read_only' = read_only
  BY DEF MakeSingular, objVars
<1>3. Mode' = Mode /\ Views' = Views
  BY <1>1, <1>2 DEF Mode, Views, Empty, Addr
<1> QED
  BY <1>1, <1>3 DEF Abs!vars

LEMMA SynchStutters ==
    ASSUME CoordinatorInv, CoordinatorInv', JournalSynchStart \/ JournalSynchEnd
    PROVE  UNCHANGED Abs!vars
<1>1. /\ active' = active /\ read_only' = read_only /\ based' = based
      /\ blocks' = blocks
  BY DEF JournalSynchStart, JournalSynchEnd, objVars
<1>2. Committed' = Committed
  BY QuietStepsKeepCommitted, ObjsAssumption
<1>3. \A u \in active : TxView(u)' = TxView(u)
  BY <1>1, OtherViewsKept, ObjsAssumption
<1>4. Mode' = Mode /\ Views' = Views
  BY <1>1, <1>3 DEF Mode, Views, Empty, Addr
<1> QED
  BY <1>2, <1>4 DEF Abs!vars

LEMMA VarsStutter ==
    ASSUME UNCHANGED vars
    PROVE  UNCHANGED Abs!vars
BY DEF vars, objVars, Abs!vars, Committed, ReadFrom, Newest, Chain, Mode, Views,
       TxView, TxRead, Empty, Addr

LEMMA InitRefines == Init => Abs!Init
<1> SUFFICES ASSUME Init PROVE Abs!Init
  OBVIOUS
<1>1. CoordinatorInv
  BY InitInv
<1>2. \A o \in Objs, a \in Addr : blocks[o][a] = NoVal
  BY DEF Init, Empty
<1>3. ASSUME NEW a \in Addr
      PROVE  Lookup(storages, slot, blocks, blocks, a, NoVal) = NoVal
  <2>1. Holders(storages, blocks, a) = {}
    BY <1>1, <1>2 DEF Holders, CoordinatorInv, TypeOK
  <2> QED
    BY <2>1 DEF Lookup
<1>4. Committed = Abs!Empty
  BY <1>1, <1>3, CommittedLookup DEF Abs!Empty
<1>5. Mode = [t \in Objs |-> "idle"] /\ Views = [t \in Objs |-> Abs!Empty]
  BY DEF Init, Mode, Views, Empty, Abs!Empty
<1> QED
  BY <1>4, <1>5 DEF Abs!Init

(* Snapshot isolation on the commit path: if no writer finishes through    *)
(* merge, every transaction keeps the view it began with but for its own   *)
(* writes, and a commit publishes the writer's view in one step.           *)
THEOREM CommitPathIsSnapshotStore ==
    ASSUME "merge" \notin Paths
    PROVE  Spec => ImplementsSnapshotStore
<1>1. Init => Abs!Init
  BY InitRefines
<1>2. ASSUME CoordinatorInv, CoordinatorInv', [Next]_vars
      PROVE  [Abs!Next]_(Abs!vars)
  <2>1. ASSUME NEW t \in Objs, BeginReader(t) PROVE Abs!Next
    BY <1>2, <2>1, BeginReaderRefines DEF Abs!Next
  <2>2. ASSUME NEW t \in Objs, BeginWriter(t) PROVE Abs!Next
    BY <1>2, <2>2, BeginWriterRefines DEF Abs!Next
  <2>3. ASSUME NEW t \in Objs, NEW a \in Addr, NEW v \in Val, Store(t, a, v)
        PROVE  Abs!Next
    BY <1>2, <2>3, StoreRefines DEF Abs!Next
  <2>4. ASSUME NEW t \in Objs, NEW v \in Val, Create(t, v) PROVE Abs!Next
    BY <2>3, <2>4 DEF Create
  <2>5. ASSUME NEW t \in Objs, Discard(t) PROVE Abs!Next
    BY <1>2, <2>5, DiscardRefines DEF Abs!Next
  <2>6. ASSUME NEW t \in Objs, Commit(t) PROVE Abs!Next
    BY <1>2, <2>6, CommitRefines DEF Abs!Next
  <2>7. ASSUME NEW t \in Objs, Merge(t) PROVE FALSE
    BY <2>7 DEF Merge
  <2>8. ASSUME MakeSingular PROVE UNCHANGED Abs!vars
    BY <1>2, <2>8, MakeSingularStutters
  <2>9. ASSUME JournalSynchStart \/ JournalSynchEnd PROVE UNCHANGED Abs!vars
    BY <1>2, <2>9, SynchStutters
  <2>10. ASSUME UNCHANGED vars PROVE UNCHANGED Abs!vars
    BY <2>10, VarsStutter
  <2> QED
    BY <1>2, <2>1, <2>2, <2>3, <2>4, <2>5, <2>6, <2>7, <2>8, <2>9, <2>10 DEF Next
<1>3. Spec => []CoordinatorInv
  BY CoordinatorCorrect
<1> QED
  BY <1>1, <1>2, <1>3, PTL DEF Spec, ImplementsSnapshotStore, Abs!Spec

-----------------------------------------------------------------------------
(* The writer's side                                                       *)

FullInv == CoordinatorInv /\ WriterInv

(* VersionsGrow for any set of versions and positions.                     *)
Growing(S, sl) ==
    \A o, p \in S :
        sl[p] < sl[o] =>
            /\ version[p] < version[o]
            /\ \A a \in Addr : blocks[o][a] # NoVal =>
                  /\ version[p] < bver[o][a]
                  /\ blocks[p][a] # NoVal => bver[p][a] < bver[o][a]

-----------------------------------------------------------------------------
(* A block merge_down leaves in a version came, with its version, from that*)
(* version or from above it, and from below every other that is left.      *)
MovedDownFrom(S, sl) ==
    \A o \in storages', a \in Addr :
        blocks'[o][a] # NoVal =>
            \E h \in S :
                /\ sl[o] <= sl[h]
                /\ blocks[h][a] # NoVal
                /\ bver'[o][a] = bver[h][a]
                /\ \A q \in storages' : sl[o] < sl[q] => sl[h] < sl[q]

LEMMA MergeDownOrigin ==
    ASSUME CoordinatorInv, NEW S \in SUBSET Objs, NEW sl \in [Objs -> Nat],
           NEW rd, MergeDown(S, sl, rd)
    PROVE  MovedDownFrom(S, sl)
<1> SUFFICES ASSUME NEW o \in storages', NEW a \in Addr, blocks'[o][a] # NoVal
             PROVE  \E h \in S :
                       /\ sl[o] <= sl[h]
                       /\ blocks[h][a] # NoVal
                       /\ bver'[o][a] = bver[h][a]
                       /\ \A q \in storages' : sl[o] < sl[q] => sl[h] < sl[q]
  BY DEF MovedDownFrom
<1>0. /\ IsFiniteSet(S) /\ \A x \in S : sl[x] \in Int
      /\ blocks \in [Objs -> [Addr -> Val \cup {NoVal}]]
      /\ bver \in [Objs -> [Addr -> Nat]]
  BY FS_Subset, ObjsAssumption DEF CoordinatorInv, TypeOK
<1>1. CASE journal_synching
  BY <1>0, <1>1 DEF MergeDown
<1>2. CASE ~journal_synching
  <2>1. /\ storages' = S \ MergedAway(S, sl, rd)
        /\ blocks' = MoveDown(S, sl, rd, blocks, blocks, NoVal)
        /\ bver' = MoveDown(S, sl, rd, blocks, bver, 0)
    BY <1>2 DEF MergeDown
  <2>2. /\ MoveDown(S, sl, rd, blocks, blocks, NoVal)[o][a] # NoVal
        /\ o \in S \ MergedAway(S, sl, rd)
    BY <2>1
  <2>3. /\ o \in DOMAIN blocks /\ o \in DOMAIN bver
        /\ a \in DOMAIN blocks[o] /\ a \in DOMAIN bver[o]
    BY <1>0, <2>2
  <2> DEFINE h == Source(S, sl, rd, blocks, o, a)
  <2>4. /\ h \in S /\ sl[o] <= sl[h] /\ blocks[h][a] # NoVal
        /\ \A q \in S \ MergedAway(S, sl, rd) : sl[o] < sl[q] => sl[h] < sl[q]
    BY <1>0, <2>3, <2>2, MovedFrom
  <2>5. MoveDown(S, sl, rd, blocks, bver, 0)[o][a] = bver[h][a]
    BY <2>3, <2>2, MovedEntry
  <2> HIDE DEF h
  <2> QED
    BY <2>1, <2>4, <2>5
<1> QED
  BY <1>1, <1>2

(* merge_down keeps versions growing along the vector.                     *)
LEMMA MergeDownGrows ==
    ASSUME CoordinatorInv, NEW S \in SUBSET Objs, S # {},
           NEW sl \in [Objs -> Nat], slot' = sl, version' = version,
           NEW rd, MergeDown(S, sl, rd), Growing(S, sl)
    PROVE  VersionsGrow'
<1>0. storages' \subseteq S /\ MovedDownFrom(S, sl)
  BY MergeDownLeaves, MergeDownOrigin, Zenon
<1> SUFFICES ASSUME NEW o \in storages', NEW p \in storages', sl[p] < sl[o]
             PROVE  /\ version[p] < version[o]
                    /\ \A a \in Addr : blocks'[o][a] # NoVal =>
                          /\ version[p] < bver'[o][a]
                          /\ blocks'[p][a] # NoVal => bver'[p][a] < bver'[o][a]
  BY DEF VersionsGrow, Addr
<1>1. o \in S /\ p \in S
  BY <1>0
<1>2. version[p] < version[o]
  BY <1>1 DEF Growing
<1>3. ASSUME NEW a \in Addr, blocks'[o][a] # NoVal
      PROVE  /\ version[p] < bver'[o][a]
             /\ blocks'[p][a] # NoVal => bver'[p][a] < bver'[o][a]
  <2>1. PICK h \in S : /\ sl[o] <= sl[h]
                       /\ blocks[h][a] # NoVal
                       /\ bver'[o][a] = bver[h][a]
    BY <1>0, <1>3 DEF MovedDownFrom
  <2>2. sl[p] < sl[h]
    BY <1>1, <2>1
  <2>3. version[p] < bver'[o][a]
    BY <1>1, <2>1, <2>2 DEF Growing
  <2>4. ASSUME blocks'[p][a] # NoVal
        PROVE  bver'[p][a] < bver'[o][a]
    <3>1. PICK g \in S : /\ blocks[g][a] # NoVal
                         /\ bver'[p][a] = bver[g][a]
                         /\ \A q \in storages' : sl[p] < sl[q] => sl[g] < sl[q]
      BY <1>0, <2>4 DEF MovedDownFrom
    <3>2. sl[g] < sl[o]
      BY <3>1
    <3>3. sl[g] < sl[h]
      BY <1>1, <2>1, <3>1, <3>2
    <3> QED
      BY <2>1, <3>1, <3>3 DEF Growing
  <2> QED
    BY <2>3, <2>4
<1> QED
  BY <1>2, <1>3

(* storages.back() stays where it is while it is there and nothing is above.*)
LEMMA NewestKept ==
    ASSUME CoordinatorInv, CoordinatorInv', slot' = slot,
           storages' \subseteq storages, Newest \in storages'
    PROVE  Newest' = Newest
<1>1. \A q \in storages' : slot'[q] <= slot'[Newest]
  BY NewestIsLast
<1>2. /\ \A x \in storages' : slot'[x] \in Int
      /\ \A x, y \in storages' : slot'[x] = slot'[y] => x = y
  BY DEF CoordinatorInv, TypeOK, SlotsOrdered
<1>3. Top(storages', slot') = Newest
  BY <1>1, <1>2, TopUnique
<1> QED
  BY <1>3 DEF Newest

(* There is one writer at most.                                            *)
LEMMA OneWriter ==
    ASSUME WriterInv, NEW t \in active, ~read_only[t], NEW u \in active, ~read_only[u]
    PROVE  t = u
BY DEF WriterInv, WriterAhead

-----------------------------------------------------------------------------
LEMMA InitWriter == Init => WriterInv
<1> SUFFICES ASSUME Init PROVE WriterInv
  OBVIOUS
<1> USE ObjsAssumption, BoundAssumption DEF Init, Empty
<1>1. ClockAhead
  BY DEF ClockAhead
<1>2. VersionsGrow
  BY DEF VersionsGrow
<1>3. WriterAhead /\ CurrentIsNewest
  BY DEF WriterAhead, CurrentIsNewest
<1> QED
  BY <1>1, <1>2, <1>3 DEF WriterInv

(* begin: t joins on storages.back(), at the coordinator's order or below, *)
(* at the clock or below.                                                  *)
LEMMA BeginReaderWriter ==
    ASSUME FullInv, NEW t \in Objs, BeginReader(t)
    PROVE  WriterInv'
<1> USE DEF FullInv
<1>0. /\ TypeOK /\ t \notin active
      /\ UNCHANGED <<storages, slot, blocks, bver, writing_transaction>>
      /\ UNCHANGED <<last_order, last_address, last_comitted_version>>
      /\ active' = active \cup {t}
      /\ based' = [based EXCEPT ![t] = Newest]
      /\ read_only' = [read_only EXCEPT ![t] = TRUE]
  BY DEF BeginReader, Attach, Fresh, Recycled, Free, comVars, CoordinatorInv, Partition
<1>1. /\ \A o \in Objs : o # t => version'[o] = version[o] /\ order'[o] = order[o]
                                  /\ next'[o] = next[o]
      /\ clock' \in Nat /\ clock <= clock' /\ version'[t] <= clock' /\ order'[t] <= last_order
      /\ \A o \in Objs : version'[o] <= clock'
      /\ t \notin storages
  <2>1. CASE Fresh(t)
    BY <1>0, <2>1 DEF Fresh, Free, TypeOK, WriterInv, ClockAhead
  <2>2. CASE Recycled(t)
    BY <1>0, <2>2 DEF Recycled, TypeOK, WriterInv, ClockAhead, CoordinatorInv, Partition
  <2> QED
    BY <2>1, <2>2 DEF BeginReader
<1>2. Newest' = Newest
  BY <1>0 DEF Newest
<1>3. ClockAhead'
  <2>1. \A o \in Objs : version'[o] <= clock' /\ order'[o] <= last_order
    BY <1>1 DEF WriterInv, ClockAhead
  <2>2. last_comitted_version <= clock'
    BY <1>0, <1>1 DEF WriterInv, ClockAhead, TypeOK
  <2>3. \A o \in storages, a \in Addr :
            blocks[o][a] # NoVal => bver[o][a] <= clock' /\ a <= last_address
    BY <1>0, <1>1 DEF WriterInv, ClockAhead, TypeOK
  <2> QED
    BY <1>0, <2>1, <2>2, <2>3 DEF ClockAhead, Addr
<1>4. VersionsGrow'
  <2>1. \A o \in storages : version'[o] = version[o]
    BY <1>0, <1>1 DEF TypeOK
  <2> QED
    BY <1>0, <2>1 DEF WriterInv, VersionsGrow, Addr
<1>5. WriterAhead'
  <2> SUFFICES ASSUME NEW u \in active', ~read_only'[u]
               PROVE  /\ u = writing_transaction
                      /\ based'[u] = Newest
                      /\ order'[u] = last_order
                      /\ last_comitted_version < version'[u]
                      /\ last_address <= next'[u]
                      /\ \A o \in storages :
                            /\ version'[o] < version'[u]
                            /\ \A a \in Addr : blocks[o][a] # NoVal => bver[o][a] < version'[u]
                      /\ \A a \in Addr :
                            blocks[u][a] # NoVal => bver[u][a] = version'[u] /\ a <= next'[u]
    BY <1>0, <1>2 DEF WriterAhead, Addr
  <2>1. u # t /\ u \in active /\ ~read_only[u]
    BY <1>0 DEF TypeOK
  <2> QED
    BY <1>0, <1>1, <2>1 DEF WriterInv, WriterAhead, TypeOK
<1>6. CurrentIsNewest'
  BY <1>0, <1>1, <1>2 DEF WriterInv, CurrentIsNewest, TypeOK
<1> QED
  BY <1>3, <1>4, <1>5, <1>6 DEF WriterInv

(* begin: no writer is underway, and the version made is above all.        *)
LEMMA BeginWriterWriter ==
    ASSUME FullInv, NEW t \in Objs, BeginWriter(t)
    PROVE  WriterInv'
<1> USE DEF FullInv
<1>0. /\ TypeOK /\ t \notin active /\ t \notin storages
      /\ UNCHANGED <<storages, slot, blocks, bver>>
      /\ UNCHANGED <<last_order, last_address, last_comitted_version>>
      /\ active' = active \cup {t}
      /\ based' = [based EXCEPT ![t] = Newest]
      /\ read_only' = [read_only EXCEPT ![t] = FALSE]
      /\ writing_transaction' = t
      /\ clock' = clock + 1
      /\ version' = [version EXCEPT ![t] = clock + 1]
      /\ order' = [order EXCEPT ![t] = last_order]
      /\ next' = [next EXCEPT ![t] = last_address]
  BY DEF BeginWriter, Attach, Fresh, Free, comVars, CoordinatorInv
<1>1. \A u \in active : read_only[u]
  <2>1. Writers = {}
    BY FiniteCounts, FS_EmptySet DEF BeginWriter, CoordinatorInv, Counters, Writers
  <2> QED
    BY <2>1 DEF Writers
<1>2. Newest' = Newest
  BY <1>0 DEF Newest
<1>3. blocks[t] = Empty
  BY <1>0 DEF CoordinatorInv, OnlyWritersHold
<1>4. ClockAhead'
  <2>1. \A o \in Objs : version'[o] <= clock' /\ order'[o] <= last_order
    BY <1>0 DEF WriterInv, ClockAhead, TypeOK
  <2>2. last_comitted_version <= clock'
    BY <1>0 DEF WriterInv, ClockAhead, TypeOK
  <2>3. \A o \in storages, a \in Addr :
            blocks[o][a] # NoVal => bver[o][a] <= clock' /\ a <= last_address
    BY <1>0 DEF WriterInv, ClockAhead, TypeOK
  <2> QED
    BY <1>0, <2>1, <2>2, <2>3 DEF ClockAhead, Addr
<1>5. VersionsGrow'
  BY <1>0 DEF WriterInv, VersionsGrow, TypeOK, Addr
<1>6. WriterAhead'
  <2>1. \A u \in active' : ~read_only'[u] => u = t
    BY <1>0, <1>1 DEF TypeOK
  <2>2. /\ based'[t] = Newest /\ order'[t] = last_order
        /\ version'[t] = clock + 1 /\ next'[t] = last_address
    BY <1>0 DEF TypeOK
  <2>3. last_comitted_version < version'[t] /\ last_address <= next'[t]
    BY <2>2 DEF WriterInv, ClockAhead, CoordinatorInv, TypeOK
  <2>4. \A o \in storages : version'[o] < version'[t]
    BY <1>0, <2>2 DEF WriterInv, ClockAhead, TypeOK
  <2>5. \A o \in storages : \A a \in Addr : blocks[o][a] # NoVal => bver[o][a] < version'[t]
    BY <1>0, <2>2 DEF WriterInv, ClockAhead, TypeOK
  <2>6. \A a \in Addr : blocks[t][a] = NoVal
    BY <1>3 DEF Empty
  <2> QED
    BY <1>0, <1>2, <2>1, <2>2, <2>3, <2>4, <2>5, <2>6 DEF WriterAhead, Addr
<1>7. CurrentIsNewest'
  BY <1>0, <1>2 DEF WriterInv, CurrentIsNewest, TypeOK
<1> QED
  BY <1>4, <1>5, <1>6, <1>7 DEF WriterInv

(* A write goes to the writer's own map, at its version.                   *)
LEMMA StoreWriter ==
    ASSUME FullInv, NEW t \in Objs, NEW a \in Addr, NEW v \in Val, Store(t, a, v)
    PROVE  WriterInv'
<1> USE DEF FullInv
<1>0. /\ TypeOK /\ t \in active /\ ~read_only[t] /\ t \notin storages
      /\ UNCHANGED <<storages, slot, active, based, read_only, version, order, clock>>
      /\ UNCHANGED <<last_order, last_address, last_comitted_version, writing_transaction>>
  BY DEF Store, txVars, comVars, CoordinatorInv, Partition
<1>1. /\ \A o \in Objs : o # t => /\ blocks'[o] = blocks[o]
                                 /\ bver'[o] = bver[o]
                                 /\ next'[o] = next[o]
      /\ next[t] <= next'[t] /\ a <= next'[t] /\ next'[t] \in Nat
      /\ \A b \in Addr : b # a => /\ blocks'[t][b] = blocks[t][b]
                                  /\ bver'[t][b] = bver[t][b]
      /\ bver'[t][a] = IF blocks[t][a] # NoVal THEN bver[t][a] ELSE version[t]
  <2>1. /\ blocks' = [blocks EXCEPT ![t][a] = v]
        /\ bver' = [bver EXCEPT ![t][a] = IF blocks[t][a] # NoVal THEN @ ELSE version[t]]
        /\ next' = [next EXCEPT ![t] = Max2(a, @)]
    BY DEF Store
  <2>2. next[t] <= next'[t] /\ a <= next'[t] /\ next'[t] \in Nat
    BY <1>0, <2>1 DEF TypeOK, Max2, Addr
  <2> QED
    BY <1>0, <2>1, <2>2 DEF TypeOK
<1>2. Newest' = Newest
  BY <1>0 DEF Newest
<1>3. \A o \in storages : o # t /\ o \in Objs
  BY <1>0 DEF TypeOK
<1>4. ClockAhead'
  BY <1>0, <1>1, <1>3 DEF WriterInv, ClockAhead, Addr
<1>5. VersionsGrow'
  BY <1>0, <1>1, <1>3 DEF WriterInv, VersionsGrow, Addr
<1>6. WriterAhead'
  <2>1. \A u \in active : ~read_only[u] => u = t
    BY <1>0, OneWriter
  <2>2. /\ t = writing_transaction /\ based[t] = Newest /\ order[t] = last_order
        /\ last_comitted_version < version[t] /\ last_address <= next[t]
        /\ \A o \in storages :
              /\ version[o] < version[t]
              /\ \A b \in Addr : blocks[o][b] # NoVal => bver[o][b] < version[t]
        /\ \A b \in Addr :
              blocks[t][b] # NoVal => bver[t][b] = version[t] /\ b <= next[t]
    BY <1>0 DEF WriterInv, WriterAhead
  <2>3. last_address <= next'[t]
    BY <1>0, <1>1, <2>2 DEF TypeOK
  <2>4. \A o \in storages, b \in Addr : blocks'[o][b] # NoVal => bver'[o][b] < version[t]
    BY <1>1, <1>3, <2>2
  <2>5. ASSUME NEW b \in Addr, blocks'[t][b] # NoVal
        PROVE  bver'[t][b] = version[t] /\ b <= next'[t]
    <3>1. CASE b = a
      BY <1>1, <2>2, <3>1
    <3>2. CASE b # a
      <4>1. bver'[t][b] = version[t] /\ b <= next[t]
        BY <1>1, <2>2, <2>5, <3>2
      <4>2. b \in Int /\ next[t] \in Int
        BY <1>0 DEF TypeOK, Addr
      <4> QED
        BY <1>1, <4>1, <4>2
    <3> QED
      BY <3>1, <3>2
  <2> QED
    BY <1>0, <1>2, <2>1, <2>2, <2>3, <2>4, <2>5 DEF WriterAhead, Addr
<1>7. CurrentIsNewest'
  BY <1>0, <1>2 DEF WriterInv, CurrentIsNewest
<1> QED
  BY <1>4, <1>5, <1>6, <1>7 DEF WriterInv

LEMMA DiscardWriter ==
    ASSUME FullInv, NEW t \in Objs, Discard(t)
    PROVE  WriterInv'
<1> USE DEF FullInv
<1>0. /\ TypeOK /\ t \in active /\ t \notin storages
      /\ active' = active \ {t}
      /\ \A o \in Objs : o # t => /\ blocks'[o] = blocks[o]
                                 /\ bver'[o] = bver[o]
                                 /\ read_only'[o] = read_only[o]
      /\ UNCHANGED <<storages, slot, based, version, order, next, clock>>
      /\ UNCHANGED <<last_order, last_address, last_comitted_version, writing_transaction>>
  BY DEF Discard, comVars, CoordinatorInv, Partition, TypeOK
<1>1. Newest' = Newest
  BY <1>0 DEF Newest
<1>2. \A o \in storages : o # t /\ o \in Objs
  BY <1>0 DEF TypeOK
<1>3. ClockAhead'
  BY <1>0, <1>2 DEF WriterInv, ClockAhead, Addr
<1>4. VersionsGrow'
  BY <1>0, <1>2 DEF WriterInv, VersionsGrow, Addr
<1>5. \A u \in active' : u \in active /\ u # t /\ u \in Objs
  BY <1>0 DEF TypeOK
<1>6. WriterAhead'
  BY <1>0, <1>1, <1>2, <1>5 DEF WriterInv, WriterAhead, Addr
<1>7. CurrentIsNewest'
  BY <1>0, <1>1, <1>5 DEF WriterInv, CurrentIsNewest
<1> QED
  BY <1>3, <1>4, <1>6, <1>7 DEF WriterInv

(* merge moves the writer's blocks into storages.back(), above all that is *)
(* there, and gives the writer a higher version and the new order.         *)
LEMMA MergeWriter ==
    ASSUME FullInv, NEW t \in Objs, Merge(t)
    PROVE  WriterInv'
<1> USE DEF FullInv
<1> DEFINE n == Newest
<1>0. /\ TypeOK /\ t \in active /\ ~read_only[t] /\ t \notin storages
      /\ n \in storages /\ n \in Objs /\ n # t
      /\ \A q \in storages : slot[q] <= slot[n]
      /\ UNCHANGED <<storages, slot, active, based, read_only, next, writing_transaction>>
  BY NewestIsLast DEF Merge, MayFinish, txVars, CoordinatorInv, Partition, TypeOK
<1>1. /\ clock' = clock + 1
      /\ version' = [version EXCEPT ![t] = clock + 1]
      /\ last_order' = last_order + 1
      /\ order' = [order EXCEPT ![t] = last_order + 1]
      /\ last_address' = Max2(last_address, next[t])
      /\ last_comitted_version' = version[t]
  BY DEF Merge, Renew, Publish
<1>2. /\ t = writing_transaction /\ based[t] = n /\ order[t] = last_order
      /\ last_comitted_version < version[t] /\ last_address <= next[t]
      /\ \A o \in storages :
            /\ version[o] < version[t]
            /\ \A a \in Addr : blocks[o][a] # NoVal => bver[o][a] < version[t]
      /\ \A a \in Addr :
            blocks[t][a] # NoVal => bver[t][a] = version[t] /\ a <= next[t]
  BY <1>0 DEF WriterInv, WriterAhead
<1>3. Newest' = n
  BY <1>0 DEF Newest
<1>4. last_address' = next[t]
  <2>1. last_address \in Nat /\ next[t] \in Nat
    BY <1>0 DEF TypeOK
  <2> QED
    BY <1>1, <1>2, <2>1 DEF Max2
<1>5. /\ \A o \in Objs : o # t /\ o # n => blocks'[o] = blocks[o] /\ bver'[o] = bver[o]
      /\ \A a \in Addr :
            /\ blocks'[t][a] = NoVal
            /\ blocks'[n][a] = IF blocks[t][a] # NoVal THEN blocks[t][a] ELSE blocks[n][a]
            /\ bver'[n][a] = IF blocks[t][a] # NoVal THEN bver[t][a] ELSE bver[n][a]
  <2> DEFINE b == [a \in Addr |-> IF blocks[t][a] # NoVal
                                  THEN blocks[t][a] ELSE blocks[n][a]]
             w == [a \in Addr |-> IF blocks[t][a] # NoVal
                                  THEN bver[t][a] ELSE bver[n][a]]
  <2>1. /\ blocks' = [blocks EXCEPT ![n] = b, ![t] = Empty]
        /\ bver' = [bver EXCEPT ![n] = w, ![t] = ZeroVersions]
    BY DEF Merge, Move
  <2>2. blocks'[n] = b /\ bver'[n] = w /\ blocks'[t] = Empty
    <3> HIDE DEF b, w, n
    <3> QED
      BY <1>0, <2>1 DEF TypeOK
  <2>3. \A o \in Objs : o # t /\ o # n => blocks'[o] = blocks[o] /\ bver'[o] = bver[o]
    <3> HIDE DEF b, w, n
    <3> QED
      BY <2>1 DEF CoordinatorInv, TypeOK
  <2> QED
    BY <2>2, <2>3 DEF Empty
<1> HIDE DEF n
(* A block of a committed version is the one that was there, or was the    *)
(* writer's and is in the newest one now.                                  *)
<1>6. \A o \in storages, a \in Addr : blocks'[o][a] # NoVal =>
          \/ o = n /\ blocks[t][a] # NoVal /\ bver'[o][a] = version[t]
          \/ blocks[o][a] # NoVal /\ bver'[o][a] = bver[o][a]
  <2> SUFFICES ASSUME NEW o \in storages, NEW a \in Addr, blocks'[o][a] # NoVal
               PROVE  \/ o = n /\ blocks[t][a] # NoVal /\ bver'[o][a] = version[t]
                      \/ blocks[o][a] # NoVal /\ bver'[o][a] = bver[o][a]
    OBVIOUS
  <2>1. o \in Objs /\ o # t
    BY <1>0 DEF TypeOK
  <2>2. CASE o = n
    BY <1>2, <1>5, <2>2
  <2>3. CASE o # n
    BY <1>5, <2>1, <2>3
  <2> QED
    BY <2>2, <2>3
<1>7. \A o \in storages : version'[o] = version[o] /\ version[o] \in Nat /\ slot[o] \in Nat
  BY <1>0, <1>1 DEF TypeOK
<1>8. /\ version'[t] = clock + 1 /\ order'[t] = last_order + 1
      /\ version[t] <= clock /\ version[t] \in Nat /\ clock \in Nat
      /\ last_order \in Nat /\ next[t] \in Nat /\ last_address \in Nat
  BY <1>0, <1>1 DEF WriterInv, ClockAhead, TypeOK
<1>9. ClockAhead'
  <2>1. \A o \in Objs : version'[o] <= clock' /\ order'[o] <= last_order'
    BY <1>0, <1>1 DEF WriterInv, ClockAhead, TypeOK
  <2>2. last_comitted_version' <= clock'
    BY <1>1, <1>8
  <2>3. ASSUME NEW o \in storages, NEW a \in Addr, blocks'[o][a] # NoVal
        PROVE  bver'[o][a] <= clock' /\ a <= last_address'
    <3>1. CASE blocks[t][a] # NoVal /\ bver'[o][a] = version[t]
      BY <1>1, <1>2, <1>4, <1>8, <3>1
    <3>2. CASE blocks[o][a] # NoVal /\ bver'[o][a] = bver[o][a]
      <4>1. bver[o][a] <= clock /\ a <= last_address /\ bver[o][a] \in Nat
        BY <1>0, <3>2 DEF WriterInv, ClockAhead, TypeOK
      <4>2. a \in Int
        BY DEF Addr
      <4> QED
        BY <1>1, <1>2, <1>4, <1>8, <3>2, <4>1, <4>2
    <3> QED
      BY <1>6, <2>3, <3>1, <3>2
  <2> QED
    BY <1>0, <2>1, <2>2, <2>3 DEF ClockAhead, Addr
<1>10. VersionsGrow'
  <2> SUFFICES ASSUME NEW o \in storages, NEW p \in storages, slot[p] < slot[o]
               PROVE  /\ version[p] < version[o]
                      /\ \A a \in Addr : blocks'[o][a] # NoVal =>
                            /\ version[p] < bver'[o][a]
                            /\ blocks'[p][a] # NoVal => bver'[p][a] < bver'[o][a]
    BY <1>0, <1>7 DEF VersionsGrow, Addr
  <2>1. p # n
    BY <1>0, <1>7
  <2>2. version[p] < version[o]
    BY DEF WriterInv, VersionsGrow
  <2>3. ASSUME NEW a \in Addr, blocks'[o][a] # NoVal
        PROVE  /\ version[p] < bver'[o][a]
               /\ blocks'[p][a] # NoVal => bver'[p][a] < bver'[o][a]
    <3>1. blocks'[p][a] # NoVal => blocks[p][a] # NoVal /\ bver'[p][a] = bver[p][a]
      BY <1>6, <2>1
    <3>2. CASE bver'[o][a] = version[t]
      BY <1>2, <3>1, <3>2
    <3>3. CASE blocks[o][a] # NoVal /\ bver'[o][a] = bver[o][a]
      BY <3>1, <3>3 DEF WriterInv, VersionsGrow
    <3> QED
      BY <1>6, <2>3, <3>2, <3>3
  <2> QED
    BY <2>2, <2>3
<1>11. WriterAhead'
  <2>1. \A u \in active : ~read_only[u] => u = t
    BY <1>0, OneWriter
  <2>2. \A o \in storages : version'[o] < version'[t]
    BY <1>2, <1>7, <1>8
  <2>3. ASSUME NEW o \in storages, NEW a \in Addr, blocks'[o][a] # NoVal
        PROVE  bver'[o][a] < version'[t]
    <3>1. blocks[o][a] # NoVal => bver[o][a] <= clock /\ bver[o][a] \in Nat
      BY <1>0 DEF WriterInv, ClockAhead, TypeOK
    <3> QED
      BY <1>6, <1>8, <2>3, <3>1
  <2>4. last_comitted_version' < version'[t] /\ last_address' <= next[t]
    BY <1>1, <1>4, <1>8
  <2> QED
    BY <1>0, <1>1, <1>2, <1>3, <1>5, <1>8, <2>1, <2>2, <2>3, <2>4 DEF WriterAhead, Addr
<1>12. CurrentIsNewest'
  <2> SUFFICES ASSUME NEW u \in active, read_only[u] PROVE order'[u] # last_order'
    BY <1>0 DEF CurrentIsNewest
  <2>1. u # t /\ u \in Objs
    BY <1>0 DEF TypeOK
  <2> QED
    BY <1>0, <1>1, <2>1 DEF WriterInv, ClockAhead, TypeOK
<1> QED
  BY <1>9, <1>10, <1>11, <1>12 DEF WriterInv

(* A committed version joins the vector above all others, with the blocks  *)
(* the writer had, and merge_down follows.                                 *)
LEMMA CommitWriter ==
    ASSUME FullInv, NEW t \in Objs, Commit(t)
    PROVE  WriterInv'
<1> USE DEF FullInv
<1> DEFINE S == storages \cup {t}
<1>0. /\ TypeOK /\ t \in active /\ t \notin storages /\ ~read_only[t]
      /\ active' = active \ {t}
      /\ slot' = [slot EXCEPT ![t] = last_order]
      /\ MergeDown(S, slot', readers')
      /\ \A o \in storages : slot'[o] = slot[o] /\ slot[o] < slot'[t]
  BY CommitFacts DEF CoordinatorInv
<1>1. /\ read_only' = [read_only EXCEPT ![t] = TRUE]
      /\ last_address' = Max2(last_address, next[t])
      /\ last_comitted_version' = version[t]
      /\ last_order' = last_order + 1
      /\ UNCHANGED <<clock, version, order>>
  BY DEF Commit, Publish, Push
<1>2. /\ S \in SUBSET Objs /\ S # {} /\ slot' \in [Objs -> Nat]
  BY <1>0 DEF TypeOK
<1>3. /\ last_address <= next[t]
      /\ \A o \in storages :
            /\ version[o] < version[t]
            /\ \A a \in Addr : blocks[o][a] # NoVal => bver[o][a] < version[t]
      /\ \A a \in Addr :
            blocks[t][a] # NoVal => bver[t][a] = version[t] /\ a <= next[t]
  BY <1>0 DEF WriterInv, WriterAhead
<1>4. Growing(S, slot')
  <2> SUFFICES ASSUME NEW o \in S, NEW p \in S, slot'[p] < slot'[o]
               PROVE  /\ version[p] < version[o]
                      /\ \A a \in Addr : blocks[o][a] # NoVal =>
                            /\ version[p] < bver[o][a]
                            /\ blocks[p][a] # NoVal => bver[p][a] < bver[o][a]
    BY DEF Growing
  <2>1. slot'[o] \in Int /\ slot'[p] \in Int
    BY <1>2
  <2>2. p \in storages
    BY <1>0, <2>1
  <2>3. CASE o = t
    BY <1>3, <2>2, <2>3
  <2>4. CASE o \in storages
    BY <1>0, <2>2, <2>4 DEF WriterInv, VersionsGrow
  <2> QED
    BY <2>3, <2>4
<1>5. last_address' = next[t] /\ last_address \in Nat /\ next[t] \in Nat
  <2>1. last_address \in Nat /\ next[t] \in Nat
    BY <1>0 DEF TypeOK
  <2> QED
    BY <1>1, <1>3, <2>1 DEF Max2
<1>6. \A h \in S, a \in Addr :
          blocks[h][a] # NoVal => bver[h][a] <= clock /\ a <= last_address'
  <2> SUFFICES ASSUME NEW h \in S, NEW a \in Addr, blocks[h][a] # NoVal
               PROVE  bver[h][a] <= clock /\ a <= last_address'
    OBVIOUS
  <2>1. CASE h = t
    BY <1>3, <1>5, <2>1 DEF WriterInv, ClockAhead
  <2>2. CASE h \in storages
    <3>1. bver[h][a] <= clock /\ a <= last_address /\ a \in Int
      BY <2>2 DEF WriterInv, ClockAhead, Addr
    <3> QED
      BY <1>3, <1>5, <3>1
  <2> QED
    BY <2>1, <2>2
<1> HIDE DEF S
<1>7. /\ storages' \subseteq S
      /\ \A o \in storages', a \in Addr :
              blocks'[o][a] # NoVal =>
                 \E h \in S : blocks[h][a] # NoVal /\ bver'[o][a] = bver[h][a]
  <2> DEFINE sl == slot'
             rd == readers'
  <2>1. sl \in [Objs -> Nat] /\ MergeDown(S, sl, rd)
    BY <1>0, <1>2
  <2> HIDE DEF sl, rd
  <2>2. storages' \subseteq S /\ MovedDownFrom(S, sl)
    BY <1>2, <2>1, MergeDownLeaves, MergeDownOrigin, Zenon
  <2>3. \A o \in storages', a \in Addr :
            blocks'[o][a] # NoVal =>
               \E h \in S : blocks[h][a] # NoVal /\ bver'[o][a] = bver[h][a]
    BY <2>2 DEF MovedDownFrom
  <2> QED
    BY <2>2, <2>3
<1>8. VersionsGrow'
  BY <1>0, <1>1, <1>2, <1>4, MergeDownGrows
<1>9. ClockAhead'
  <2>1. \A o \in Objs : version[o] <= clock /\ order[o] <= last_order'
    BY <1>0, <1>1 DEF WriterInv, ClockAhead, TypeOK
  <2>2. last_comitted_version' <= clock
    BY <1>1 DEF WriterInv, ClockAhead
  <2>3. \A o \in storages', a \in Addr :
            blocks'[o][a] # NoVal => bver'[o][a] <= clock /\ a <= last_address'
    BY <1>6, <1>7
  <2> QED
    BY <1>1, <2>1, <2>2, <2>3 DEF ClockAhead, Addr
<1>10. WriterAhead'
  <2>1. \A u \in active' : read_only'[u]
    <3> SUFFICES ASSUME NEW u \in active' PROVE read_only'[u]
      OBVIOUS
    <3>1. u \in active /\ u # t /\ u \in Objs
      BY <1>0 DEF TypeOK
    <3>2. read_only[u]
      BY <1>0, <3>1, OneWriter
    <3> QED
      BY <1>0, <1>1, <3>1, <3>2 DEF TypeOK
  <2> QED
    BY <2>1 DEF WriterAhead
<1>11. CurrentIsNewest'
  <2>1. \A o \in Objs : order'[o] # last_order'
    BY <1>0, <1>1 DEF WriterInv, ClockAhead, TypeOK
  <2> QED
    BY <1>0, <2>1 DEF CurrentIsNewest, TypeOK
<1> QED
  BY <1>8, <1>9, <1>10, <1>11 DEF WriterInv

(* make_singular: what transactions are based on is in use, and stays.     *)
LEMMA MakeSingularWriter ==
    ASSUME FullInv, MakeSingular
    PROVE  WriterInv'
<1> USE DEF FullInv
<1>0. /\ TypeOK /\ MergeDown(storages, slot, readers)
      /\ UNCHANGED <<slot, active, clock, based, version, order, read_only, next>>
      /\ UNCHANGED <<last_order, last_address, last_comitted_version, writing_transaction>>
      /\ storages \in SUBSET Objs /\ storages # {} /\ slot \in [Objs -> Nat]
  BY DEF MakeSingular, objVars, txVars, comVars, CoordinatorInv, TypeOK, Partition
<1>1. CoordinatorInv'
  BY MakeSingularInv
<1>2. /\ storages' \subseteq storages
      /\ \A p \in Objs : p \notin storages => blocks'[p] = blocks[p]
  BY <1>0, MergeDownLeaves, Zenon
<1>3. MovedDownFrom(storages, slot)
  BY <1>0, MergeDownOrigin, Zenon
<1>4. \A o \in storages', a \in Addr :
            blocks'[o][a] # NoVal =>
               \E h \in storages : blocks[h][a] # NoVal /\ bver'[o][a] = bver[h][a]
  BY <1>3 DEF MovedDownFrom
<1>5. VersionsGrow'
  <2>1. Growing(storages, slot)
    BY DEF WriterInv, VersionsGrow, Growing
  <2> QED
    BY <1>0, <2>1, MergeDownGrows
<1>6. ClockAhead'
  BY <1>0, <1>4 DEF WriterInv, ClockAhead, Addr
<1>7. ASSUME NEW u \in active, based[u] = Newest PROVE Newest' = Newest
  <2>1. Newest \in storages'
    BY <1>0, <1>1, <1>7 DEF CoordinatorInv, BasesLive
  <2> QED
    BY <1>0, <1>1, <1>2, <2>1, NewestKept
<1>8. CurrentIsNewest'
  BY <1>0, <1>7 DEF WriterInv, CurrentIsNewest
<1>9. ASSUME NEW u \in active, ~read_only[u]
      PROVE  \A a \in Addr : blocks'[u][a] = blocks[u][a]
                             /\ (blocks[u][a] # NoVal => bver'[u][a] = bver[u][a])
  <2>1. u \in Objs /\ u \notin storages
    BY <1>0 DEF TypeOK, CoordinatorInv, Partition
  <2>2. bver'[u] = bver[u]
    <3>1. CASE journal_synching
      BY <1>0, <3>1 DEF MergeDown
    <3>2. CASE ~journal_synching
      <4>1. bver' = MoveDown(storages, slot, readers, blocks, bver, 0)
        BY <1>0, <3>2 DEF MergeDown
      <4>2. u \in DOMAIN bver
        BY <1>0, <2>1 DEF TypeOK
      <4> QED
        BY <2>1, <4>1, <4>2 DEF MoveDown
    <3> QED
      BY <3>1, <3>2
  <2> QED
    BY <1>2, <2>1, <2>2
<1>10. WriterAhead'
  <2> SUFFICES ASSUME NEW u \in active, ~read_only[u]
               PROVE  /\ u = writing_transaction
                      /\ based[u] = Newest'
                      /\ order[u] = last_order
                      /\ last_comitted_version < version[u]
                      /\ last_address <= next[u]
                      /\ \A o \in storages' :
                            /\ version[o] < version[u]
                            /\ \A a \in Addr : blocks'[o][a] # NoVal => bver'[o][a] < version[u]
                      /\ \A a \in Addr :
                            blocks'[u][a] # NoVal => bver'[u][a] = version[u] /\ a <= next[u]
    BY <1>0 DEF WriterAhead, Addr
  <2>1. /\ u = writing_transaction
        /\ based[u] = Newest
        /\ order[u] = last_order
        /\ last_comitted_version < version[u]
        /\ last_address <= next[u]
        /\ \A o \in storages :
              /\ version[o] < version[u]
              /\ \A a \in Addr : blocks[o][a] # NoVal => bver[o][a] < version[u]
        /\ \A a \in Addr :
              blocks[u][a] # NoVal => bver[u][a] = version[u] /\ a <= next[u]
    BY DEF WriterInv, WriterAhead
  <2>2. Newest' = Newest
    BY <1>7, <2>1
  <2>3. \A o \in storages', a \in Addr : blocks'[o][a] # NoVal => bver'[o][a] < version[u]
    BY <1>4, <2>1
  <2> QED
    BY <1>2, <1>9, <2>1, <2>2, <2>3
<1> QED
  BY <1>5, <1>6, <1>8, <1>10 DEF WriterInv

LEMMA QuietWriter ==
    ASSUME FullInv, JournalSynchStart \/ JournalSynchEnd \/ UNCHANGED vars
    PROVE  WriterInv'
<1>1. /\ UNCHANGED <<storages, slot, active, blocks, bver, clock>>
      /\ UNCHANGED <<based, version, order, read_only, next, writing_transaction>>
      /\ UNCHANGED <<last_order, last_address, last_comitted_version>>
  BY DEF JournalSynchStart, JournalSynchEnd, vars, objVars, txVars, comVars
<1>2. Newest' = Newest
  BY <1>1 DEF Newest
<1>3. ClockAhead'
  BY <1>1 DEF FullInv, WriterInv, ClockAhead, Addr
<1>4. VersionsGrow'
  BY <1>1 DEF FullInv, WriterInv, VersionsGrow, Addr
<1>5. WriterAhead'
  BY <1>1, <1>2 DEF FullInv, WriterInv, WriterAhead, Addr
<1>6. CurrentIsNewest'
  BY <1>1, <1>2 DEF FullInv, WriterInv, CurrentIsNewest
<1> QED
  BY <1>3, <1>4, <1>5, <1>6 DEF WriterInv

LEMMA NextFull == FullInv /\ [Next]_vars => FullInv'
<1> SUFFICES ASSUME FullInv, [Next]_vars PROVE WriterInv'
  BY NextInv DEF FullInv
<1>1. ASSUME NEW t \in Objs, BeginReader(t) PROVE WriterInv'
  BY <1>1, BeginReaderWriter
<1>2. ASSUME NEW t \in Objs, BeginWriter(t) PROVE WriterInv'
  BY <1>2, BeginWriterWriter
<1>3. ASSUME NEW t \in Objs, NEW a \in Addr, NEW v \in Val, Store(t, a, v)
      PROVE  WriterInv'
  BY <1>3, StoreWriter
<1>4. ASSUME NEW t \in Objs, NEW v \in Val, Create(t, v) PROVE WriterInv'
  BY <1>4, StoreWriter DEF Create
<1>5. ASSUME NEW t \in Objs, Discard(t) PROVE WriterInv'
  BY <1>5, DiscardWriter
<1>6. ASSUME NEW t \in Objs, Commit(t) PROVE WriterInv'
  BY <1>6, CommitWriter
<1>7. ASSUME NEW t \in Objs, Merge(t) PROVE WriterInv'
  BY <1>7, MergeWriter
<1>8. ASSUME MakeSingular PROVE WriterInv'
  BY <1>8, MakeSingularWriter
<1>9. ASSUME JournalSynchStart \/ JournalSynchEnd \/ UNCHANGED vars
      PROVE  WriterInv'
  BY <1>9, QuietWriter
<1> QED
  BY <1>1, <1>2, <1>3, <1>4, <1>5, <1>6, <1>7, <1>8, <1>9 DEF Next

-----------------------------------------------------------------------------
(* What the invariant says of the four properties.                         *)
LEMMA FullImplies ==
    ASSUME FullInv
    PROVE  WriterCanFinish /\ MovesNeverThrow /\ FreshAddresses /\ NotStaleIsCurrent
<1> USE DEF FullInv
<1>0. TypeOK
  BY DEF CoordinatorInv
<1>1. WriterCanFinish
  <2> SUFFICES ASSUME NEW t \in active, ~read_only[t]
               PROVE  MayFinish(t) /\ writing_transaction = t
    BY DEF WriterCanFinish
  <2>1. active_transactions # 0
    BY FiniteCounts, FS_EmptySet DEF CoordinatorInv, Counters
  <2>2. /\ t = writing_transaction /\ based[t] = Newest /\ order[t] >= last_order
        /\ version[t] > last_comitted_version
    BY <1>0 DEF WriterInv, WriterAhead, TypeOK
  <2> QED
    BY <2>1, <2>2 DEF MayFinish
<1>2. MovesNeverThrow
  <2>1. ASSUME NEW o \in storages, NEW p \in storages, slot[p] < slot[o]
        PROVE  version[p] < version[o] /\ MoveAllowed(o, p)
    BY <1>0, <2>1 DEF WriterInv, VersionsGrow, MoveAllowed, TypeOK
  <2>2. ASSUME NEW t \in active, ~read_only[t] PROVE MoveAllowed(t, Newest)
    BY <1>0, <2>2, NewestIsLast DEF WriterInv, WriterAhead, MoveAllowed, TypeOK
  <2> QED
    BY <2>1, <2>2 DEF MovesNeverThrow
<1>3. FreshAddresses
  <2> SUFFICES ASSUME NEW t \in active, NEW o \in storages, NEW a \in Addr,
                      ~read_only[t], blocks[o][a] # NoVal
               PROVE  a <= next[t]
    BY DEF FreshAddresses
  <2>1. a <= last_address /\ last_address <= next[t]
    BY DEF WriterInv, ClockAhead, WriterAhead
  <2> QED
    BY <1>0, <2>1 DEF TypeOK, Addr
<1>4. NotStaleIsCurrent
  <2> SUFFICES ASSUME NEW t \in active, read_only[t], order[t] = last_order
               PROVE  TxView(t) = Committed
    BY DEF NotStaleIsCurrent
  <2>1. based[t] = Newest
    BY DEF WriterInv, CurrentIsNewest
  <2>2. blocks[t] = Empty
    BY <1>0 DEF CoordinatorInv, OnlyWritersHold, Partition, TypeOK
  <2> QED
    BY <2>1, <2>2 DEF TxView, TxRead, Committed, Empty
<1> QED
  BY <1>1, <1>2, <1>3, <1>4

LEMMA AlwaysFull == Spec => []FullInv
<1>1. Init => FullInv
  BY InitInv, InitWriter DEF FullInv
<1>2. FullInv /\ [Next]_vars => FullInv'
  BY NextFull
<1> QED
  BY <1>1, <1>2, PTL DEF Spec

(* The clock, versions, orders and addresses that begin gives out stay     *)
(* ahead of what is committed, and versions grow along the vector of       *)
(* storages: what the checks of commit, merge and move compare.            *)
THEOREM WriterCorrect == Spec => []WriterInv
<1>1. FullInv => WriterInv
  BY DEF FullInv
<1> QED
  BY <1>1, AlwaysFull, PTL

(* Whatever else is underway, none of the checks of commit and merge can   *)
(* throw at the one writer begin admits.                                   *)
THEOREM WriterAlwaysFinishes == Spec => []WriterCanFinish
<1>1. FullInv => WriterCanFinish
  BY FullImplies
<1> QED
  BY <1>1, AlwaysFull, PTL

(* sqlite_allocator::move and merge_down never refuse a block, whichever   *)
(* versions are unused and whenever the journal lets merge_down run.       *)
THEOREM MovesAreSafe == Spec => []MovesNeverThrow
<1>1. FullInv => MovesNeverThrow
  BY FullImplies
<1> QED
  BY <1>1, AlwaysFull, PTL

(* A new address is above those of all committed blocks.                   *)
THEOREM AddressesAreFresh == Spec => []FreshAddresses
<1>1. FullInv => FreshAddresses
  BY FullImplies
<1> QED
  BY <1>1, AlwaysFull, PTL

(* stale() never calls a reader current that a commit or merge has passed. *)
THEOREM StaleIsReliable == Spec => []NotStaleIsCurrent
<1>1. FullInv => NotStaleIsCurrent
  BY FullImplies
<1> QED
  BY <1>1, AlwaysFull, PTL

=============================================================================
